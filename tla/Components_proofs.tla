-------------------------- MODULE Components_proofs ---------------------------
(***************************************************************************)
(* What holds of the components of MCComponents for every value of their   *)
(* constants: for each an inductive invariant, in the variables s1, s2,    *)
(* ... of the run, that implies the properties of its module; then the     *)
(* theorems about the run. What is proved here of the profiles, their      *)
(* passwords, their editor and the preferences, Store_proofs puts          *)
(* together with the other components that store something.                *)
(***************************************************************************)
EXTENDS MCComponents, FiniteSetTheorems, SequenceTheorems, WellFoundedInduction, TLAPS

\* A set of numbers has a least one: the choice of the first entry is never in vain.
LEMMA LeastOf ==
    ASSUME NEW S, S \subseteq Nat, S # {}
    PROVE  \E i \in S : \A j \in S : i <= j
<1> DEFINE R == OpToRel(<, Nat)
<1>1. IsWellFoundedOn(R, Nat)
  BY NatLessThanWellFounded
<1>2. \A x, y \in Nat : y < x => <<y, x>> \in R
  BY DEF OpToRel
<1> HIDE DEF R
<1>3. PICK x \in S : \A y \in S : ~ (<<y, x>> \in R)
  BY <1>1, WFMin
<1>4. ASSUME NEW y \in S PROVE x <= y
  <2>1. x \in Nat /\ y \in Nat
    OBVIOUS
  <2>2. ~ (y < x)
    BY <1>2, <1>3, <2>1
  <2> QED BY <2>1, <2>2
<1> QED BY <1>4

\* A list of a finite set without repetitions has all of its elements.
LEMMA AllListed ==
    ASSUME NEW S, IsFiniteSet(S), NEW f \in [1 .. Cardinality(S) -> S],
           \A i, j \in 1 .. Cardinality(S) : i # j => f[i] # f[j]
    PROVE  /\ Cardinality(S) \in Nat
           /\ \A x \in S : \E i \in 1 .. Cardinality(S) : f[i] = x
<1>1. Cardinality(S) \in Nat
  BY FS_CardinalityType
<1>2. /\ IsFiniteSet(1 .. Cardinality(S))
      /\ Cardinality(1 .. Cardinality(S)) = Cardinality(S)
  BY <1>1, FS_Interval
<1>3. f \in Injection(1 .. Cardinality(S), S)
  BY DEF Injection, IsInjective
<1>4. f \in Surjection(1 .. Cardinality(S), S)
  BY <1>2, <1>3, FS_Injection
<1> QED BY <1>1, <1>4 DEF Surjection

\* What a queue holds, and what it holds at most once.
Has(s, x) == \E i \in DOMAIN s : s[i] = x
Once(s, x) == \A i, j \in DOMAIN s : s[i] = x /\ s[j] = x => i = j

\* One element more at the end.
LEMMA AppendHas ==
    ASSUME NEW S, NEW s \in Seq(S), NEW y \in S
    PROVE  /\ Append(s, y) \in Seq(S)
           /\ \A x : Has(Append(s, y), x) <=> Has(s, x) \/ x = y
           /\ \A x : Once(s, x) /\ (x = y => ~Has(s, x)) => Once(Append(s, y), x)
<1> DEFINE t == Append(s, y)
<1>1. /\ t \in Seq(S) /\ Len(t) = Len(s) + 1 /\ Len(s) \in Nat
      /\ \A i \in 1 .. Len(s) : t[i] = s[i]
      /\ t[Len(s) + 1] = y
      /\ DOMAIN s = 1 .. Len(s) /\ DOMAIN t = 1 .. Len(t)
  OBVIOUS
<1> HIDE DEF t
<1>2. ASSUME NEW x PROVE Has(t, x) <=> Has(s, x) \/ x = y
  <2>1. Has(s, x) => Has(t, x)
    BY <1>1 DEF Has
  <2>2. x = y => Has(t, x)
    <3>1. Len(s) + 1 \in DOMAIN t
      BY <1>1
    <3> QED BY <1>1, <3>1 DEF Has
  <2>3. ASSUME NEW i \in DOMAIN t, t[i] = x, x # y PROVE Has(s, x)
    <3>1. i \in DOMAIN s /\ s[i] = x
      BY <1>1, <2>3
    <3> QED BY <3>1 DEF Has
  <2> QED BY <2>1, <2>2, <2>3 DEF Has
<1>3. ASSUME NEW x, Once(s, x), x = y => ~Has(s, x) PROVE Once(t, x)
  <2>1. ASSUME NEW i \in DOMAIN t, NEW j \in DOMAIN t, t[i] = x, t[j] = x PROVE i = j
    <3>1. CASE i \in DOMAIN s /\ j \in DOMAIN s
      BY <1>1, <1>3, <2>1, <3>1 DEF Once
    <3>2. CASE i \notin DOMAIN s /\ j \notin DOMAIN s
      BY <1>1, <2>1, <3>2
    <3>3. ASSUME NEW k \in DOMAIN s, NEW l \in DOMAIN t, l \notin DOMAIN s, t[k] = x, t[l] = x
          PROVE  FALSE
      <4>1. x = y /\ s[k] = x
        BY <1>1, <3>3
      <4> QED BY <1>3, <4>1 DEF Has
    <3> QED BY <2>1, <3>1, <3>2, <3>3
  <2> QED BY <2>1 DEF Once
<1> QED BY <1>1, <1>2, <1>3 DEF t

\* The first is taken away.
LEMMA TailHas ==
    ASSUME NEW S, NEW s \in Seq(S), s # <<>>
    PROVE  /\ Tail(s) \in Seq(S) /\ Head(s) \in S /\ Has(s, Head(s))
           /\ \A x : Has(Tail(s), x) => Has(s, x)
           /\ \A x : Has(s, x) /\ x # Head(s) => Has(Tail(s), x)
           /\ \A x : Once(s, x) => Once(Tail(s), x)
           /\ Once(s, Head(s)) => ~Has(Tail(s), Head(s))
<1> DEFINE t == Tail(s)
<1>1. /\ t \in Seq(S) /\ Len(t) = Len(s) - 1 /\ Len(s) \in Nat /\ Len(s) >= 1
      /\ \A i \in 1 .. Len(t) : t[i] = s[i + 1]
      /\ Head(s) = s[1] /\ s[1] \in S
      /\ DOMAIN s = 1 .. Len(s) /\ DOMAIN t = 1 .. Len(t)
  OBVIOUS
<1> HIDE DEF t
<1>2. /\ 1 \in DOMAIN s
      /\ \A i \in DOMAIN t : i + 1 \in DOMAIN s /\ i + 1 # 1 /\ t[i] = s[i + 1]
      /\ \A i \in DOMAIN s : i # 1 => i - 1 \in DOMAIN t /\ t[i - 1] = s[i]
  BY <1>1
<1>3. Has(s, Head(s))
  BY <1>1, <1>2 DEF Has
<1>4. ASSUME NEW x, Has(t, x) PROVE Has(s, x)
  BY <1>2, <1>4 DEF Has
<1>5. ASSUME NEW x, Has(s, x), x # Head(s) PROVE Has(t, x)
  <2>1. PICK i \in DOMAIN s : s[i] = x
    BY <1>5 DEF Has
  <2>2. i # 1
    BY <1>1, <1>5, <2>1
  <2> QED BY <1>2, <2>1, <2>2 DEF Has
<1>6. ASSUME NEW x, Once(s, x) PROVE Once(t, x)
  <2>1. ASSUME NEW i \in DOMAIN t, NEW j \in DOMAIN t, t[i] = x, t[j] = x PROVE i = j
    <3>1. i + 1 = j + 1
      BY <1>2, <1>6, <2>1 DEF Once
    <3>2. i \in Nat /\ j \in Nat
      BY <1>1
    <3> QED BY <3>1, <3>2
  <2> QED BY <2>1 DEF Once
<1>7. ASSUME Once(s, Head(s)) PROVE ~Has(t, Head(s))
  BY <1>1, <1>2, <1>7 DEF Has, Once
<1> QED BY <1>1, <1>3, <1>4, <1>5, <1>6, <1>7 DEF t

-----------------------------------------------------------------------------
(* The message panels of a tab (src/src/rcw.c).                            *)
(* The variables: s1 page, s2 box, s3 visible, s4 auth, s5 loop, s6        *)
(* response, s7 thread, s8 setup, s9 button, s10 crashed.                  *)

PanelsBounds == MessagePanels!None \notin Panels

\* The box after a panel has been put on top.
LEMMA PanelsPushed ==
    ASSUME NEW S, NEW s \in Seq(S), NEW p \in S
    PROVE  /\ <<p>> \o s \in Seq(S)
           /\ Len(<<p>> \o s) = Len(s) + 1
           /\ (<<p>> \o s)[1] = p
           /\ \A i \in 1 .. Len(s) : (<<p>> \o s)[i + 1] = s[i]
OBVIOUS

\* The box after a panel has been taken out.
LEMMA PanelsTakenOut ==
    ASSUME NEW S, NEW s \in Seq(S), NEW i \in 1 .. Len(s)
    PROVE  LET t == SubSeq(s, 1, i - 1) \o SubSeq(s, i + 1, Len(s)) IN
           /\ t \in Seq(S)
           /\ Len(t) = Len(s) - 1
           /\ \A j \in 1 .. Len(s) - 1 : t[j] = IF j < i THEN s[j] ELSE s[j + 1]
<1>1. PICK a : a = SubSeq(s, 1, i - 1)
  OBVIOUS
<1>2. PICK b : b = SubSeq(s, i + 1, Len(s))
  OBVIOUS
<1>3. a \in Seq(S) /\ Len(a) = i - 1 /\ \A j \in 1 .. i - 1 : a[j] = s[j]
  BY <1>1
<1>4. b \in Seq(S) /\ Len(b) = Len(s) - i /\ \A j \in 1 .. Len(s) - i : b[j] = s[i + j]
  BY <1>2
<1>5. PICK t : t = a \o b
  OBVIOUS
<1>6. /\ t \in Seq(S)
      /\ Len(t) = Len(a) + Len(b)
      /\ \A j \in 1 .. Len(a) + Len(b) : t[j] = IF j <= Len(a) THEN a[j] ELSE b[j - Len(a)]
  BY <1>3, <1>4, <1>5, ConcatProperties, ZenonT(30)
<1>7. ASSUME NEW j \in 1 .. Len(s) - 1
      PROVE  t[j] = IF j < i THEN s[j] ELSE s[j + 1]
  <2>1. Len(s) \in Nat
    OBVIOUS
  <2>2. j \in 1 .. Len(a) + Len(b) /\ (j <= Len(a) <=> j < i)
    BY <1>3, <1>4, <2>1
  <2>3. CASE j < i
    BY <1>3, <1>6, <2>1, <2>2, <2>3
  <2>4. CASE ~(j < i)
    <3>1. j - Len(a) \in 1 .. Len(s) - i /\ i + (j - Len(a)) = j + 1
      BY <1>3, <2>1, <2>4
    <3>2. t[j] = b[j - Len(a)] /\ b[j - Len(a)] = s[i + (j - Len(a))]
      BY <1>4, <1>6, <2>2, <2>4, <3>1
    <3> QED BY <2>4, <3>1, <3>2
  <2> QED BY <2>3, <2>4
<1>8. Len(t) = Len(s) - 1
  BY <1>3, <1>4, <1>6
<1>9. t = SubSeq(s, 1, i - 1) \o SubSeq(s, i + 1, Len(s))
  BY <1>1, <1>2, <1>5, Zenon
<1> QED
  BY <1>6, <1>7, <1>8, <1>9, Zenon

\* The box after a migration.
LEMMA PanelsReversed ==
    ASSUME NEW S, NEW s \in Seq(S)
    PROVE  LET t == [i \in DOMAIN s |-> s[Len(s) + 1 - i]] IN
           /\ t \in Seq(S)
           /\ Len(t) = Len(s)
           /\ \A i \in 1 .. Len(s) : t[i] = s[Len(s) + 1 - i]
<1>1. Len(s) \in Nat /\ DOMAIN s = 1 .. Len(s)
  OBVIOUS
<1>2. \A i \in 1 .. Len(s) : Len(s) + 1 - i \in 1 .. Len(s)
  BY <1>1
<1>3. \A i \in 1 .. Len(s) : s[Len(s) + 1 - i] \in S
  BY <1>1, <1>2
<1> QED
  BY <1>1, <1>3

\* What every step keeps.
PanelsIInv == MessagePanels!TypeOK /\ MessagePanels!NoDuplicates /\ MessagePanels!OneVisible

\* The facts about the box alone, which the steps that do not touch it keep.
LEMMA PanelsUntouched ==
    ASSUME PanelsIInv, UNCHANGED <<s2, s3>>, MessagePanels!TypeOK'
    PROVE  PanelsIInv'
BY DEF PanelsIInv, MessagePanels!NoDuplicates, MessagePanels!OneVisible, MessagePanels!InBox

\* A panel that is shown is new, and the only one visible.
LEMMA PanelsShown ==
    ASSUME PanelsIInv, NEW p \in MessagePanels!Fresh, MessagePanels!show_message_panel(p)
    PROVE  s2' \in Seq(Panels) /\ s3' \in SUBSET Panels /\ MessagePanels!NoDuplicates'
           /\ MessagePanels!OneVisible'
<1>1. s2 \in Seq(Panels) /\ p \in Panels /\ Len(s2) \in Nat
  BY DEF PanelsIInv, MessagePanels!TypeOK, MessagePanels!Fresh
<1>2. /\ s2' \in Seq(Panels)
      /\ Len(s2') = Len(s2) + 1
      /\ s2'[1] = p
      /\ \A i \in 1 .. Len(s2) : s2'[i + 1] = s2[i]
  BY <1>1, PanelsPushed DEF MessagePanels!show_message_panel
<1>3. DOMAIN s2' = 1 .. Len(s2) + 1 /\ DOMAIN s2 = 1 .. Len(s2)
  BY <1>1, <1>2
<1>4. \A i \in 1 .. Len(s2) : s2[i] # p
  BY <1>3 DEF MessagePanels!Fresh, MessagePanels!InBox
<1>5. MessagePanels!NoDuplicates'
  <2> SUFFICES ASSUME NEW i \in 1 .. Len(s2) + 1, NEW j \in 1 .. Len(s2) + 1,
                      s2'[i] = s2'[j]
               PROVE  i = j
    BY <1>3 DEF MessagePanels!NoDuplicates
  <2>1. i # 1 => s2'[i] = s2[i - 1] /\ i - 1 \in 1 .. Len(s2)
    BY <1>1, <1>2
  <2>2. j # 1 => s2'[j] = s2[j - 1] /\ j - 1 \in 1 .. Len(s2)
    BY <1>1, <1>2
  <2>3. CASE i = 1 \/ j = 1
    BY <1>2, <1>4, <2>1, <2>2, <2>3
  <2>4. CASE i # 1 /\ j # 1
    <3>1. i - 1 = j - 1
      BY <1>3, <2>1, <2>2, <2>4 DEF PanelsIInv, MessagePanels!NoDuplicates
    <3> QED BY <3>1
  <2> QED BY <2>3, <2>4
<1>6. MessagePanels!OneVisible'
  <2>1. s2' # <<>> /\ p \in MessagePanels!InBox'
    BY <1>1, <1>2, <1>3 DEF MessagePanels!InBox
  <2> QED BY <2>1 DEF MessagePanels!OneVisible, MessagePanels!show_message_panel
<1> QED BY <1>1, <1>2, <1>5, <1>6 DEF MessagePanels!show_message_panel

\* One that is destroyed is gone, and another is visible if one is left.
LEMMA PanelsDestroyed ==
    ASSUME PanelsIInv, NEW p, MessagePanels!destroy_message_panel(p)
    PROVE  s2' \in Seq(Panels) /\ s3' \in SUBSET Panels /\ MessagePanels!NoDuplicates'
           /\ MessagePanels!OneVisible'
<1>1. CASE MessagePanels!At(p) = {}
  BY <1>1 DEF MessagePanels!destroy_message_panel, PanelsIInv, MessagePanels!TypeOK,
     MessagePanels!NoDuplicates, MessagePanels!OneVisible, MessagePanels!InBox
<1>2. ASSUME NEW i \in MessagePanels!At(p), s2' = MessagePanels!Without(i),
             s3' = IF p \notin s3 THEN s3
                        ELSE (s3 \ {p}) \cup
                                (IF s2' = <<>> THEN {} ELSE {MessagePanels!Last(s2')})
      PROVE  s2' \in Seq(Panels) /\ s3' \in SUBSET Panels /\ MessagePanels!NoDuplicates'
             /\ MessagePanels!OneVisible'
  <2>1. s2 \in Seq(Panels) /\ Len(s2) \in Nat /\ DOMAIN s2 = 1 .. Len(s2)
    BY DEF PanelsIInv, MessagePanels!TypeOK
  <2>2. i \in 1 .. Len(s2) /\ s2[i] = p
    BY <1>2, <2>1 DEF MessagePanels!At
  <2>3. /\ s2' \in Seq(Panels)
        /\ Len(s2') = Len(s2) - 1
        /\ \A j \in 1 .. Len(s2) - 1 : s2'[j] = IF j < i THEN s2[j] ELSE s2[j + 1]
    BY <1>2, <2>1, <2>2, PanelsTakenOut DEF MessagePanels!Without
  <2>4. DOMAIN s2' = 1 .. Len(s2) - 1
    BY <2>1, <2>3
  <2>5. MessagePanels!NoDuplicates'
    <3> SUFFICES ASSUME NEW j \in 1 .. Len(s2) - 1, NEW k \in 1 .. Len(s2) - 1,
                        s2'[j] = s2'[k]
                 PROVE  j = k
      BY <2>4 DEF MessagePanels!NoDuplicates
    <3>1. \A m, n \in 1 .. Len(s2) : s2[m] = s2[n] => m = n
      BY <2>1 DEF PanelsIInv, MessagePanels!NoDuplicates
    <3>2. PICK m \in 1 .. Len(s2) : s2'[j] = s2[m] /\ m = IF j < i THEN j ELSE j + 1
      BY <2>1, <2>3
    <3>3. PICK n \in 1 .. Len(s2) : s2'[k] = s2[n] /\ n = IF k < i THEN k ELSE k + 1
      BY <2>1, <2>3
    <3>4. m = n
      BY <3>1, <3>2, <3>3
    <3> QED BY <2>1, <2>2, <3>2, <3>3, <3>4
  <2>6. PICK q \in MessagePanels!InBox : s3 = {q}
    BY <2>1, <2>2 DEF PanelsIInv, MessagePanels!OneVisible
  <2>7. CASE p = q
    <3>1. s3' = IF s2' = <<>> THEN {} ELSE {MessagePanels!Last(s2')}
      BY <1>2, <2>6, <2>7
    <3>2. s2' # <<>> => MessagePanels!Last(s2') \in MessagePanels!InBox'
          /\ MessagePanels!Last(s2') \in Panels
      BY <2>1, <2>3, <2>4 DEF MessagePanels!Last, MessagePanels!InBox
    <3> QED BY <2>3, <2>5, <3>1, <3>2 DEF MessagePanels!OneVisible
  <2>8. CASE p # q
    <3>1. s3' = {q}
      BY <1>2, <2>6, <2>8
    <3>2. PICK k \in 1 .. Len(s2) : s2[k] = q
      BY <2>1, <2>6 DEF MessagePanels!InBox
    <3>3. k # i
      BY <2>2, <2>8, <3>2
    <3>4. q \in MessagePanels!InBox'
      <4>1. CASE k < i
        BY <2>1, <2>2, <2>3, <2>4, <3>2, <4>1 DEF MessagePanels!InBox
      <4>2. CASE k > i
        <5>1. k - 1 \in 1 .. Len(s2) - 1 /\ s2'[k - 1] = s2[k]
          BY <2>1, <2>2, <2>3, <4>2
        <5> QED BY <2>4, <3>2, <5>1 DEF MessagePanels!InBox
      <4> QED BY <2>1, <2>2, <3>3, <4>1, <4>2
    <3>5. s2' # <<>>
      BY <3>4, <2>4 DEF MessagePanels!InBox
    <3>6. q \in Panels
      BY <2>1, <3>2
    <3> QED BY <2>3, <2>5, <3>1, <3>4, <3>5, <3>6 DEF MessagePanels!OneVisible
  <2> QED BY <2>7, <2>8
<1> QED BY <1>1, <1>2 DEF MessagePanels!destroy_message_panel

\* Every step keeps the types.
LEMMA PanelsTyped ==
    ASSUME PanelsBounds, PanelsIInv, [MessagePanels!Next]_(MessagePanels!vars)
    PROVE  MessagePanels!TypeOK'
<1> USE DEF PanelsBounds, MessagePanels!Answers, PanelsIInv, MessagePanels!TypeOK
<1>1. ASSUME NEW p \in Panels, MessagePanels!ShowPanel(p) PROVE MessagePanels!TypeOK'
  BY <1>1, PanelsShown DEF MessagePanels!ShowPanel, MessagePanels!Unmapped,
     MessagePanels!main, MessagePanels!sub, MessagePanels!Answers
<1>2. ASSUME NEW p \in Panels, MessagePanels!DestroyPanel(p) PROVE MessagePanels!TypeOK'
  BY <1>2, PanelsDestroyed DEF MessagePanels!DestroyPanel, MessagePanels!main,
     MessagePanels!sub
<1>3. ASSUME NEW p \in Panels, MessagePanels!RunDialog(p) PROVE MessagePanels!TypeOK'
  BY <1>3, PanelsShown DEF MessagePanels!RunDialog, MessagePanels!sub, MessagePanels!Answers
<1>4. ASSUME NEW p \in Panels, MessagePanels!SetupDialog(p) PROVE MessagePanels!TypeOK'
  BY <1>4, PanelsShown DEF MessagePanels!SetupDialog, MessagePanels!main
<1>5. ASSUME NEW a \in MessagePanels!Answers,
             MessagePanels!Answer(a) PROVE MessagePanels!TypeOK'
  BY <1>5 DEF MessagePanels!Answer, MessagePanels!tab, MessagePanels!sub
<1>6. ASSUME NEW a \in MessagePanels!Answers,
             MessagePanels!AnswerThread(a) PROVE MessagePanels!TypeOK'
  BY <1>6, PanelsDestroyed DEF MessagePanels!AnswerThread, MessagePanels!main
<1>7. CASE MessagePanels!Migrate
  BY <1>7, PanelsReversed DEF MessagePanels!Migrate, MessagePanels!Unmapped,
     MessagePanels!main, MessagePanels!sub, MessagePanels!Answers
<1>8. CASE MessagePanels!ClosePage
  <2>1. s2' = <<>> /\ s2' \in Seq(Panels)
    BY <1>8, EmptySeq DEF MessagePanels!ClosePage
  <2> QED BY <1>8, <2>1 DEF MessagePanels!ClosePage, MessagePanels!Unmapped,
     MessagePanels!main, MessagePanels!sub, MessagePanels!Answers
<1>9. CASE MessagePanels!EndDialog
  <2>1. CASE s1
    BY <1>9, <2>1, PanelsDestroyed DEF MessagePanels!EndDialog, MessagePanels!sub
  <2>2. CASE ~s1
    BY <1>9, <2>2 DEF MessagePanels!EndDialog, MessagePanels!sub
  <2> QED BY <2>1, <2>2
<1>10. CASE MessagePanels!PostDialog \/ MessagePanels!Wait \/ MessagePanels!Return
  BY <1>10 DEF MessagePanels!PostDialog, MessagePanels!Wait, MessagePanels!Return,
     MessagePanels!tab, MessagePanels!main
<1>11. CASE UNCHANGED MessagePanels!vars
  BY <1>11 DEF MessagePanels!vars, MessagePanels!tab, MessagePanels!main, MessagePanels!sub
<1> QED
  BY <1>1, <1>2, <1>3, <1>4, <1>5, <1>6, <1>7, <1>8, <1>9, <1>10,
     <1>11 DEF MessagePanels!Next

\* The panels that moved to another window are in the opposite order.
LEMMA PanelsMigrated ==
    ASSUME PanelsIInv, MessagePanels!Migrate
    PROVE  MessagePanels!NoDuplicates' /\ MessagePanels!OneVisible'
           /\ MessagePanels!InBox' = MessagePanels!InBox
<1>1. s2 \in Seq(Panels) /\ Len(s2) \in Nat /\ DOMAIN s2 = 1 .. Len(s2)
  BY DEF PanelsIInv, MessagePanels!TypeOK
<1>2. /\ s2' \in Seq(Panels)
      /\ Len(s2') = Len(s2)
      /\ \A i \in 1 .. Len(s2) : s2'[i] = s2[Len(s2) + 1 - i]
  BY <1>1, PanelsReversed DEF MessagePanels!Migrate
<1>3. DOMAIN s2' = 1 .. Len(s2) /\ s3' = s3
  BY <1>1, <1>2 DEF MessagePanels!Migrate
<1>4. \A i \in 1 .. Len(s2) : Len(s2) + 1 - i \in 1 .. Len(s2)
  BY <1>1
<1>5. MessagePanels!NoDuplicates'
  <2> SUFFICES ASSUME NEW i \in 1 .. Len(s2), NEW j \in 1 .. Len(s2), s2'[i] = s2'[j]
               PROVE  i = j
    BY <1>3 DEF MessagePanels!NoDuplicates
  <2>1. Len(s2) + 1 - i = Len(s2) + 1 - j
    BY <1>1, <1>2, <1>4 DEF PanelsIInv, MessagePanels!NoDuplicates
  <2> QED BY <1>1, <2>1
<1>6. MessagePanels!InBox' = MessagePanels!InBox
  <2>1. ASSUME NEW i \in 1 .. Len(s2)
        PROVE  \E j \in 1 .. Len(s2) : s2'[j] = s2[i]
    <3>1. Len(s2) + 1 - (Len(s2) + 1 - i) = i
      BY <1>1
    <3> QED BY <1>2, <1>4, <3>1
  <2>2. ASSUME NEW i \in 1 .. Len(s2)
        PROVE  \E j \in 1 .. Len(s2) : s2[j] = s2'[i]
    BY <1>2, <1>4
  <2>3. MessagePanels!InBox = {s2[i] : i \in 1 .. Len(s2)}
        /\ MessagePanels!InBox' = {s2'[i] : i \in 1 .. Len(s2)}
    BY <1>1, <1>3 DEF MessagePanels!InBox
  <2>4. ASSUME NEW q \in MessagePanels!InBox PROVE q \in MessagePanels!InBox'
    BY <2>1, <2>3, <2>4
  <2>5. ASSUME NEW q \in MessagePanels!InBox' PROVE q \in MessagePanels!InBox
    BY <2>2, <2>3, <2>5
  <2> QED BY <2>4, <2>5
<1>7. s2 = <<>> <=> s2' = <<>>
  BY <1>1, <1>2
<1> QED BY <1>3, <1>5, <1>6, <1>7 DEF PanelsIInv, MessagePanels!OneVisible

\* Every step keeps what is said of the box.
LEMMA PanelsInductive ==
    ASSUME PanelsBounds, PanelsIInv, [MessagePanels!Next]_(MessagePanels!vars)
    PROVE  PanelsIInv'
<1> USE PanelsTyped
<1>1. ASSUME NEW p \in Panels, MessagePanels!ShowPanel(p) PROVE PanelsIInv'
  BY <1>1, PanelsShown DEF MessagePanels!ShowPanel, PanelsIInv
<1>2. ASSUME NEW p \in Panels, MessagePanels!DestroyPanel(p) PROVE PanelsIInv'
  BY <1>2, PanelsDestroyed DEF MessagePanels!DestroyPanel, PanelsIInv
<1>3. ASSUME NEW p \in Panels, MessagePanels!RunDialog(p) PROVE PanelsIInv'
  BY <1>3, PanelsShown DEF MessagePanels!RunDialog, PanelsIInv
<1>4. ASSUME NEW p \in Panels, MessagePanels!SetupDialog(p) PROVE PanelsIInv'
  <2>1. CASE s1
    BY <1>4, <2>1, PanelsShown DEF MessagePanels!SetupDialog, PanelsIInv
  <2>2. CASE ~s1
    BY <1>4, <2>2, PanelsUntouched DEF MessagePanels!SetupDialog
  <2> QED BY <2>1, <2>2
<1>5. ASSUME NEW a \in MessagePanels!Answers, MessagePanels!AnswerThread(a) PROVE PanelsIInv'
  BY <1>5, PanelsDestroyed DEF MessagePanels!AnswerThread, PanelsIInv
<1>6. CASE MessagePanels!Migrate
  BY <1>6, PanelsMigrated DEF PanelsIInv
<1>7. CASE MessagePanels!ClosePage
  BY <1>7 DEF MessagePanels!ClosePage, PanelsIInv, MessagePanels!NoDuplicates,
     MessagePanels!OneVisible, MessagePanels!InBox
<1>8. CASE MessagePanels!EndDialog
  <2>1. CASE s1
    BY <1>8, <2>1, PanelsDestroyed DEF MessagePanels!EndDialog, PanelsIInv
  <2>2. CASE ~s1
    BY <1>8, <2>2, PanelsUntouched DEF MessagePanels!EndDialog
  <2> QED BY <2>1, <2>2
<1>9. ASSUME NEW a \in MessagePanels!Answers, MessagePanels!Answer(a) PROVE PanelsIInv'
  BY <1>9, PanelsUntouched DEF MessagePanels!Answer, MessagePanels!tab
<1>10. CASE MessagePanels!PostDialog \/ MessagePanels!Wait \/ MessagePanels!Return
            \/ UNCHANGED MessagePanels!vars
  BY <1>10, PanelsUntouched DEF MessagePanels!PostDialog, MessagePanels!Wait,
     MessagePanels!Return, MessagePanels!vars, MessagePanels!tab
<1> QED
  BY <1>1, <1>2, <1>3, <1>4, <1>5, <1>6, <1>7, <1>8, <1>9, <1>10 DEF MessagePanels!Next

\* A page has no panels at first.
LEMMA PanelsInitially == ASSUME MessagePanels!Init PROVE PanelsIInv
<1>1. MessagePanels!TypeOK
  BY EmptySeq DEF MessagePanels!Init, MessagePanels!TypeOK, MessagePanels!Answers
<1>2. MessagePanels!NoDuplicates
  BY DEF MessagePanels!Init, MessagePanels!NoDuplicates
<1>3. MessagePanels!OneVisible
  BY DEF MessagePanels!Init, MessagePanels!OneVisible
<1> QED BY <1>1, <1>2, <1>3 DEF PanelsIInv

(* The panel of a dialog.  Only one of the two kinds of dialog is under way *)
(* at a time, and a set-up that is queued has its thread.                  *)

PanelsDInv ==
    /\ s5 # "none" => s7 \in {"away", "ended"}
    /\ s1 /\ s8 => s7 \in {"posted", "waiting"}
    /\ MessagePanels!DialogOnPage

\* A panel that is shown hides the others and removes none.
LEMMA PanelsShownStays ==
    ASSUME PanelsIInv, NEW p \in MessagePanels!Fresh, MessagePanels!show_message_panel(p)
    PROVE  /\ p \in MessagePanels!InBox'
           /\ \A q \in MessagePanels!InBox : q \in MessagePanels!InBox'
<1>1. s2 \in Seq(Panels) /\ p \in Panels /\ DOMAIN s2 = 1 .. Len(s2) /\ Len(s2) \in Nat
  BY DEF PanelsIInv, MessagePanels!TypeOK, MessagePanels!Fresh
<1>2. /\ s2' \in Seq(Panels)
      /\ Len(s2') = Len(s2) + 1
      /\ s2'[1] = p
      /\ \A i \in 1 .. Len(s2) : s2'[i + 1] = s2[i]
  BY <1>1, PanelsPushed DEF MessagePanels!show_message_panel
<1>3. DOMAIN s2' = 1 .. Len(s2) + 1
  BY <1>1, <1>2
<1>4. \A i \in 1 .. Len(s2) : i + 1 \in DOMAIN s2'
  BY <1>1, <1>3
<1>5. 1 \in DOMAIN s2'
  BY <1>1, <1>3
<1> QED BY <1>1, <1>2, <1>4, <1>5 DEF MessagePanels!InBox

\* The removal of a panel leaves the others, and the visible one as long as it is
\* another.
LEMMA PanelsDestroyedStays ==
    ASSUME PanelsIInv, NEW p, MessagePanels!destroy_message_panel(p)
    PROVE  /\ \A q \in MessagePanels!InBox : q # p => q \in MessagePanels!InBox'
           /\ \A q \in s3 : q # p => q \in s3'
<1>1. CASE MessagePanels!At(p) = {}
  BY <1>1 DEF MessagePanels!destroy_message_panel, MessagePanels!InBox
<1>2. ASSUME NEW i \in MessagePanels!At(p), s2' = MessagePanels!Without(i),
             s3' = IF p \notin s3 THEN s3
                        ELSE (s3 \ {p}) \cup
                                (IF s2' = <<>> THEN {} ELSE {MessagePanels!Last(s2')})
      PROVE  /\ \A q \in MessagePanels!InBox : q # p => q \in MessagePanels!InBox'
             /\ \A q \in s3 : q # p => q \in s3'
  <2>1. s2 \in Seq(Panels) /\ Len(s2) \in Nat /\ DOMAIN s2 = 1 .. Len(s2)
    BY DEF PanelsIInv, MessagePanels!TypeOK
  <2>2. i \in 1 .. Len(s2) /\ s2[i] = p
    BY <1>2, <2>1 DEF MessagePanels!At
  <2>3. /\ s2' \in Seq(Panels)
        /\ Len(s2') = Len(s2) - 1
        /\ \A j \in 1 .. Len(s2) - 1 : s2'[j] = IF j < i THEN s2[j] ELSE s2[j + 1]
    BY <1>2, <2>1, <2>2, PanelsTakenOut DEF MessagePanels!Without
  <2>4. DOMAIN s2' = 1 .. Len(s2) - 1
    BY <2>1, <2>3
  <2>5. ASSUME NEW k \in 1 .. Len(s2), s2[k] # p
        PROVE  \E j \in DOMAIN s2' : s2'[j] = s2[k]
    <3>1. CASE k < i
      BY <2>1, <2>2, <2>3, <2>4, <3>1
    <3>2. CASE k > i
      <4>1. k - 1 \in 1 .. Len(s2) - 1 /\ s2'[k - 1] = s2[k]
        BY <2>1, <2>2, <2>3, <3>2
      <4> QED BY <2>4, <4>1
    <3> QED BY <2>1, <2>2, <2>5, <3>1, <3>2
  <2>6. \A q \in MessagePanels!InBox : q # p => q \in MessagePanels!InBox'
    BY <2>1, <2>5 DEF MessagePanels!InBox
  <2> QED BY <1>2, <2>6
<1> QED BY <1>1, <1>2 DEF MessagePanels!destroy_message_panel

\* Every step keeps the panel of a dialog that waits.
LEMMA PanelsDialogStep ==
    ASSUME PanelsBounds, PanelsIInv, PanelsDInv, [MessagePanels!Next]_(MessagePanels!vars)
    PROVE  PanelsDInv'
<1> USE DEF PanelsBounds, MessagePanels!Answers, PanelsDInv, MessagePanels!DialogOnPage,
   MessagePanels!Asked
<1>1. ASSUME NEW p \in Panels, MessagePanels!ShowPanel(p) PROVE PanelsDInv'
  BY <1>1, PanelsShownStays DEF MessagePanels!ShowPanel, MessagePanels!Unmapped,
     MessagePanels!main, MessagePanels!sub
<1>2. ASSUME NEW p \in Panels, MessagePanels!DestroyPanel(p) PROVE PanelsDInv'
  BY <1>2, PanelsDestroyedStays DEF MessagePanels!DestroyPanel, MessagePanels!main,
     MessagePanels!sub
<1>3. ASSUME NEW p \in Panels, MessagePanels!RunDialog(p) PROVE PanelsDInv'
  BY <1>3 DEF MessagePanels!RunDialog, MessagePanels!show_message_panel, MessagePanels!sub
<1>4. ASSUME NEW p \in Panels, MessagePanels!SetupDialog(p) PROVE PanelsDInv'
  <2>1. CASE s1
    BY <1>4, <2>1, PanelsShownStays DEF MessagePanels!SetupDialog, MessagePanels!main
  <2>2. CASE ~s1
    BY <1>4, <2>2 DEF MessagePanels!SetupDialog, MessagePanels!main
  <2> QED BY <2>1, <2>2
<1>5. ASSUME NEW a \in MessagePanels!Answers, MessagePanels!Answer(a) PROVE PanelsDInv'
  BY <1>5 DEF MessagePanels!Answer, MessagePanels!tab, MessagePanels!sub,
     MessagePanels!InBox
<1>6. ASSUME NEW a \in MessagePanels!Answers, MessagePanels!AnswerThread(a) PROVE PanelsDInv'
  <2>1. s9' # MessagePanels!None /\ s5' = "none"
    BY <1>6 DEF MessagePanels!AnswerThread, MessagePanels!main, MessagePanels!None
  <2> QED BY <1>6, <2>1 DEF MessagePanels!AnswerThread, MessagePanels!main
<1>7. CASE MessagePanels!Migrate
  BY <1>7, PanelsMigrated DEF MessagePanels!Migrate, MessagePanels!Unmapped,
     MessagePanels!main, MessagePanels!sub
<1>8. CASE MessagePanels!ClosePage
  <2>1. s5 = "running" => s4 \in MessagePanels!InBox
    BY DEF PanelsIInv, MessagePanels!OneVisible
  <2> QED BY <1>8, <2>1 DEF MessagePanels!ClosePage, MessagePanels!Unmapped,
     MessagePanels!main, MessagePanels!sub
<1>9. CASE MessagePanels!EndDialog
  BY <1>9 DEF MessagePanels!EndDialog, MessagePanels!sub
<1>10. CASE MessagePanels!PostDialog
  BY <1>10 DEF MessagePanels!PostDialog, MessagePanels!tab, MessagePanels!main,
     MessagePanels!InBox
<1>11. CASE MessagePanels!Wait \/ MessagePanels!Return
  BY <1>11 DEF MessagePanels!Wait, MessagePanels!Return, MessagePanels!tab,
     MessagePanels!main, MessagePanels!InBox
<1>12. CASE UNCHANGED MessagePanels!vars
  BY <1>12 DEF MessagePanels!vars, MessagePanels!tab, MessagePanels!main,
     MessagePanels!sub, MessagePanels!InBox
<1> QED
  BY <1>1, <1>2, <1>3, <1>4, <1>5, <1>6, <1>7, <1>8, <1>9, <1>10, <1>11,
     <1>12 DEF MessagePanels!Next

PanelsInv == PanelsIInv /\ PanelsDInv

\* Both hold at first ...
LEMMA PanelsInitInv == ASSUME MessagePanels!Init PROVE PanelsInv
<1>1. PanelsDInv
  BY DEF MessagePanels!Init, PanelsDInv, MessagePanels!DialogOnPage, MessagePanels!Asked
<1> QED BY <1>1, PanelsInitially DEF PanelsInv

\* ... and every step keeps them.
LEMMA PanelsStepInv == ASSUME PanelsBounds, PanelsInv,
   [MessagePanels!Next]_(MessagePanels!vars) PROVE PanelsInv'
BY PanelsInductive, PanelsDialogStep DEF PanelsInv

\* A page that holds panels shows exactly one of them (the comment on
\* rco_show_message_panel), none is there twice, and that of a dialog stays.
LEMMA PanelsInvMeans == ASSUME PanelsInv PROVE MessagePanels!TypeOK
   /\ MessagePanels!OneVisible /\ MessagePanels!NoDuplicates /\ MessagePanels!DialogOnPage
BY DEF PanelsInv, PanelsIInv, PanelsDInv

-----------------------------------------------------------------------------
(* The list of profiles (src/src/remmina_main.c).                          *)
(* The variables: s1 pref, s2 disk, s3 view, s4 selected, s5 lit, s6 op,   *)
(* s7 unasked, s8 wrong, s9 hist, s10 fault.                               *)

MainPrefType == [primary : BOOLEAN, lock_connect : BOOLEAN, lock_edit : BOOLEAN]
MainViewType == [mode : {"tree", "list"}, kind : {"tree", "list"}, typed : BOOLEAN,
             match : SUBSET Profiles]
MainSelectedType == [file : Profiles \cup {MainWindow!None},
   name : Profiles \cup {MainWindow!Group, MainWindow!None}]
MainOpType == [what : MainWindow!Ops \cup {MainWindow!None}, step : {MainWindow!None,
   "unlock", "confirm"},
           todo : SUBSET (Profiles \cup {MainWindow!Group}),
              named : Profiles \cup {MainWindow!Group, MainWindow!None}]
MainHistType == [vanished : BOOLEAN, left : BOOLEAN]

MainTypes ==
    /\ s1 \in MainPrefType /\ s2 \subseteq Profiles /\ s3 \in MainViewType
    /\ s4 \in MainSelectedType /\ s5 \subseteq Profiles \cup {MainWindow!Group}
       /\ s6 \in MainOpType
    /\ s7 \subseteq MainWindow!Ops /\ s8 \in BOOLEAN /\ s9 \in MainHistType /\ s10 \in BOOLEAN

\* The file that is selected is the row that was clicked last; it is there, unless one went
\* away.
MainSelectedInv ==
    /\ s4.file # MainWindow!None => s4.name = s4.file
    /\ ~s9.vanished => s4.file \in s2 \cup {MainWindow!None}

\* What an action on one profile has still to do is there, unless something went away; what
\* is to be deleted is what is selected, and was named.
MainOpInv ==
    /\ s6.step = MainWindow!None => s6 = MainWindow!Idle
    /\ s6.step # MainWindow!None => s6.what \in MainWindow!Ops
    /\ s6.what = "delete" =>
          /\ s4.file # MainWindow!None
          /\ s6.step = "confirm" => s6.named = s4.file
    /\ s6.what \in {"edit", "copy", "delete"} /\ ~s9.vanished => s6.todo \subseteq s2

\* The rows that are highlighted: the selected one, or nothing was selected by name.
MainLitInv == ~s9.left /\ s5 # {} => s4.file \in s5 \cup {MainWindow!None}

\* After a crash nothing goes on.
MainFaultInv == s10 => s6.step = "unlock" /\ (s9.vanished \/ s6.what = "delete_many")

MainInv == MainTypes /\ MainSelectedInv /\ MainOpInv /\ MainLitInv /\ MainFaultInv
   /\ MainWindow!AsksFirst /\ MainWindow!DeletesNamed

\* The types by name are those of the module.
LEMMA MainTypesAre == MainTypes <=> MainWindow!TypeOK
BY DEF MainTypes, MainWindow!TypeOK, MainPrefType, MainViewType, MainSelectedType,
   MainOpType, MainHistType

\* Nothing under way and nothing selected are of the types.
LEMMA MainIdleTyped == MainWindow!Idle \in MainOpType
   /\ MainWindow!NoSelection \in MainSelectedType
BY DEF MainWindow!Idle, MainWindow!NoSelection, MainOpType, MainSelectedType

\* It holds of the window that was just loaded.
LEMMA MainInitInv == ASSUME MainWindow!Init PROVE MainInv
<1>1. MainTypes
  <2>1. s3 \in MainViewType /\ s9 \in MainHistType
    BY DEF MainWindow!Init, MainViewType, MainHistType
  <2>2. s4 \in MainSelectedType /\ s6 \in MainOpType /\ s1 \in MainPrefType /\ s5 = {}
    BY MainIdleTyped DEF MainWindow!Init, MainPrefType
  <2>3. s2 = Profiles /\ s7 = {} /\ s8 = FALSE /\ s10 = FALSE
    BY DEF MainWindow!Init
  <2>4. s8 \in BOOLEAN /\ s10 \in BOOLEAN
    BY <2>3
  <2>5. s2 \subseteq Profiles /\ s5 \subseteq Profiles \cup {MainWindow!Group}
        /\ s7 \subseteq MainWindow!Ops
    BY <2>2, <2>3
  <2> QED BY <2>1, <2>2, <2>4, <2>5 DEF MainTypes
<1>2. s6 = MainWindow!Idle /\ s6.step = MainWindow!None /\ s6.what = MainWindow!None
      /\ s4.file = MainWindow!None /\ s5 = {}
  BY DEF MainWindow!Init, MainWindow!Idle, MainWindow!NoSelection
<1>3. MainSelectedInv /\ MainOpInv /\ MainLitInv
  BY <1>2 DEF MainSelectedInv, MainOpInv, MainLitInv, MainWindow!None
<1>4. MainFaultInv /\ MainWindow!AsksFirst /\ MainWindow!DeletesNamed
  BY DEF MainWindow!Init, MainFaultInv, MainWindow!AsksFirst, MainWindow!DeletesNamed
<1> QED BY <1>1, <1>3, <1>4 DEF MainInv

\* The rows and the highlighted ones are among what is there.
LEMMA MainRowsAre ==
    ASSUME NEW v \in MainViewType, NEW d \in SUBSET Profiles
    PROVE  /\ MainWindow!Rows(v, d) \subseteq d \cup {MainWindow!Group}
              /\ MainWindow!TopRows(v, d) \subseteq MainWindow!Rows(v, d)
BY DEF MainWindow!Rows, MainWindow!TopRows, MainViewType

\* What is left highlighted when the files are loaded again.
LEMMA MainLoaded ==
    ASSUME NEW v \in MainViewType, NEW d \in SUBSET Profiles, MainWindow!load_files(v, d)
    PROVE  /\ s3' = v /\ s5' \subseteq Profiles \cup {MainWindow!Group}
           /\ s5' # {} => s5' = {s4.file}
BY MainRowsAre DEF MainWindow!load_files

\* The search keeps it, ...
LEMMA MainSearchStep ==
    ASSUME MainInv, NEW typed \in BOOLEAN, NEW match \in SUBSET Profiles,
           MainWindow!quick_search_on_changed(typed, match)
    PROVE  MainInv'
<1> DEFINE v == [s3 EXCEPT !.typed = typed, !.match = match,
                             !.kind = IF typed THEN "list" ELSE s3.mode]
<1>1. v \in MainViewType
  BY DEF MainInv, MainTypes, MainViewType
<1>2. /\ s6 = MainWindow!Idle /\ UNCHANGED <<s1, s2, s4, s6, s7, s8, s10>>
      /\ \/ MainWindow!load_files(v, s2) /\ UNCHANGED s9
         \/ /\ s3' = v /\ s5' = s5 \cap MainWindow!Rows(v, s2)
            /\ s9' = [s9 EXCEPT !.left = s9.left \/ s5' # s5]
  BY DEF MainWindow!quick_search_on_changed
<1> HIDE DEF v
<1>3. CASE MainWindow!load_files(v, s2) /\ UNCHANGED s9
  BY <1>1, <1>2, <1>3, MainLoaded DEF MainInv, MainTypes, MainSelectedInv, MainOpInv,
     MainLitInv, MainFaultInv, MainWindow!AsksFirst, MainWindow!DeletesNamed
<1>4. CASE /\ s3' = v /\ s5' = s5 \cap MainWindow!Rows(v, s2)
           /\ s9' = [s9 EXCEPT !.left = s9.left \/ s5' # s5]
  <2>1. /\ s9' \in MainHistType /\ s9'.vanished = s9.vanished
        /\ s9'.left = (s9.left \/ s5' # s5)
    BY <1>4 DEF MainInv, MainTypes, MainHistType
  <2> QED BY <1>1, <1>2, <1>4, <2>1 DEF MainInv, MainTypes, MainSelectedInv, MainOpInv,
     MainLitInv, MainFaultInv, MainWindow!AsksFirst, MainWindow!DeletesNamed
<1> QED BY <1>2, <1>3, <1>4

\* ... the change of the view, ...
LEMMA MainToggleStep == ASSUME MainInv, MainWindow!remmina_main_on_view_toggle PROVE MainInv'
<1>1. PICK m \in {"tree", "list"} :
         MainWindow!load_files([mode |-> m, kind |-> m, typed |-> FALSE,
            match |-> Profiles], s2)
  BY DEF MainWindow!remmina_main_on_view_toggle
<1>2. [mode |-> m, kind |-> m, typed |-> FALSE, match |-> Profiles] \in MainViewType
  BY DEF MainViewType
<1>3. UNCHANGED <<s1, s2, s4, s6, s7, s8, s9, s10>>
  BY DEF MainWindow!remmina_main_on_view_toggle
<1> QED BY <1>1, <1>2, <1>3, MainLoaded DEF MainInv, MainTypes, MainSelectedInv, MainOpInv,
   MainLitInv, MainFaultInv, MainWindow!AsksFirst, MainWindow!DeletesNamed

\* A row that is clicked: what is selected then.
LEMMA MainSelects ==
    ASSUME MainInv, NEW row, row \in MainWindow!Rows(s3, s2), MainWindow!selection_func(row)
    PROVE  /\ s4' \in MainSelectedType /\ row \in Profiles \cup {MainWindow!Group}
           /\ s4'.file \in s2 \cup {MainWindow!None}
           /\ s4'.file # MainWindow!None => s4'.name = s4'.file
           /\ s4'.file \in {row, MainWindow!None}
<1>1. row \in s2 \cup {MainWindow!Group} /\ s2 \subseteq Profiles
  BY MainRowsAre DEF MainInv, MainTypes
<1> QED BY <1>1 DEF MainWindow!selection_func, MainSelectedType

\* ... a click on a row, ...
LEMMA MainClickStep ==
    ASSUME MainInv, NEW row \in Profiles \cup {MainWindow!Group}, MainWindow!Click(row)
           \/ MainWindow!ControlClick(row)
    PROVE  MainInv'
<1>1. s6 = MainWindow!Idle /\ row \in MainWindow!Rows(s3, s2)
      /\ UNCHANGED <<s1, s2, s3, s6, s7, s8, s10>>
  BY DEF MainWindow!Click, MainWindow!ControlClick
<1>2. s6.what # "delete" /\ s6.todo = {}
  BY <1>1 DEF MainWindow!Idle, MainWindow!None
<1>3. CASE MainWindow!selection_func(row) /\ (s5' = {row} \/ s5' = s5 \cup {row})
           /\ UNCHANGED s9
  BY <1>1, <1>2, <1>3, MainSelects DEF MainInv, MainTypes, MainSelectedInv, MainOpInv,
     MainLitInv, MainFaultInv, MainWindow!AsksFirst, MainWindow!DeletesNamed
<1>4. CASE s5' = s5 \ {row} /\ s9' = [s9 EXCEPT !.left = TRUE] /\ UNCHANGED s4
  <2>1. s9' \in MainHistType /\ s9'.vanished = s9.vanished /\ s9'.left
    BY <1>4 DEF MainInv, MainTypes, MainHistType
  <2> QED BY <1>1, <1>2, <1>4, <2>1 DEF MainInv, MainTypes, MainSelectedInv, MainOpInv,
     MainLitInv, MainFaultInv, MainWindow!AsksFirst, MainWindow!DeletesNamed
<1> QED BY <1>3, <1>4 DEF MainWindow!Click, MainWindow!ControlClick

\* ... the start of an action ...
LEMMA MainBeginStep ==
    ASSUME MainInv, NEW what \in MainWindow!Ops, NEW step \in {"unlock", "confirm"},
           NEW todo \in SUBSET (Profiles \cup {MainWindow!Group}), MainWindow!Begin(what,
              step, todo),
           what = "delete" => s4.file # MainWindow!None /\ step = "unlock",
           what \in {"edit", "copy", "delete"} => todo = {s4.file} /\ s4.file # MainWindow!None
    PROVE  MainInv'
<1>1. /\ s6' \in MainOpType /\ s6'.what = what /\ s6'.step = step /\ s6'.todo = todo /\ ~s10
      /\ UNCHANGED <<s1, s2, s3, s4, s5, s7, s8, s9, s10>>
  BY DEF MainWindow!Begin, MainOpType
<1> QED BY <1>1 DEF MainInv, MainTypes, MainSelectedInv, MainOpInv, MainLitInv,
   MainFaultInv, MainWindow!AsksFirst, MainWindow!DeletesNamed, MainWindow!None

\* ... by each of the menu entries, ...
LEMMA MainActionStep ==
    ASSUME MainInv,
           \/ MainWindow!on_action_connection_connect
           \/ \E w \in {"edit", "copy", "delete"} : MainWindow!on_action(w)
           \/ \E w \in {"connect_many", "delete_many"} : MainWindow!on_action_multiple(w)
    PROVE  MainInv'
<1>1. s2 \subseteq Profiles /\ s5 \subseteq Profiles \cup {MainWindow!Group}
      /\ s4.file \in Profiles \cup {MainWindow!None}
  BY DEF MainInv, MainTypes, MainSelectedType
<1>2. CASE MainWindow!on_action_connection_connect
  <2>1. \/ s4.file # MainWindow!None /\ MainWindow!Begin("connect", "unlock", {s4.file})
        \/ MainWindow!Begin("connect_group", "unlock", s2 \cap GroupProfiles)
    BY <1>2 DEF MainWindow!on_action_connection_connect
  <2> QED BY <1>1, <2>1, MainBeginStep DEF MainWindow!Ops
<1>3. CASE \E w \in {"edit", "copy", "delete"} : MainWindow!on_action(w)
  BY <1>1, <1>3, MainBeginStep DEF MainWindow!on_action, MainWindow!Ops
<1>4. CASE \E w \in {"connect_many", "delete_many"} : MainWindow!on_action_multiple(w)
  BY <1>1, <1>4, MainBeginStep DEF MainWindow!on_action_multiple, MainWindow!Ops
<1> QED BY <1>2, <1>3, <1>4

\* ... its work on a profile, when the lock let it pass or not, ...
LEMMA MainUnlockStep == ASSUME MainInv, NEW f \in Profiles \cup {MainWindow!Group},
   MainWindow!Step(f) PROVE MainInv'
<1> DEFINE rest == s6.todo \ {f}
<1>0. /\ s6.step = "unlock" /\ f \in s6.todo /\ ~s10 /\ UNCHANGED <<s1, s8>>
      /\ s9' = [s9 EXCEPT !.vanished = s9.vanished \/ ~(s2 \subseteq s2')]
      /\ s6.what \in MainWindow!Ops /\ rest \in SUBSET (Profiles \cup {MainWindow!Group})
  BY DEF MainWindow!Step, MainInv, MainTypes, MainOpType, MainOpInv, MainWindow!None
<1>1. /\ s9' \in MainHistType /\ s9'.left = s9.left
      /\ s9'.vanished = (s9.vanished \/ ~(s2 \subseteq s2'))
  BY <1>0 DEF MainInv, MainTypes, MainHistType
<1>2. CASE MainWindow!UsesNothing(s6.what, f)
  <2>1. s10' = TRUE /\ UNCHANGED <<s2, s3, s4, s5, s6, s7>>
    BY <1>2 DEF MainWindow!Step
  <2>2. f \notin s2 /\ s6.what \in {"edit", "copy", "delete", "delete_many"}
    BY <1>0, <1>2 DEF MainWindow!UsesNothing, MainWindow!Ops
  <2>3. s9.vanished \/ s6.what = "delete_many"
    BY <1>0, <2>2 DEF MainInv, MainOpInv
  <2>4. s9'.vanished = s9.vanished
    BY <1>1, <2>1 DEF MainInv, MainTypes, MainHistType
  <2>5. MainFaultInv'
    BY <1>0, <2>1, <2>3, <2>4 DEF MainFaultInv
  <2>6. MainTypes'
    BY <1>0, <1>1, <2>1 DEF MainInv, MainTypes
  <2> QED BY <1>0, <1>1, <2>1, <2>4, <2>5, <2>6 DEF MainInv, MainSelectedInv, MainOpInv,
     MainLitInv, MainWindow!AsksFirst, MainWindow!DeletesNamed
<1>3. CASE ~MainWindow!UsesNothing(s6.what, f) /\ MainWindow!Refused(f, rest)
  <2>1. /\ UNCHANGED <<s2, s3, s4, s5, s7, s10>>
        /\ s6' = IF rest # {} /\ s6.what \in {"connect_group", "connect_many"}
                 THEN [s6 EXCEPT !.todo = rest] ELSE MainWindow!Idle
    BY <1>3 DEF MainWindow!Step, MainWindow!Refused
  <2>2. /\ s6' \in MainOpType /\ (s6'.step = MainWindow!None => s6' = MainWindow!Idle)
        /\ s6'.step # MainWindow!None => s6'.what \in {"connect_group", "connect_many"}
        /\ s6'.what \notin {"edit", "copy", "delete"}
    BY <1>0, <2>1, MainIdleTyped DEF MainInv, MainTypes, MainOpType, MainWindow!Idle,
       MainWindow!None
  <2>3. s9'.vanished = s9.vanished
    BY <1>1, <2>1 DEF MainInv, MainTypes, MainHistType
  <2>4. MainTypes'
    BY <1>0, <1>1, <2>1, <2>2 DEF MainInv, MainTypes
  <2>5. MainOpInv'
    <3>1. s6'.what # "delete"
      BY <2>2
    <3> QED BY <2>2, <3>1 DEF MainOpInv, MainWindow!Ops
  <2>6. MainSelectedInv' /\ MainLitInv'
    BY <1>1, <2>1, <2>3 DEF MainInv, MainSelectedInv, MainLitInv
  <2> QED BY <1>0, <2>1, <2>4, <2>5, <2>6 DEF MainInv, MainFaultInv, MainWindow!AsksFirst,
     MainWindow!DeletesNamed
<1>4. CASE ~MainWindow!UsesNothing(s6.what, f) /\ MainWindow!Done(f, rest)
  <2> HIDE DEF rest
  <2>1. /\ s7' = (IF f \in s2 /\ MainWindow!Promised(s6.what, f) /\ ~MainWindow!Asks(s6.what, f)
                       THEN s7 \cup {s6.what} ELSE s7)
        /\ s6' = (IF s6.what = "delete" THEN [s6 EXCEPT !.step = "confirm", !.named = s4.name]
                  ELSE IF rest = {} THEN MainWindow!Idle ELSE [s6 EXCEPT !.todo = rest])
        /\ IF s6.what = "delete_many"
           THEN s2' = s2 \ {f} /\ MainWindow!load_files(s3, s2')
           ELSE UNCHANGED <<s2, s3, s5>>
        /\ s4' = (IF rest = {} /\ s6.what \in {"connect_many", "delete_many"}
                        THEN MainWindow!NoSelection ELSE s4)
        /\ UNCHANGED s10
    BY <1>4 DEF MainWindow!Step, MainWindow!Done, rest
  <2>2. MainWindow!AsksFirst'
    <3>1. ASSUME MainWindow!Promised(s6.what, f), ~MainWindow!Asks(s6.what, f)
          PROVE \/ s6.what = "connect_many" /\ s1.primary /\ s1.lock_connect /\ ~s1.lock_edit
                \/ s6.what = "edit" /\ ~s1.primary
      BY <1>0, <3>1 DEF MainWindow!Promised, MainWindow!Asks, MainWindow!Ops,
         MainWindow!ToConnect, MainWindow!ToEdit, MainWindow!ToChange
    <3>2. \/ s7' = s7
          \/ /\ s7' = s7 \cup {s6.what}
             /\ \/ s6.what = "connect_many" /\ s1.primary /\ s1.lock_connect /\ ~s1.lock_edit
                \/ s6.what = "edit" /\ ~s1.primary
      BY <2>1, <3>1
    <3>3. s1' = s1
      BY <1>0
    <3> QED BY <3>2, <3>3 DEF MainInv, MainWindow!AsksFirst
  <2>3. s7' \subseteq MainWindow!Ops
    BY <1>0, <2>1 DEF MainInv, MainTypes
  <2>4. /\ s2' \subseteq s2 /\ s2' \subseteq Profiles /\ s3' = s3
        /\ s5' \subseteq Profiles \cup {MainWindow!Group}
        /\ s5' = s5 \/ (s5' # {} => s5' = {s4.file})
        /\ s6.what # "delete_many" => s2' = s2
    <3>1. s2 \subseteq Profiles /\ s3 \in MainViewType
          /\ s5 \subseteq Profiles \cup {MainWindow!Group}
      BY DEF MainInv, MainTypes
    <3>2. CASE s6.what = "delete_many"
      <4>1. s2' = s2 \ {f} /\ MainWindow!load_files(s3, s2')
        BY <2>1, <3>2
      <4> QED BY <3>1, <3>2, <4>1, MainLoaded
    <3> QED BY <2>1, <3>1, <3>2
  <2>5. s4' \in MainSelectedType /\ s4' \in {s4, MainWindow!NoSelection}
        /\ (s6.what \notin {"connect_many", "delete_many"} => s4' = s4)
    BY <2>1, MainIdleTyped DEF MainInv, MainTypes
  <2>6. CASE s6.what = "delete"
    <3>1. /\ s6' \in MainOpType /\ s6'.what = "delete" /\ s6'.step = "confirm"
          /\ s6'.named = s4.name /\ s6'.todo = s6.todo
      BY <2>1, <2>6 DEF MainInv, MainTypes, MainOpType, MainSelectedType
    <3>2. UNCHANGED <<s2, s3, s5, s4>> /\ s9'.vanished = s9.vanished
      BY <1>1, <2>1, <2>6 DEF MainInv, MainTypes, MainHistType
    <3> QED BY <1>0, <1>1, <2>1, <2>2, <2>3, <2>6, <3>1, <3>2 DEF MainInv, MainTypes,
       MainSelectedInv, MainOpInv, MainLitInv, MainFaultInv, MainWindow!DeletesNamed,
       MainWindow!None, MainWindow!Ops
  <2>7. CASE s6.what # "delete"
    <3>1. /\ s6' \in MainOpType /\ (s6'.step = MainWindow!None => s6' = MainWindow!Idle)
          /\ s6' = MainWindow!Idle \/ (s6'.what = s6.what /\ s6'.step = "unlock"
             /\ s6'.todo \subseteq s6.todo)
          /\ s6'.what # "delete"
      BY <1>0, <2>1, <2>7, MainIdleTyped DEF MainInv, MainTypes, MainOpType,
         MainWindow!Idle, MainWindow!None, rest
    <3>2. MainTypes'
      <4>1. s3' \in MainViewType /\ s1' \in MainPrefType
        BY <1>0, <2>4 DEF MainInv, MainTypes
      <4>2. s8' \in BOOLEAN /\ s10' \in BOOLEAN
        BY <1>0, <2>1 DEF MainInv, MainTypes
      <4>3. s9' \in MainHistType /\ s2' \subseteq Profiles
            /\ s5' \subseteq Profiles \cup {MainWindow!Group}
        BY <1>1, <2>4
      <4>4. s4' \in MainSelectedType /\ s6' \in MainOpType
        BY <2>5, <3>1
      <4> QED BY <2>3, <4>1, <4>2, <4>3, <4>4 DEF MainTypes
    <3>3. MainSelectedInv'
      <4>1. s9'.vanished \/ s2' = s2
        BY <1>1, <2>4
      <4>2. s9'.vanished \/ ~s9.vanished
        BY <1>1 DEF MainInv, MainTypes, MainHistType
      <4> QED BY <2>5, <4>1, <4>2 DEF MainInv, MainSelectedInv, MainWindow!NoSelection
    <3>4. MainOpInv'
      <4>1. s6'.what \in {"edit", "copy", "delete"} => s6'.what = s6.what
            /\ s6'.todo \subseteq s6.todo
        BY <3>1 DEF MainWindow!Idle, MainWindow!None
      <4>2. s6'.what \in {"edit", "copy"} => s2' = s2 /\ s9'.vanished = s9.vanished
        BY <1>1, <2>4, <4>1 DEF MainInv, MainTypes, MainHistType
      <4> QED BY <1>0, <3>1, <4>1, <4>2 DEF MainInv, MainOpInv, MainWindow!Idle,
         MainWindow!None
    <3>5. MainLitInv'
      BY <1>1, <2>4, <2>5 DEF MainInv, MainLitInv, MainWindow!NoSelection
    <3> QED BY <1>0, <2>1, <2>2, <3>2, <3>3, <3>4, <3>5 DEF MainInv, MainFaultInv,
       MainWindow!DeletesNamed
  <2> QED BY <2>6, <2>7
<1> QED BY <1>2, <1>3, <1>4 DEF MainWindow!Step

\* ... the answer to a question ...
LEMMA MainConfirmStep ==
    ASSUME MainInv, NEW yes \in BOOLEAN, MainWindow!ConfirmDelete(yes)
           \/ MainWindow!ConfirmMany(yes) PROVE MainInv'
<1>1. CASE MainWindow!ConfirmDelete(yes)
  <2>1. /\ s6.what = "delete" /\ s6.step = "confirm" /\ s6' = MainWindow!Idle
           /\ s4' = MainWindow!NoSelection
        /\ UNCHANGED <<s1, s7, s9, s10>>
        /\ \/ /\ s2' = s2 \ {s4.file} /\ MainWindow!load_files(s3, s2')
              /\ s8' = (s8 \/ s4.file # s6.named)
           \/ UNCHANGED <<s2, s3, s5, s8>>
    BY <1>1 DEF MainWindow!ConfirmDelete
  <2>2. ~s10 /\ ~s8'
    <3>1. s6.step # "unlock"
      BY <2>1
    <3>2. ~s10
      BY <3>1 DEF MainInv, MainFaultInv
    <3>3. s6.named = s4.file /\ ~s8
      BY <2>1 DEF MainInv, MainOpInv, MainWindow!DeletesNamed
    <3>4. ~s8'
      <4>1. CASE s8' = (s8 \/ s4.file # s6.named)
        BY <3>3, <4>1
      <4>2. CASE s8' = s8
        BY <3>3, <4>2
      <4> QED BY <2>1, <4>1, <4>2
    <3> QED BY <3>2, <3>4
  <2>3. s2' \subseteq Profiles /\ s3' \in MainViewType
        /\ s5' \subseteq Profiles \cup {MainWindow!Group}
    <3>1. s2 \subseteq Profiles /\ s3 \in MainViewType
          /\ s5 \subseteq Profiles \cup {MainWindow!Group}
      BY DEF MainInv, MainTypes
    <3> QED BY <2>1, <3>1, MainLoaded
  <2>4. MainTypes'
    BY <2>1, <2>2, <2>3, MainIdleTyped DEF MainInv, MainTypes
  <2> QED BY <2>1, <2>2, <2>4 DEF MainInv, MainSelectedInv, MainOpInv, MainLitInv,
     MainFaultInv, MainWindow!AsksFirst, MainWindow!DeletesNamed, MainWindow!Idle,
     MainWindow!None, MainWindow!NoSelection
<1>2. CASE MainWindow!ConfirmMany(yes)
  <2>1. /\ s6.what = "delete_many" /\ s6.step = "confirm"
        /\ s6' = (IF yes THEN [s6 EXCEPT !.step = "unlock"] ELSE MainWindow!Idle)
        /\ s4' = (IF yes THEN s4 ELSE MainWindow!NoSelection)
        /\ UNCHANGED <<s1, s2, s3, s5, s7, s8, s9, s10>>
    BY <1>2 DEF MainWindow!ConfirmMany
  <2>2. ~s10
    BY <2>1 DEF MainInv, MainFaultInv
  <2>3. /\ s6' \in MainOpType /\ s6'.what \in {"delete_many", MainWindow!None}
           /\ (s6'.step = MainWindow!None => s6' = MainWindow!Idle)
        /\ s6'.step # MainWindow!None => s6'.what \in MainWindow!Ops
    BY <2>1, MainIdleTyped DEF MainInv, MainTypes, MainOpType, MainWindow!Idle,
       MainWindow!None, MainWindow!Ops
  <2>4. s4' \in MainSelectedType /\ (s4' = s4 \/ s4' = MainWindow!NoSelection)
    BY <2>1, MainIdleTyped DEF MainInv, MainTypes
  <2> QED BY <2>1, <2>2, <2>3, <2>4 DEF MainInv, MainTypes, MainSelectedInv, MainOpInv,
     MainLitInv, MainFaultInv, MainWindow!AsksFirst, MainWindow!DeletesNamed,
     MainWindow!None, MainWindow!NoSelection
<1> QED BY <1>1, <1>2

\* ... and files that come and go behind it.
LEMMA MainFilesStep == ASSUME MainInv, NEW d \in SUBSET Profiles,
   MainWindow!FilesChange(d) PROVE MainInv'
<1>1. /\ ~s10 /\ s2' = d /\ MainWindow!load_files(s3, d)
      /\ s9' = [s9 EXCEPT !.vanished = s9.vanished \/ ~(s2 \subseteq d)]
      /\ UNCHANGED <<s1, s4, s6, s7, s8, s10>>
  BY DEF MainWindow!FilesChange
<1>2. /\ s9' \in MainHistType /\ s9'.left = s9.left
      /\ s9'.vanished = (s9.vanished \/ ~(s2 \subseteq d))
  BY <1>1 DEF MainInv, MainTypes, MainHistType
<1>3. s3' = s3 /\ s5' \subseteq Profiles \cup {MainWindow!Group}
      /\ (s5' # {} => s5' = {s4.file})
  BY <1>1, MainLoaded DEF MainInv, MainTypes
<1> QED BY <1>1, <1>2, <1>3 DEF MainInv, MainTypes, MainSelectedInv, MainOpInv, MainLitInv,
   MainFaultInv, MainWindow!AsksFirst, MainWindow!DeletesNamed

\* Every event keeps the invariant.
LEMMA MainStepInv == ASSUME MainInv, [MainWindow!Next]_(MainWindow!vars) PROVE MainInv'
<1>1. CASE UNCHANGED MainWindow!vars
  BY <1>1 DEF MainWindow!vars, MainInv, MainTypes, MainSelectedInv, MainOpInv, MainLitInv,
     MainFaultInv, MainWindow!AsksFirst, MainWindow!DeletesNamed
<1> QED BY <1>1, MainSearchStep, MainToggleStep, MainClickStep, MainActionStep,
   MainUnlockStep, MainConfirmStep, MainFilesStep DEF MainWindow!Next

\* The module counts as the library does.
LEMMA MainCardinality == \A S : MainWindow!Cardinality(S) = Cardinality(S)
BY DEF MainWindow!Cardinality, Cardinality

\* One row that is highlighted is a row.
LEMMA MainInvMeans ==
    ASSUME MainInv PROVE MainWindow!TypeOK /\ MainWindow!AsksFirst
           /\ MainWindow!DeletesNamed /\ MainWindow!RowsMeant /\ MainWindow!LoadFaults
<1>1. MainWindow!Cardinality({}) = 0
  BY FS_EmptySet, MainCardinality
<1>2. MainWindow!Cardinality(s5) = 1 => s5 # {}
  BY <1>1
<1>3. MainWindow!RowsMeant
  BY <1>2 DEF MainInv, MainLitInv, MainWindow!RowsMeant
<1> QED BY <1>3, MainTypesAre DEF MainInv, MainFaultInv, MainWindow!LoadFaults

-----------------------------------------------------------------------------
(* The start and the end of the program (src/src/remmina_exec.c).          *)
(* The variables: s1 main, s2 pool, s3 conn, s4 idles, s5 tray, s6 kiosk,  *)
(* s7 asks, s8 noask, s9 loops, s10 quit, s11 hist, s12 fault.             *)

AppBounds == MaxLoops \in Nat \ {0} /\ {"", "quit", "main", "dialog"} \cap Windows = {}

AppFrameType ==
    [kind : {"exit", "delete", "quit"}, asking : Windows \cup {"", "quit"},
       rest : SUBSET Windows]
AppDexit == AppLife!Source("dexit")
AppDestroy == AppLife!Source("destroy")
AppIdleType == {AppDexit, AppDestroy} \cup {AppLife!Ended(w) : w \in Windows}

\* Every frame but the newest asks.
AppAsking(s) == \A i \in 1 .. Len(s) : i # Len(s) => s[i].asking # ""
\* An exit has not been to these windows yet.
AppBefore(s, open) ==
    \A i \in 1 .. Len(s) : s[i].kind = "exit" => open \subseteq s[i].rest \cup {s[i].asking}
\* There is an exit in progress.
AppExitIn(s) == \E i \in 1 .. Len(s) : s[i].kind = "exit"
\* One that does not ask closes what is there.
AppSilent(s, safe) ==
    \A i \in 1 .. Len(s) :
        s[i].kind = "exit" => i = Len(s) /\ s[i].asking = "" /\ s[i].rest \subseteq safe
\* The newest frame is an exit at its end.
AppBare(s) == s # <<>> /\ s[Len(s)].asking = "" /\ s[Len(s)].rest = {}
\* The source that looks whether to exit is before the one that frees the main window.
AppOrdered(s) == \A i, j \in DOMAIN s : s[i] = AppDexit /\ s[j] = AppDestroy => i < j

AppHistNames == {"start", "dialog", "between", "tray", "refused", "late"}
AppStages == {"none", "open", "closing", "ended", "gone"}

AppTyped ==
    /\ s1 \in {"none", "open", "deleting", "half"} /\ s2 \subseteq AppLife!Pooled
    /\ s3 \in [Windows -> AppStages] /\ s4 \in Seq(AppIdleType) /\ s9 \in Seq(AppFrameType)
    /\ s5 \in {"none", "shown", "hidden"} /\ s6 \in BOOLEAN /\ s7 \in BOOLEAN
    /\ s8 \subseteq Windows /\ s10 \in BOOLEAN /\ s12 \in BOOLEAN
    /\ s11 \subseteq AppHistNames

AppDeleting ==
    /\ s1 \in {"open", "deleting"} => "main" \in s2
    /\ s1 = "deleting" => s9 = <<>> /\ ~s10 /\ Has(s4, AppDexit)
    /\ ~s10 /\ s1 # "half" => ~Has(s4, AppDestroy)
    /\ ~s10 /\ s1 \in {"none", "open"} => ~Has(s4, AppDexit)
    /\ Once(s4, AppDexit) /\ Once(s4, AppDestroy) /\ AppOrdered(s4)

AppDepth ==
    /\ Len(s9) <= MaxLoops + 2
    /\ ~AppBare(s9) => Len(s9) <= MaxLoops + 1
    /\ Has(s4, AppDexit) =>
          Len(s9) <= MaxLoops + 1 /\ (~AppBare(s9) => Len(s9) <= MaxLoops)

AppUnseen == ~s10 /\ s2 = {} /\ s5 # "shown"
   /\ s11 \cap {"start", "dialog", "between", "tray"} = {}
AppSeen == AppUnseen => AppExitIn(s9) \/ Has(s4, AppDexit)

AppOpenWindows == {w \in Windows : w \in s2 /\ s3[w] = "open"}
AppTold == s11 \cap {"refused", "late"} # {}
AppVisited == AppTold \/ (AppBefore(s9, AppOpenWindows) /\ (s10 => AppOpenWindows = {}))

AppUnasked == ~s6 => AppSilent(s9, s2 \cap s8)

AppInv == AppTyped /\ AppAsking(s9) /\ AppDeleting /\ AppDepth /\ AppSeen /\ AppVisited
   /\ AppUnasked /\ AppLife!ExitFaults

\* A frame on top.
LEMMA AppPushed ==
    ASSUME NEW s \in Seq(AppFrameType), NEW f \in AppFrameType
    PROVE  /\ Append(s, f) \in Seq(AppFrameType) /\ Len(Append(s, f)) = Len(s) + 1
           /\ (AppBare(Append(s, f)) <=> f.asking = "" /\ f.rest = {})
           /\ AppAsking(s) /\ (s # <<>> => s[Len(s)].asking # "") => AppAsking(Append(s, f))
           /\ \A o : AppBefore(s, o)
              /\ (f.kind = "exit" => o \subseteq f.rest \cup {f.asking}) =>
                 AppBefore(Append(s, f), o)
           /\ (AppExitIn(Append(s, f)) <=> AppExitIn(s) \/ f.kind = "exit")
           /\ \A o : ~AppExitIn(s) /\ (f.kind = "exit" => f.asking = ""
              /\ f.rest \subseteq o) =>
                 AppSilent(Append(s, f), o)
<1> DEFINE t == Append(s, f)
<1>1. /\ t \in Seq(AppFrameType) /\ Len(t) = Len(s) + 1 /\ Len(s) \in Nat /\ t # <<>>
      /\ t[Len(t)] = f /\ \A i \in 1 .. Len(s) : t[i] = s[i]
  OBVIOUS
<1> HIDE DEF t
<1>2. /\ \A i \in 1 .. Len(t) : i = Len(t) \/ (i \in 1 .. Len(s) /\ i # Len(t))
      /\ \A i \in 1 .. Len(s) : i \in 1 .. Len(t) /\ i # Len(t)
      /\ Len(t) \in 1 .. Len(t)
      /\ \A i \in 1 .. Len(s) : i = Len(s) => s # <<>>
  BY <1>1
<1>3. AppBare(t) <=> f.asking = "" /\ f.rest = {}
  BY <1>1 DEF AppBare
<1>4. AppAsking(s) /\ (s # <<>> => s[Len(s)].asking # "") => AppAsking(t)
  BY <1>1, <1>2 DEF AppAsking
<1>5. ASSUME NEW o, AppBefore(s, o), f.kind = "exit" => o \subseteq f.rest \cup {f.asking}
      PROVE  AppBefore(t, o)
  BY <1>1, <1>2, <1>5 DEF AppBefore
<1>6. AppExitIn(t) <=> AppExitIn(s) \/ f.kind = "exit"
  BY <1>1, <1>2 DEF AppExitIn
<1>7. ASSUME NEW o, ~AppExitIn(s), f.kind = "exit" => f.asking = "" /\ f.rest \subseteq o
      PROVE  AppSilent(t, o)
  BY <1>1, <1>2, <1>7 DEF AppSilent, AppExitIn
<1> QED BY <1>1, <1>3, <1>4, <1>5, <1>6, <1>7 DEF t

\* The newest frame is gone.
LEMMA AppPopped ==
    ASSUME NEW s \in Seq(AppFrameType), s # <<>>
    PROVE  /\ s[Len(s)] \in AppFrameType
           /\ SubSeq(s, 1, Len(s) - 1) \in Seq(AppFrameType)
           /\ Len(SubSeq(s, 1, Len(s) - 1)) = Len(s) - 1
           /\ Len(SubSeq(s, 1, Len(s) - 1)) + 1 = Len(s) /\ Len(s) \in 1 .. Len(s)
           /\ (AppAsking(s) => LET p == SubSeq(s, 1, Len(s) - 1)
                            IN  AppAsking(p) /\ ~AppBare(p)
                               /\ (p # <<>> => p[Len(p)].asking # ""))
           /\ \A o : AppBefore(s, o) => AppBefore(SubSeq(s, 1, Len(s) - 1), o)
           /\ (s[Len(s)].kind # "exit" => (AppExitIn(SubSeq(s, 1, Len(s) - 1))
              <=> AppExitIn(s)))
           /\ \A o : AppSilent(s, o) => ~AppExitIn(SubSeq(s, 1, Len(s) - 1))
           /\ \A o : AppSilent(s, o) /\ s[Len(s)].asking # "" => ~AppExitIn(s)
           /\ \A o : AppBefore(s, o) /\ s[Len(s)].kind = "exit" =>
                 o \subseteq s[Len(s)].rest \cup {s[Len(s)].asking}
           /\ \A o : AppSilent(s, o) /\ s[Len(s)].kind = "exit" =>
                 s[Len(s)].asking = "" /\ s[Len(s)].rest \subseteq o
<1> DEFINE p == SubSeq(s, 1, Len(s) - 1)
<1>1. /\ p \in Seq(AppFrameType) /\ Len(p) = Len(s) - 1 /\ Len(s) \in Nat /\ Len(s) >= 1
      /\ Len(p) \in Nat
      /\ \A i \in 1 .. Len(p) : p[i] = s[i]
      /\ s[Len(s)] \in AppFrameType
  <2>1. Len(s) \in Nat /\ Len(s) >= 1 /\ DOMAIN s = 1 .. Len(s)
    OBVIOUS
  <2>2. \A i \in DOMAIN s : s[i] \in AppFrameType
    OBVIOUS
  <2>3. Len(s) \in DOMAIN s
    BY <2>1
  <2>4. /\ p \in Seq(AppFrameType) /\ Len(p) = Len(s) - 1 /\ Len(p) \in Nat
        /\ \A i \in 1 .. Len(p) : p[i] = s[i]
    BY <2>1
  <2> QED BY <2>1, <2>2, <2>3, <2>4
<1> HIDE DEF p
<1>9. Len(p) + 1 = Len(s)
  BY <1>1
<1>2. /\ \A i \in 1 .. Len(p) : i \in 1 .. Len(s) /\ i # Len(s)
      /\ \A i \in 1 .. Len(s) : i = Len(s) \/ i \in 1 .. Len(p)
      /\ Len(s) \in 1 .. Len(s)
      /\ (p # <<>> => Len(p) \in 1 .. Len(p))
  BY <1>1
<1>3. AppAsking(s) => AppAsking(p) /\ ~AppBare(p) /\ (p # <<>> => p[Len(p)].asking # "")
  BY <1>1, <1>2 DEF AppAsking, AppBare
<1>4. ASSUME NEW o, AppBefore(s, o) PROVE AppBefore(p, o)
  BY <1>1, <1>2, <1>4 DEF AppBefore
<1>5. s[Len(s)].kind # "exit" => (AppExitIn(p) <=> AppExitIn(s))
  BY <1>1, <1>2 DEF AppExitIn
<1>6. ASSUME NEW o, AppSilent(s, o) PROVE ~AppExitIn(p)
             /\ (s[Len(s)].asking # "" => ~AppExitIn(s))
  BY <1>1, <1>2, <1>6 DEF AppExitIn, AppSilent
<1>7. ASSUME NEW o, AppBefore(s, o), s[Len(s)].kind = "exit"
      PROVE  o \subseteq s[Len(s)].rest \cup {s[Len(s)].asking}
  BY <1>2, <1>7 DEF AppBefore
<1>8. ASSUME NEW o, AppSilent(s, o), s[Len(s)].kind = "exit"
      PROVE  s[Len(s)].asking = "" /\ s[Len(s)].rest \subseteq o
  BY <1>2, <1>8 DEF AppSilent
<1> QED BY <1>1, <1>2, <1>3, <1>4, <1>5, <1>6, <1>7, <1>8, <1>9 DEF p

\* What is before fewer windows, or safe for more.
LEMMA AppFewer ==
    ASSUME NEW s, NEW o, NEW q
    PROVE  /\ AppBefore(s, o) /\ q \subseteq o => AppBefore(s, q)
           /\ AppSilent(s, o) /\ o \subseteq q => AppSilent(s, q)
<1>1. AppBefore(s, o) /\ q \subseteq o => AppBefore(s, q)
  BY DEF AppBefore
<1>2. AppSilent(s, o) /\ o \subseteq q => AppSilent(s, q)
  BY DEF AppSilent
<1> QED BY <1>1, <1>2

\* The two sources keep their order.
LEMMA AppendOrdered ==
    ASSUME NEW s \in Seq(AppIdleType), AppOrdered(s), NEW x \in AppIdleType,
           x = AppDexit => ~Has(s, AppDestroy)
    PROVE  AppOrdered(Append(s, x))
<1> DEFINE t == Append(s, x)
<1>1. /\ Len(s) \in Nat /\ DOMAIN s = 1 .. Len(s) /\ DOMAIN t = 1 .. Len(s) + 1
      /\ t[Len(s) + 1] = x /\ \A i \in 1 .. Len(s) : t[i] = s[i]
  OBVIOUS
<1> HIDE DEF t
<1>2. \A i \in DOMAIN t : i = Len(s) + 1 \/ i \in DOMAIN s
  BY <1>1
<1>0. AppDexit # AppDestroy
  BY DEF AppDexit, AppDestroy, AppLife!Source
<1>3. ASSUME NEW i \in DOMAIN t, NEW j \in DOMAIN t, t[i] = AppDexit,
             t[j] = AppDestroy PROVE i < j
  <2>1. CASE i \in DOMAIN s /\ j \in DOMAIN s
    BY <1>1, <1>3, <2>1 DEF AppOrdered
  <2>2. CASE i \in DOMAIN s /\ j = Len(s) + 1
    BY <1>1, <2>2
  <2>3. CASE i = Len(s) + 1 /\ j \in DOMAIN s
    BY <1>1, <1>3, <2>3 DEF Has
  <2>4. CASE i = Len(s) + 1 /\ j = Len(s) + 1
    BY <1>0, <1>1, <1>3, <2>4
  <2> QED BY <1>2, <2>1, <2>2, <2>3, <2>4
<1> QED BY <1>3 DEF AppOrdered, t

\* ... and when it is taken away.
LEMMA AppTailOrdered ==
    ASSUME NEW s \in Seq(AppIdleType), AppOrdered(s), s # <<>>
    PROVE  AppOrdered(Tail(s)) /\ (Head(s) = AppDestroy => ~Has(s, AppDexit))
<1> DEFINE t == Tail(s)
<1>1. /\ Len(s) \in Nat /\ Len(s) >= 1 /\ DOMAIN s = 1 .. Len(s) /\ DOMAIN t = 1 .. Len(s) - 1
      /\ Head(s) = s[1] /\ \A i \in 1 .. Len(s) - 1 : t[i] = s[i + 1]
  OBVIOUS
<1> HIDE DEF t
<1>2. ASSUME NEW i \in DOMAIN t, NEW j \in DOMAIN t, t[i] = AppDexit,
             t[j] = AppDestroy PROVE i < j
  <2>1. i + 1 \in DOMAIN s /\ j + 1 \in DOMAIN s /\ s[i + 1] = AppDexit /\ s[j + 1] = AppDestroy
    BY <1>1, <1>2
  <2>2. i + 1 < j + 1
    BY <2>1 DEF AppOrdered
  <2> QED BY <1>1, <2>2
<1>3. ASSUME Head(s) = AppDestroy, NEW i \in DOMAIN s, s[i] = AppDexit PROVE FALSE
  <2>1. 1 \in DOMAIN s /\ s[1] = AppDestroy
    BY <1>1, <1>3
  <2>2. i < 1
    BY <1>3, <2>1 DEF AppOrdered
  <2> QED BY <1>1, <2>2
<1> QED BY <1>2, <1>3 DEF AppOrdered, Has, t

\* The properties follow.
\* The invariant implies the properties.
LEMMA AppInvMeans == ASSUME AppInv PROVE AppLife!TypeOK /\ AppLife!Reachable
   /\ AppLife!AskedToClose /\ AppLife!ExitFaults
<1>1. \A i \in DOMAIN s4 : \/ s4[i] \in {AppDexit, AppDestroy}
                           \/ \E w \in Windows : s4[i] = AppLife!Ended(w)
  <2>1. \A i \in DOMAIN s4 : s4[i] \in AppIdleType
    BY DEF AppInv, AppTyped
  <2> QED BY <2>1 DEF AppIdleType
<1>2. AppLife!TypeOK
  BY <1>1 DEF AppInv, AppTyped, AppDepth, AppLife!TypeOK, AppDexit, AppDestroy,
     AppHistNames, AppStages
<1>3. AppLife!OutOfReach => ~AppExitIn(s9) /\ ~Has(s4, AppDexit)
  BY DEF AppLife!OutOfReach, AppExitIn, Has
<1>4. AppLife!Reachable
  BY <1>3 DEF AppInv, AppSeen, AppUnseen, AppLife!Reachable, AppLife!OutOfReach,
     AppLife!Available
<1>5. AppLife!AskedToClose
  BY DEF AppInv, AppVisited, AppOpenWindows, AppTold, AppLife!AskedToClose
<1> QED BY <1>4, <1>5, <1>2 DEF AppInv

\* The loops in which the user quits again are bounded, and there is one.
LEMMA AppLoopsBound == ASSUME AppBounds PROVE MaxLoops \in Nat /\ MaxLoops >= 1
<1>1. MaxLoops \in Nat /\ MaxLoops # 0
  BY DEF AppBounds
<1> QED BY <1>1

\* It holds when the program starts.
LEMMA AppInitInv == ASSUME AppBounds, AppLife!Init PROVE AppInv
<1>1. /\ s1 \in {"none", "open"} /\ s5 \in {"none", "shown"} /\ s8 = {} /\ ~s10 /\ ~s12
      /\ s9 = <<>> /\ s4 = <<>> /\ s6 \in BOOLEAN /\ s7 \in BOOLEAN
      /\ s3 = [w \in Windows |-> "none"]
  BY DEF AppLife!Init
<1>2. s2 \subseteq {"main", "dialog"} /\ (s1 = "open" => "main" \in s2)
  <2>1. CASE s1 = "open"
    BY <2>1 DEF AppLife!Init
  <2>2. CASE s1 = "none"
    BY <2>2 DEF AppLife!Init
  <2> QED BY <1>1, <2>1, <2>2
<1>3. s11 \subseteq {"start"} /\ (s2 = {} /\ s5 # "shown" => s11 = {"start"})
  <2>1. CASE s2 = {} /\ s5 = "none"
    BY <2>1 DEF AppLife!Init
  <2>2. CASE ~ (s2 = {} /\ s5 = "none")
    BY <1>1, <2>2 DEF AppLife!Init
  <2> QED BY <2>1, <2>2
<1>4. s3 \in [Windows -> AppStages]
  BY <1>1 DEF AppStages
<1>5. s9 \in Seq(AppFrameType) /\ s4 \in Seq(AppIdleType) /\ Len(s9) = 0
  BY <1>1
<1>6. AppTyped
  <2>1. s2 \subseteq AppLife!Pooled /\ s11 \subseteq AppHistNames /\ s8 \subseteq Windows
    BY <1>1, <1>2, <1>3 DEF AppLife!Pooled, AppHistNames
  <2>2. /\ s1 \in {"none", "open", "deleting", "half"} /\ s5 \in {"none", "shown", "hidden"}
        /\ s6 \in BOOLEAN /\ s7 \in BOOLEAN /\ s10 \in BOOLEAN /\ s12 \in BOOLEAN
    <3>1. s10 = FALSE /\ s12 = FALSE
      BY DEF AppLife!Init
    <3> QED BY <1>1, <3>1
  <2> QED BY <1>4, <1>5, <2>1, <2>2 DEF AppTyped
<1>7. /\ ~AppExitIn(s9) /\ ~AppBare(s9) /\ AppAsking(s9) /\ \A o : AppBefore(s9, o)
      /\ \A o : AppSilent(s9, o)
  BY <1>1 DEF AppExitIn, AppBare, AppAsking, AppBefore, AppSilent
<1>8. /\ \A x : ~Has(s4, x)
      /\ \A x : Once(s4, x)
      /\ AppOrdered(s4)
  BY <1>1 DEF Has, Once, AppOrdered
<1>9. AppDeleting
  BY <1>1, <1>2, <1>8 DEF AppDeleting
<1>10. AppDepth
  <2>1. 0 <= MaxLoops + 1 /\ 0 <= MaxLoops + 2
    BY AppLoopsBound
  <2>2. ~Has(s4, AppDexit)
    BY <1>8
  <2> QED BY <1>5, <2>1, <2>2 DEF AppDepth
<1>11. AppSeen /\ AppVisited /\ AppUnasked
  BY <1>1, <1>3, <1>7 DEF AppSeen, AppUnseen, AppVisited, AppUnasked
<1> QED BY <1>1, <1>6, <1>7, <1>9, <1>10, <1>11 DEF AppInv, AppLife!ExitFaults

\* While the main loop is free no exit is under way, but one that asks.
LEMMA AppQuiet ==
    ASSUME AppInv, AppLife!Free
    PROVE  /\ ~AppBare(s9) /\ (s9 # <<>> => s9[Len(s9)].asking # "")
           /\ ~s6 => ~AppExitIn(s9)
<1>1. s9 # <<>> => s9[Len(s9)].asking # ""
  BY DEF AppLife!Free, AppLife!Top
<1>2. ~AppBare(s9)
  BY <1>1 DEF AppBare
<1>3. ~s6 => ~AppExitIn(s9)
  <2>1. CASE s9 = <<>>
    BY <2>1 DEF AppExitIn
  <2>2. CASE s9 # <<>>
    <3>1. \A o : AppSilent(s9, o) => ~AppExitIn(s9)
      BY <1>1, <2>2, AppPopped DEF AppInv, AppTyped
    <3> QED BY <3>1 DEF AppInv, AppUnasked
  <2> QED BY <2>1, <2>2
<1> QED BY <1>1, <1>2, <1>3

\* Without an exit nothing is closed.
LEMMA AppNoExit == ASSUME NEW s, NEW o, ~AppExitIn(s) PROVE AppSilent(s, o) /\ AppBefore(s, o)
BY DEF AppExitIn, AppSilent, AppBefore

\* What was told remains.
LEMMA AppTellsMore ==
    ASSUME s11 \cap {"refused", "late"} \subseteq s11'
    PROVE  AppTold => AppTold'
BY DEF AppTold

\* Fewer windows are open, and the questions are the same.
LEMMA AppVisitedKept ==
    ASSUME AppVisited, UNCHANGED <<s9, s10>>, AppOpenWindows' \subseteq AppOpenWindows,
           AppTold => AppTold'
    PROVE  AppVisited'
<1>1. AppBefore(s9, AppOpenWindows) => AppBefore(s9, AppOpenWindows')
  BY AppFewer
<1> QED BY <1>1 DEF AppVisited

\* The main window, a dialog.
LEMMA AppWindowStep == ASSUME AppBounds, AppInv, AppLife!Main \/ AppLife!OpenDialog
   \/ AppLife!CloseDialog PROVE AppInv'
<1>0. UNCHANGED <<s3, s4, s5, s6, s7, s8, s9, s10, s12>>
  BY DEF AppLife!Main, AppLife!OpenDialog, AppLife!CloseDialog
<1>1. CASE AppLife!Main /\ AppLife!HasMain
  <2>1. UNCHANGED <<s1, s2, s11>>
    BY <1>1 DEF AppLife!Main
  <2>2. AppOpenWindows' = AppOpenWindows /\ (AppTold <=> AppTold') /\ (AppUnseen <=> AppUnseen')
    BY <1>0, <2>1 DEF AppOpenWindows, AppTold, AppUnseen
  <2>3. AppTyped' /\ AppAsking(s9)' /\ AppDeleting' /\ AppDepth' /\ AppUnasked'
        /\ AppLife!ExitFaults'
    BY <1>0, <2>1 DEF AppInv, AppTyped, AppDeleting, AppDepth, AppUnasked,
       AppLife!ExitFaults
  <2> QED BY <1>0, <2>2, <2>3 DEF AppInv, AppSeen, AppVisited
<1>2. CASE (AppLife!Main /\ ~AppLife!HasMain) \/ AppLife!OpenDialog
  <2>1. PICK x \in {"main", "dialog"} :
          /\ s2' = s2 \cup {x}
          /\ \/ x = "main" /\ s1 = "none" /\ s1' = "open"
             \/ x = "dialog" /\ s1' = s1
    <3>1. CASE AppLife!Main /\ ~AppLife!HasMain
      BY <3>1 DEF AppLife!Main, AppLife!HasMain
    <3>2. CASE AppLife!OpenDialog
      BY <3>2 DEF AppLife!OpenDialog
    <3> QED BY <1>2, <3>1, <3>2
  <2>2. s11' = s11 \ {"start", "dialog", "between", "tray"}
    BY <1>2 DEF AppLife!Main, AppLife!OpenDialog
  <2>3. x \notin Windows /\ x \in AppLife!Pooled
    BY DEF AppBounds, AppLife!Pooled
  <2>4. AppOpenWindows' = AppOpenWindows /\ (AppTold => AppTold') /\ ~AppUnseen'
    <3>1. \A w \in Windows : w \in s2' <=> w \in s2
      BY <2>1, <2>3
    <3>2. AppOpenWindows' = AppOpenWindows
      BY <1>0, <3>1 DEF AppOpenWindows
    <3>3. s11 \cap {"refused", "late"} \subseteq s11'
      BY <2>2
    <3> QED BY <2>1, <3>2, <3>3, AppTellsMore DEF AppUnseen
  <2>5. AppTyped'
    BY <1>0, <2>1, <2>2, <2>3 DEF AppInv, AppTyped
  <2>6. AppDeleting'
    BY <1>0, <2>1 DEF AppInv, AppDeleting
  <2>7. AppAsking(s9)' /\ AppDepth' /\ AppLife!ExitFaults' /\ AppSeen'
    BY <1>0, <2>4 DEF AppInv, AppDepth, AppLife!ExitFaults, AppSeen
  <2>8. AppUnasked'
    <3>1. s2 \cap s8 \subseteq s2' \cap s8'
      BY <1>0, <2>1
    <3> QED BY <1>0, <3>1, AppFewer DEF AppInv, AppUnasked
  <2>9. AppVisited'
    BY <1>0, <2>4, AppVisitedKept DEF AppInv
  <2> QED BY <2>5, <2>6, <2>7, <2>8, <2>9 DEF AppInv
<1>3. CASE AppLife!CloseDialog
  <2>1. /\ s9 = <<>> /\ s1' = s1 /\ "dialog" \in s2 /\ s2' = s2 \ {"dialog"}
        /\ s11' = s11 \cup IF s2 = {"dialog"} /\ s5 # "shown" THEN {"dialog"} ELSE {}
    BY <1>3 DEF AppLife!CloseDialog, AppLife!UserFree, AppLife!Available
  <2>2. ~AppExitIn(s9)
    BY <2>1 DEF AppExitIn
  <2>3. s11' \subseteq AppHistNames /\ s11 \subseteq s11'
    BY <2>1 DEF AppInv, AppTyped, AppHistNames
  <2>4. AppTyped'
    BY <1>0, <2>1, <2>3 DEF AppInv, AppTyped
  <2>5. AppDeleting'
    BY <1>0, <2>1 DEF AppInv, AppDeleting
  <2>6. AppAsking(s9)' /\ AppDepth' /\ AppLife!ExitFaults'
    BY <1>0 DEF AppInv, AppDepth, AppLife!ExitFaults
  <2>7. ~AppUnseen'
    BY <1>0, <2>1 DEF AppUnseen
  <2>8. AppVisited'
    <3>1. AppOpenWindows' \subseteq AppOpenWindows
      BY <1>0, <2>1 DEF AppOpenWindows
    <3> QED BY <1>0, <2>3, <3>1, AppVisitedKept, AppTellsMore DEF AppInv
  <2>9. AppUnasked'
    BY <1>0, <2>2, AppNoExit DEF AppUnasked
  <2> QED BY <2>4, <2>5, <2>6, <2>7, <2>8, <2>9 DEF AppInv, AppSeen
<1> QED BY <1>1, <1>2, <1>3

\* A connection opens in a window of its own.
LEMMA AppConnectStep == ASSUME AppBounds, AppInv, NEW w \in Windows,
   AppLife!Connect(w) PROVE AppInv'
<1>0. /\ UNCHANGED <<s1, s4, s5, s6, s7, s8, s9, s10, s12>>
      /\ s3' = [s3 EXCEPT ![w] = "open"] /\ s2' = s2 \cup {w}
      /\ s11' = (s11 \ {"start", "dialog", "between", "tray"})
                    \cup IF s10 \/ \E i \in DOMAIN s9 : s9[i].kind = "exit"
                       THEN {"late"} ELSE {}
  BY DEF AppLife!Connect
<1>1. s9 \in Seq(AppFrameType)
  BY DEF AppInv, AppTyped
<1>2. s10 \/ AppExitIn(s9) => "late" \in s11'
  BY <1>0, <1>1 DEF AppExitIn
<1>3. s11' \subseteq AppHistNames /\ s11 \cap {"refused", "late"} \subseteq s11'
  BY <1>0 DEF AppInv, AppTyped, AppHistNames
<1>4. AppTyped'
  BY <1>0, <1>3 DEF AppInv, AppTyped, AppLife!Pooled, AppStages
<1>5. AppDeleting' /\ AppAsking(s9)' /\ AppDepth' /\ AppLife!ExitFaults'
  BY <1>0 DEF AppInv, AppDeleting, AppDepth, AppLife!ExitFaults
<1>6. ~AppUnseen'
  BY <1>0 DEF AppUnseen
<1>7. AppVisited'
  <2>1. CASE s10 \/ AppExitIn(s9)
    BY <1>2, <2>1 DEF AppVisited, AppTold
  <2>2. CASE ~ (s10 \/ AppExitIn(s9))
    BY <1>0, <2>2, AppNoExit DEF AppVisited
  <2> QED BY <2>1, <2>2
<1>8. AppUnasked'
  <2>1. s2 \cap s8 \subseteq s2' \cap s8'
    BY <1>0
  <2> QED BY <1>0, <2>1, AppFewer DEF AppInv, AppUnasked
<1> QED BY <1>4, <1>5, <1>6, <1>7, <1>8 DEF AppInv, AppSeen

\* The two halves of the end of the main window.
LEMMA AppDeleteStep ==
    ASSUME AppBounds, AppInv, AppLife!DeleteMain
           \/ AppLife!remmina_main_on_destroy_event PROVE AppInv'
<1>0. UNCHANGED <<s3, s5, s6, s7, s8, s9, s10, s11, s12>>
  BY DEF AppLife!DeleteMain, AppLife!remmina_main_on_destroy_event
<1>1. /\ s9 = <<>> /\ ~s10
      /\ \/ s1 = "open" /\ s1' = "deleting" /\ s2' = s2 /\ s4' = Append(s4, AppDexit)
         \/ /\ s1 = "deleting" /\ s1' = "half" /\ s2' = s2 \ {"main"}
            /\ s4' = Append(s4, AppDestroy)
  <2>1. CASE AppLife!DeleteMain
    BY <2>1 DEF AppLife!DeleteMain, AppLife!UserFree, AppLife!Free, AppDexit
  <2>2. CASE AppLife!remmina_main_on_destroy_event
    BY <2>2 DEF AppLife!remmina_main_on_destroy_event, AppInv, AppDeleting, AppDestroy
  <2> QED BY <2>1, <2>2
<1>2. /\ s4 \in Seq(AppIdleType) /\ AppDexit \in AppIdleType
         /\ AppDestroy \in AppIdleType /\ AppDexit # AppDestroy
      /\ AppOrdered(s4)
  BY DEF AppInv, AppTyped, AppIdleType, AppDexit, AppDestroy, AppLife!Source, AppDeleting
<1>3. ~Has(s4, AppDestroy) /\ (s1 = "open" => ~Has(s4, AppDexit))
  BY <1>1 DEF AppInv, AppDeleting
<1>4. /\ s4' \in Seq(AppIdleType) /\ Has(s4', AppDexit) /\ Once(s4', AppDexit)
      /\ Once(s4', AppDestroy) /\ AppOrdered(s4')
      /\ (s1' = "deleting" => ~Has(s4', AppDestroy))
  <2>1. CASE s1 = "open"
    <3>1. s4' = Append(s4, AppDexit)
      BY <1>1, <2>1
    <3>2. AppOrdered(s4')
      BY <1>2, <1>3, <3>1, AppendOrdered
    <3>3. /\ s4' \in Seq(AppIdleType) /\ Has(s4', AppDexit) /\ Once(s4', AppDexit)
          /\ Once(s4', AppDestroy) /\ ~Has(s4', AppDestroy)
      BY <1>2, <1>3, <2>1, <3>1, AppendHas DEF AppInv, AppDeleting
    <3> QED BY <3>2, <3>3
  <2>2. CASE s1 = "deleting"
    <3>1. s4' = Append(s4, AppDestroy) /\ s1' = "half"
      BY <1>1, <2>2
    <3>2. AppOrdered(s4')
      BY <1>2, <3>1, AppendOrdered
    <3>3. /\ s4' \in Seq(AppIdleType) /\ Has(s4', AppDexit) /\ Once(s4', AppDexit)
          /\ Once(s4', AppDestroy)
      BY <1>2, <1>3, <2>2, <3>1, AppendHas DEF AppInv, AppDeleting
    <3> QED BY <3>1, <3>2, <3>3
  <2> QED BY <1>1, <2>1, <2>2
<1>5. s2' \subseteq s2 /\ (s1' = "deleting" => "main" \in s2') /\ s1' \in {"deleting", "half"}
  BY <1>1 DEF AppInv, AppDeleting
<1>6. AppTyped'
  BY <1>0, <1>4, <1>5 DEF AppInv, AppTyped
<1>7. AppDeleting'
  BY <1>0, <1>1, <1>4, <1>5 DEF AppDeleting
<1>8. AppAsking(s9)' /\ AppLife!ExitFaults' /\ AppSeen'
  BY <1>0, <1>4 DEF AppInv, AppLife!ExitFaults, AppSeen
<1>9. AppDepth'
  <2>1. Len(s9) = 0 /\ 0 <= MaxLoops /\ 0 <= MaxLoops + 1 /\ 0 <= MaxLoops + 2
    BY <1>1, AppLoopsBound
  <2> QED BY <1>0, <2>1 DEF AppDepth
<1>10. AppVisited'
  <2>1. AppOpenWindows' \subseteq AppOpenWindows /\ (AppTold => AppTold')
    BY <1>0, <1>5 DEF AppOpenWindows, AppTold
  <2> QED BY <1>0, <2>1, AppVisitedKept DEF AppInv
<1>11. AppUnasked'
  <2>1. ~AppExitIn(s9)
    BY <1>1 DEF AppExitIn
  <2> QED BY <1>0, <2>1, AppNoExit DEF AppUnasked
<1> QED BY <1>6, <1>7, <1>8, <1>9, <1>10, <1>11 DEF AppInv

\* A plugin ends, and the main loop is to hear of it.
LEMMA AppPluginEndsStep == ASSUME AppBounds, AppInv, NEW w \in Windows,
   AppLife!PluginEnds(w) PROVE AppInv'
<1>0. /\ UNCHANGED <<s1, s2, s5, s6, s7, s8, s9, s10, s11, s12>>
      /\ s3' = [s3 EXCEPT ![w] = "ended"] /\ s4' = Append(s4, AppLife!Ended(w))
  BY DEF AppLife!PluginEnds
<1>1. /\ s4 \in Seq(AppIdleType) /\ AppLife!Ended(w) \in AppIdleType
         /\ AppLife!Ended(w) # AppDexit /\ AppLife!Ended(w) # AppDestroy
      /\ AppOrdered(s4)
  BY DEF AppInv, AppTyped, AppIdleType, AppDexit, AppDestroy, AppLife!Source,
     AppLife!Ended, AppDeleting
<1>2. /\ s4' \in Seq(AppIdleType) /\ (Has(s4', AppDexit) <=> Has(s4, AppDexit))
      /\ (Has(s4', AppDestroy) <=> Has(s4, AppDestroy))
      /\ (Once(s4, AppDexit) => Once(s4', AppDexit))
      /\ (Once(s4, AppDestroy) => Once(s4', AppDestroy))
  BY <1>0, <1>1, AppendHas
<1>3. AppOrdered(s4')
  BY <1>0, <1>1, AppendOrdered
<1>4. AppTyped'
  BY <1>0, <1>2 DEF AppInv, AppTyped, AppStages
<1>5. AppDeleting' /\ AppAsking(s9)' /\ AppDepth' /\ AppLife!ExitFaults' /\ AppUnasked'
  BY <1>0, <1>2, <1>3 DEF AppInv, AppDeleting, AppDepth, AppLife!ExitFaults, AppUnasked
<1>6. AppSeen'
  BY <1>0, <1>2 DEF AppInv, AppSeen, AppUnseen
<1>7. AppVisited'
  <2>1. \A v \in Windows : s3'[v] = "open" => s3[v] = "open"
    BY <1>0 DEF AppInv, AppTyped
  <2>2. AppOpenWindows' \subseteq AppOpenWindows /\ (AppTold => AppTold')
    BY <1>0, <2>1 DEF AppOpenWindows, AppTold
  <2> QED BY <1>0, <2>2, AppVisitedKept DEF AppInv
<1> QED BY <1>4, <1>5, <1>6, <1>7 DEF AppInv

\* What is taken from the idle sources leaves the others as they are.
LEMMA AppServed ==
    ASSUME AppInv, s4 # <<>>, s4' = Tail(s4)
    PROVE  /\ s4' \in Seq(AppIdleType) /\ AppOrdered(s4')
           /\ Once(s4', AppDexit) /\ Once(s4', AppDestroy)
           /\ (Has(s4', AppDexit) => Has(s4, AppDexit))
           /\ (Has(s4', AppDestroy) => Has(s4, AppDestroy))
           /\ (Head(s4) # AppDexit /\ Has(s4, AppDexit) => Has(s4', AppDexit))
           /\ (Head(s4) = AppDexit => ~Has(s4', AppDexit))
           /\ (Head(s4) = AppDestroy => ~Has(s4, AppDexit) /\ ~Has(s4', AppDestroy))
<1>1. s4 \in Seq(AppIdleType) /\ AppOrdered(s4) /\ Once(s4, AppDexit) /\ Once(s4, AppDestroy)
  BY DEF AppInv, AppTyped, AppDeleting
<1>2. AppOrdered(s4') /\ (Head(s4) = AppDestroy => ~Has(s4, AppDexit))
  BY <1>1, AppTailOrdered
<1> QED BY <1>1, <1>2, TailHas

\* The last page of a window goes.
LEMMA AppServeEndedStep == ASSUME AppBounds, AppInv, NEW w \in Windows,
   AppLife!ServeEnded(w) PROVE AppInv'
<1>0. /\ UNCHANGED <<s1, s5, s6, s7, s8, s10, s12>>
      /\ s4 # <<>> /\ AppLife!Free /\ Head(s4) = AppLife!Ended(w) /\ s4' = Tail(s4)
      /\ s3' = [s3 EXCEPT ![w] = "gone"] /\ s2' = s2 \ {w}
      /\ IF s2' = {} /\ s1 = "none" /\ s5 # "shown"
         THEN s9' = Append(s9, AppLife!Frame("exit", {})) /\ s11' = s11
         ELSE /\ s11' = s11 \cup IF s1 = "half" /\ s2 = {w} THEN {"between"} ELSE {}
              /\ s9' = s9
  BY DEF AppLife!ServeEnded, AppLife!CondExit, AppLife!HasMain, AppLife!Available
<1>1. /\ s4' \in Seq(AppIdleType) /\ AppOrdered(s4') /\ Once(s4', AppDexit)
         /\ Once(s4', AppDestroy)
      /\ (Has(s4', AppDexit) <=> Has(s4, AppDexit))
      /\ (Has(s4', AppDestroy) => Has(s4, AppDestroy))
  <2>1. AppLife!Ended(w) # AppDexit
    BY DEF AppLife!Ended, AppDexit, AppLife!Source
  <2> QED BY <1>0, <2>1, AppServed
<1>2. /\ ~AppBare(s9) /\ (s9 # <<>> => s9[Len(s9)].asking # "")
      /\ (~s6 => ~AppExitIn(s9))
  BY <1>0, AppQuiet
<1>3. /\ s1 # "deleting" /\ (s1 = "open" => "main" \in s2') /\ s2' \subseteq s2
  BY <1>0 DEF AppLife!Free, AppInv, AppDeleting, AppBounds
<1>4. s3' \in [Windows -> AppStages] /\ AppOpenWindows' \subseteq AppOpenWindows
  <2>1. s3' \in [Windows -> AppStages] /\ \A v \in Windows : s3'[v] = "open" => s3[v] = "open"
    BY <1>0 DEF AppInv, AppTyped, AppStages
  <2> QED BY <1>3, <2>1 DEF AppOpenWindows
<1>5. AppLife!Frame("exit", {}) \in AppFrameType
  BY DEF AppLife!Frame, AppFrameType
<1>6. s9 \in Seq(AppFrameType) /\ Len(s9) \in Nat /\ AppAsking(s9)
      /\ s1 \in {"none", "open", "half"}
  BY <1>3 DEF AppInv, AppTyped
<1>7. CASE s2' = {} /\ s1 = "none" /\ s5 # "shown"
  <2>1. s9' = Append(s9, AppLife!Frame("exit", {})) /\ s11' = s11
    BY <1>0, <1>7
  <2>2. /\ s9' \in Seq(AppFrameType) /\ Len(s9') = Len(s9) + 1 /\ AppBare(s9')
        /\ AppAsking(s9') /\ AppExitIn(s9')
        /\ (~AppExitIn(s9) => AppSilent(s9', s2' \cap s8'))
    BY <1>2, <1>5, <1>6, <2>1, AppPushed DEF AppLife!Frame
  <2>3. AppTyped'
    BY <1>0, <1>1, <1>3, <1>4, <2>1, <2>2 DEF AppInv, AppTyped
  <2>4. AppDeleting'
    BY <1>0, <1>1, <1>3, <1>7 DEF AppInv, AppDeleting
  <2>5. AppDepth'
    <3>1. Len(s9) <= MaxLoops + 1 /\ (Has(s4', AppDexit) => Len(s9) <= MaxLoops)
      BY <1>1, <1>2 DEF AppInv, AppDepth
    <3>2. MaxLoops \in Nat
      BY AppLoopsBound
    <3>3. Len(s9') <= MaxLoops + 2 /\ (Has(s4', AppDexit) => Len(s9') <= MaxLoops + 1)
      BY <1>6, <2>2, <3>1, <3>2
    <3> QED BY <2>2, <3>3 DEF AppDepth
  <2>6. AppSeen' /\ AppUnasked' /\ AppLife!ExitFaults'
    BY <1>0, <1>2, <2>2 DEF AppInv, AppSeen, AppUnasked, AppLife!ExitFaults
  <2>7. AppVisited'
    <3>1. AppOpenWindows' = {}
      BY <1>7 DEF AppOpenWindows
    <3>2. AppBefore(s9', {})
      BY DEF AppBefore
    <3> QED BY <3>1, <3>2 DEF AppVisited
  <2> QED BY <2>2, <2>3, <2>4, <2>5, <2>6, <2>7 DEF AppInv
<1>8. CASE ~ (s2' = {} /\ s1 = "none" /\ s5 # "shown")
  <2>1. /\ s9' = s9
        /\ s11' = s11 \cup IF s1 = "half" /\ s2 = {w} THEN {"between"} ELSE {}
    BY <1>0, <1>8
  <2>2. s11' \subseteq AppHistNames /\ s11 \subseteq s11' /\ (s1 = "half"
        /\ s2 = {w} => "between" \in s11')
    BY <2>1 DEF AppInv, AppTyped, AppHistNames
  <2>3. AppTyped'
    BY <1>0, <1>1, <1>3, <1>4, <2>1, <2>2 DEF AppInv, AppTyped
  <2>4. AppDeleting' /\ AppAsking(s9)' /\ AppLife!ExitFaults'
    BY <1>0, <1>1, <1>3, <2>1 DEF AppInv, AppDeleting, AppLife!ExitFaults
  <2>5. AppDepth'
    BY <1>1, <2>1 DEF AppInv, AppDepth
  <2>6. AppSeen'
    <3>1. ASSUME AppUnseen' PROVE AppUnseen
      <4>1. /\ ~s10 /\ s2' = {} /\ s5 # "shown"
            /\ s11' \cap {"start", "dialog", "between", "tray"} = {}
        BY <1>0, <3>1 DEF AppUnseen
      <4>2. s1 = "half" /\ s2 # {w}
        BY <1>3, <1>6, <1>8, <2>2, <4>1
      <4>3. s2 = {}
        BY <1>0, <4>1, <4>2
      <4> QED BY <2>2, <4>1, <4>3 DEF AppUnseen
    <3> QED BY <1>1, <2>1, <3>1 DEF AppInv, AppSeen
  <2>7. AppVisited'
    <3>1. AppTold => AppTold'
      BY <2>2 DEF AppTold
    <3> QED BY <1>0, <1>4, <2>1, <3>1, AppVisitedKept DEF AppInv
  <2>8. AppUnasked'
    BY <1>0, <1>2, <2>1, AppNoExit DEF AppUnasked
  <2> QED BY <2>3, <2>4, <2>5, <2>6, <2>7, <2>8 DEF AppInv
<1> QED BY <1>7, <1>8

\* What an exit begins with: every window, without a question.
LEMMA AppExitFrameIs ==
    ASSUME AppTyped
    PROVE  /\ AppLife!ExitFrame \in AppFrameType /\ AppLife!ExitFrame.kind = "exit"
              /\ AppLife!ExitFrame.asking = ""
           /\ AppLife!ExitFrame.rest = s2 \cap Windows
           /\ AppOpenWindows \subseteq AppLife!ExitFrame.rest \cup {AppLife!ExitFrame.asking}
<1>1. /\ AppLife!ExitFrame = [kind |-> "exit", asking |-> "", rest |-> s2 \cap Windows]
  BY DEF AppLife!ExitFrame, AppLife!Frame
<1>2. AppLife!ExitFrame \in AppFrameType
  BY <1>1 DEF AppFrameType
<1> QED BY <1>1, <1>2 DEF AppOpenWindows

\* The source that looks whether to exit, and the one that frees the main window.
LEMMA AppServeDexitStep == ASSUME AppBounds, AppInv, AppLife!ServeDexit PROVE AppInv'
<1>0. /\ UNCHANGED <<s1, s2, s3, s5, s6, s7, s8, s10, s11, s12>>
      /\ s4 # <<>> /\ AppLife!Free /\ Head(s4) = AppDexit /\ s4' = Tail(s4)
      /\ IF s6 \/ (s2 = {} /\ s5 # "shown")
         THEN s9' = Append(s9, AppLife!ExitFrame) ELSE s9' = s9
  BY DEF AppLife!ServeDexit, AppDexit, AppLife!Available
<1>1. /\ s4' \in Seq(AppIdleType) /\ AppOrdered(s4') /\ Once(s4', AppDexit)
         /\ Once(s4', AppDestroy)
      /\ ~Has(s4', AppDexit)
      /\ (Has(s4', AppDestroy) => Has(s4, AppDestroy))
  BY <1>0, AppServed
<1>2. /\ ~AppBare(s9) /\ (s9 # <<>> => s9[Len(s9)].asking # "")
      /\ (~s6 => ~AppExitIn(s9))
  BY <1>0, AppQuiet
<1>3. s1 # "deleting" /\ AppTyped /\ AppOpenWindows' = AppOpenWindows /\ (AppTold <=> AppTold')
  BY <1>0 DEF AppLife!Free, AppInv, AppOpenWindows, AppTold
<1>4. s9 \in Seq(AppFrameType) /\ Len(s9) \in Nat /\ AppAsking(s9)
  BY DEF AppInv, AppTyped
<1>5. Has(s4, AppDexit)
  <2>1. s4 \in Seq(AppIdleType)
    BY DEF AppInv, AppTyped
  <2> QED BY <1>0, <2>1, TailHas
<1>6. AppDeleting'
  BY <1>0, <1>1, <1>3 DEF AppInv, AppDeleting
<1>7. CASE s6 \/ (s2 = {} /\ s5 # "shown")
  <2>1. s9' = Append(s9, AppLife!ExitFrame)
    BY <1>0, <1>7
  <2>2. /\ s9' \in Seq(AppFrameType) /\ Len(s9') = Len(s9) + 1
        /\ AppAsking(s9') /\ AppExitIn(s9')
        /\ (AppBefore(s9, AppOpenWindows) => AppBefore(s9', AppOpenWindows'))
        /\ (~s6 => AppSilent(s9', s2' \cap s8'))
    <3>1. ~s6 => AppLife!ExitFrame.rest = {} 
      BY <1>7, AppExitFrameIs, <1>3
    <3> QED BY <1>0, <1>2, <1>3, <1>4, <2>1, <3>1, AppPushed, AppExitFrameIs
  <2>3. AppTyped'
    BY <1>0, <1>1, <2>2 DEF AppInv, AppTyped
  <2>4. AppDepth'
    <3>1. Len(s9) <= MaxLoops
      BY <1>2, <1>5 DEF AppInv, AppDepth
    <3>2. MaxLoops \in Nat
      BY AppLoopsBound
    <3>3. Len(s9') <= MaxLoops + 2 /\ Len(s9') <= MaxLoops + 1
      BY <1>4, <2>2, <3>1, <3>2
    <3> QED BY <1>1, <3>3 DEF AppDepth
  <2>5. AppSeen' /\ AppUnasked' /\ AppLife!ExitFaults'
    BY <1>0, <2>2 DEF AppInv, AppSeen, AppUnasked, AppLife!ExitFaults
  <2>6. AppVisited'
    BY <1>0, <1>3, <2>2 DEF AppInv, AppVisited
  <2> QED BY <1>6, <2>2, <2>3, <2>4, <2>5, <2>6 DEF AppInv
<1>8. CASE ~ (s6 \/ (s2 = {} /\ s5 # "shown"))
  <2>1. s9' = s9
    BY <1>0, <1>8
  <2>2. AppTyped' /\ AppAsking(s9)'
    BY <1>0, <1>1, <2>1 DEF AppInv, AppTyped
  <2>3. AppDepth'
    BY <1>1, <2>1 DEF AppInv, AppDepth
  <2>4. AppSeen' /\ AppUnasked' /\ AppLife!ExitFaults'
    BY <1>0, <1>8, <2>1 DEF AppInv, AppSeen, AppUnseen, AppUnasked, AppLife!ExitFaults
  <2>5. AppVisited'
    BY <1>0, <1>3, <2>1, AppVisitedKept DEF AppInv
  <2> QED BY <1>6, <2>2, <2>3, <2>4, <2>5 DEF AppInv
<1> QED BY <1>7, <1>8

\* The idle source that frees the main window.
LEMMA AppServeDestroyStep == ASSUME AppBounds, AppInv, AppLife!ServeDestroy PROVE AppInv'
<1>0. /\ UNCHANGED <<s2, s3, s5, s6, s7, s8, s9, s10, s11, s12>>
      /\ s4 # <<>> /\ AppLife!Free /\ Head(s4) = AppDestroy /\ s4' = Tail(s4)
      /\ s1' = IF s1 = "half" THEN "none" ELSE s1
  BY DEF AppLife!ServeDestroy, AppDestroy
<1>1. /\ s4' \in Seq(AppIdleType) /\ AppOrdered(s4') /\ Once(s4', AppDexit)
         /\ Once(s4', AppDestroy)
      /\ ~Has(s4, AppDexit) /\ ~Has(s4', AppDexit) /\ ~Has(s4', AppDestroy)
  BY <1>0, AppServed
<1>2. /\ s1' \in {"none", "open", "half"} /\ (s1' = "open" => s1 = "open")
  BY <1>0 DEF AppLife!Free, AppInv, AppTyped
<1>3. AppTyped'
  BY <1>0, <1>1, <1>2 DEF AppInv, AppTyped
<1>4. AppDeleting'
  BY <1>0, <1>1, <1>2 DEF AppInv, AppDeleting
<1>5. AppDepth' /\ AppAsking(s9)' /\ AppUnasked' /\ AppLife!ExitFaults'
  BY <1>0, <1>1 DEF AppInv, AppDepth, AppUnasked, AppLife!ExitFaults
<1>6. AppSeen'
  BY <1>0, <1>1 DEF AppInv, AppSeen, AppUnseen
<1>7. AppVisited'
  <2>1. AppOpenWindows' \subseteq AppOpenWindows /\ (AppTold => AppTold')
    BY <1>0 DEF AppOpenWindows, AppTold
  <2> QED BY <1>0, <2>1, AppVisitedKept DEF AppInv
<1> QED BY <1>3, <1>4, <1>5, <1>6, <1>7 DEF AppInv

\* The user closes a window, which may ask.
LEMMA AppCloseWindowStep == ASSUME AppBounds, AppInv, NEW w \in Windows,
   AppLife!CloseWindow(w) PROVE AppInv'
<1>0. /\ UNCHANGED <<s1, s2, s4, s5, s6, s7, s8, s10, s11, s12>>
      /\ s9 = <<>> /\ s1 # "deleting"
      /\ IF AppLife!Asks(w)
         THEN /\ s9' = Append(s9, [AppLife!Frame("delete", {}) EXCEPT !.asking = w])
              /\ s3' = s3
         ELSE s3' = AppLife!Closed(w) /\ s9' = s9
  BY DEF AppLife!CloseWindow, AppLife!UserFree, AppLife!Free
<1>1. /\ ~AppBare(s9) /\ ~AppExitIn(s9) /\ Len(s9) = 0 /\ AppAsking(s9)
      /\ s9 \in Seq(AppFrameType)
  BY <1>0 DEF AppBare, AppExitIn, AppAsking
<1> DEFINE f == [AppLife!Frame("delete", {}) EXCEPT !.asking = w]
<1>2. f \in AppFrameType /\ f.kind = "delete" /\ f.asking = w /\ w # ""
  BY DEF AppLife!Frame, AppFrameType, AppBounds
<1> HIDE DEF f
<1>3. CASE AppLife!Asks(w)
  <2>1. s9' = Append(s9, f) /\ s3' = s3
    BY <1>0, <1>3 DEF f
  <2>2. /\ s9' \in Seq(AppFrameType) /\ Len(s9') = Len(s9) + 1 /\ AppAsking(s9')
        /\ ~AppExitIn(s9')
    BY <1>0, <1>1, <1>2, <2>1, AppPushed
  <2>3. AppTyped'
    BY <1>0, <2>1, <2>2 DEF AppInv, AppTyped
  <2>4. AppDeleting'
    BY <1>0 DEF AppInv, AppDeleting
  <2>5. AppDepth'
    <3>1. Len(s9') = 1 /\ 1 <= MaxLoops /\ 1 <= MaxLoops + 1 /\ 1 <= MaxLoops + 2
      BY <1>1, <2>2, AppLoopsBound
    <3> QED BY <3>1 DEF AppDepth
  <2>6. AppUnasked' /\ AppLife!ExitFaults'
    BY <1>0, <2>2, AppNoExit DEF AppInv, AppUnasked, AppLife!ExitFaults
  <2>7. AppSeen'
    BY <1>0, <1>1, <2>1 DEF AppInv, AppSeen, AppUnseen
  <2>8. AppVisited'
    <3>1. AppOpenWindows' = AppOpenWindows /\ (AppTold <=> AppTold')
      BY <1>0, <2>1 DEF AppOpenWindows, AppTold
    <3> QED BY <1>0, <2>2, <3>1, AppNoExit DEF AppInv, AppVisited
  <2> QED BY <2>2, <2>3, <2>4, <2>5, <2>6, <2>7, <2>8 DEF AppInv
<1>4. CASE ~AppLife!Asks(w)
  <2>1. s9' = s9 /\ s3' = AppLife!Closed(w)
    BY <1>0, <1>4
  <2>2. s3' \in [Windows -> AppStages] /\ \A v \in Windows : s3'[v] = "open" => s3[v] = "open"
    BY <2>1 DEF AppInv, AppTyped, AppStages, AppLife!Closed
  <2>3. AppTyped'
    BY <1>0, <2>1, <2>2 DEF AppInv, AppTyped
  <2>4. AppDeleting' /\ AppDepth' /\ AppAsking(s9)' /\ AppUnasked' /\ AppLife!ExitFaults'
    BY <1>0, <2>1 DEF AppInv, AppDeleting, AppDepth, AppUnasked, AppLife!ExitFaults
  <2>5. AppSeen'
    BY <1>0, <2>1 DEF AppInv, AppSeen, AppUnseen
  <2>6. AppVisited'
    <3>1. AppOpenWindows' \subseteq AppOpenWindows /\ (AppTold => AppTold')
      BY <1>0, <2>2 DEF AppOpenWindows, AppTold
    <3> QED BY <1>0, <2>1, <3>1, AppVisitedKept DEF AppInv
  <2> QED BY <2>3, <2>4, <2>5, <2>6 DEF AppInv
<1> QED BY <1>3, <1>4

\* The questions stay few.
LEMMA AppDeep ==
    ASSUME AppBounds, AppTyped, AppDepth, ~AppBare(s9), s4' = s4, s9' \in Seq(AppFrameType),
           Len(s9') <= MaxLoops \/ Len(s9') = Len(s9) \/ Len(s9') = Len(s9) - 1
    PROVE  AppDepth'
<1>1. Len(s9) \in Nat /\ Len(s9') \in Nat /\ MaxLoops \in Nat
  BY AppLoopsBound DEF AppTyped
<1>2. Len(s9) <= MaxLoops + 1 /\ (Has(s4, AppDexit) => Len(s9) <= MaxLoops)
  BY DEF AppDepth
<1>3. Len(s9') <= MaxLoops + 1 /\ (Has(s4, AppDexit) => Len(s9') <= MaxLoops)
  BY <1>1, <1>2
<1>4. Len(s9') <= MaxLoops + 2 /\ (Has(s4, AppDexit) => Len(s9') <= MaxLoops + 1)
  BY <1>1, <1>3
<1> QED BY <1>3, <1>4 DEF AppDepth

\* An exit begins on top of the questions in s: none of its windows asks any more.
LEMMA AppExitBegins ==
    ASSUME AppBounds, AppInv, NEW s \in Seq(AppFrameType), AppAsking(s), s # <<>>
           => s[Len(s)].asking # "",
           ~s6 => ~AppExitIn(s), AppExitIn(s9)
              => AppExitIn(s), AppBefore(s9, AppOpenWindows) => AppBefore(s, AppOpenWindows),
           Len(s) + 1 <= MaxLoops \/ Len(s) + 1 = Len(s9),
           ~AppBare(s9), s1 # "deleting",
           s9' = Append(s, AppLife!ExitFrame), s8' = s8 \cup (s2 \cap Windows),
           UNCHANGED <<s1, s2, s3, s4, s5, s6, s7, s10, s11, s12>>
    PROVE  AppInv'
<1>1. /\ AppLife!ExitFrame \in AppFrameType /\ AppLife!ExitFrame.kind = "exit"
         /\ AppLife!ExitFrame.asking = ""
      /\ AppLife!ExitFrame.rest \subseteq s2' \cap s8'
      /\ AppOpenWindows \subseteq AppLife!ExitFrame.rest \cup {AppLife!ExitFrame.asking}
  BY AppExitFrameIs DEF AppInv
<1>2. /\ s9' \in Seq(AppFrameType) /\ Len(s9') = Len(s) + 1 /\ AppAsking(s9') /\ AppExitIn(s9')
      /\ (AppBefore(s9, AppOpenWindows) => AppBefore(s9', AppOpenWindows))
      /\ (~s6 => AppSilent(s9', s2' \cap s8'))
  BY <1>1, AppPushed
<1>3. AppOpenWindows' = AppOpenWindows /\ (AppTold <=> AppTold')
  BY DEF AppOpenWindows, AppTold
<1>4. s8' \subseteq Windows
  BY DEF AppInv, AppTyped
<1>5. AppTyped'
  BY <1>2, <1>4 DEF AppInv, AppTyped
<1>6. AppDeleting'
  BY DEF AppInv, AppDeleting
<1>7. AppDepth'
  <2>1. Len(s9') <= MaxLoops \/ Len(s9') = Len(s9)
    BY <1>2
  <2> QED BY <1>2, <2>1, AppDeep DEF AppInv
<1>8. AppSeen' /\ AppUnasked' /\ AppLife!ExitFaults'
  BY <1>2 DEF AppInv, AppSeen, AppUnasked, AppLife!ExitFaults
<1>9. AppVisited'
  BY <1>2, <1>3 DEF AppInv, AppVisited
<1> QED BY <1>2, <1>5, <1>6, <1>7, <1>8, <1>9 DEF AppInv

\* The user quits, and may be asked first.
LEMMA AppQuitStep == ASSUME AppBounds, AppInv, AppLife!QuitByIcon \/ AppLife!Quit PROVE AppInv'
<1>0. /\ UNCHANGED <<s1, s2, s3, s4, s5, s6, s7, s10, s11, s12>>
      /\ AppLife!Free /\ Len(s9) < MaxLoops
      /\ \/ /\ s9' = Append(s9, [AppLife!Frame("quit", {}) EXCEPT !.asking = "quit"])
            /\ s8' = s8
         \/ s9' = Append(s9, AppLife!ExitFrame) /\ s8' = s8 \cup (s2 \cap Windows)
  BY DEF AppLife!QuitByIcon, AppLife!Quit
<1>1. /\ ~AppBare(s9) /\ (s9 # <<>> => s9[Len(s9)].asking # "")
      /\ (~s6 => ~AppExitIn(s9))
  BY <1>0, AppQuiet
<1>2. /\ s9 \in Seq(AppFrameType) /\ AppAsking(s9) /\ s1 # "deleting"
      /\ Len(s9) + 1 <= MaxLoops /\ Len(s9) \in Nat
  <2>1. s9 \in Seq(AppFrameType)
    BY DEF AppInv, AppTyped
  <2>2. Len(s9) \in Nat /\ MaxLoops \in Nat
    BY <2>1, AppLoopsBound
  <2>3. Len(s9) + 1 <= MaxLoops
    BY <1>0, <2>2
  <2> QED BY <1>0, <2>1, <2>2, <2>3 DEF AppInv, AppLife!Free
<1> DEFINE f == [AppLife!Frame("quit", {}) EXCEPT !.asking = "quit"]
<1>3. f \in AppFrameType /\ f.kind = "quit" /\ f.asking = "quit"
  BY DEF AppLife!Frame, AppFrameType
<1> HIDE DEF f
<1>4. CASE s9' = Append(s9, f) /\ s8' = s8
  <2>1. /\ s9' \in Seq(AppFrameType) /\ Len(s9') = Len(s9) + 1 /\ AppAsking(s9')
        /\ (AppExitIn(s9') <=> AppExitIn(s9))
        /\ (AppBefore(s9, AppOpenWindows) => AppBefore(s9', AppOpenWindows))
    BY <1>1, <1>2, <1>3, <1>4, AppPushed
  <2>2. AppTyped'
    BY <1>0, <1>4, <2>1 DEF AppInv, AppTyped
  <2>3. AppDeleting'
    BY <1>0, <1>2 DEF AppInv, AppDeleting
  <2>4. AppDepth'
    BY <1>0, <1>2, <2>1, AppLoopsBound DEF AppDepth
  <2>5. AppUnasked' /\ AppLife!ExitFaults'
    BY <1>0, <1>1, <2>1, AppNoExit DEF AppInv, AppUnasked, AppLife!ExitFaults
  <2>6. AppSeen'
    BY <1>0, <2>1 DEF AppInv, AppSeen, AppUnseen
  <2>7. AppVisited'
    <3>1. AppOpenWindows' = AppOpenWindows /\ (AppTold <=> AppTold')
      BY <1>0 DEF AppOpenWindows, AppTold
    <3> QED BY <1>0, <2>1, <3>1 DEF AppInv, AppVisited
  <2> QED BY <2>1, <2>2, <2>3, <2>4, <2>5, <2>6, <2>7 DEF AppInv
<1>5. CASE s9' = Append(s9, AppLife!ExitFrame) /\ s8' = s8 \cup (s2 \cap Windows)
  BY <1>0, <1>1, <1>2, <1>5, AppExitBegins
<1> QED BY <1>0, <1>4, <1>5 DEF f

\* The connection of a window that closes is not open any more.
LEMMA AppClosedIs ==
    ASSUME AppTyped, NEW w \in Windows
    PROVE  /\ AppLife!Closed(w) \in [Windows -> AppStages] /\ AppLife!Closed(w)[w] # "open"
           /\ \A v \in Windows : AppLife!Closed(w)[v] = "open" => s3[v] = "open"
<1>1. s3 \in [Windows -> AppStages]
  BY DEF AppTyped
<1>2. CASE s3[w] = "open"
  BY <1>1, <1>2 DEF AppLife!Closed, AppStages
<1>3. CASE s3[w] # "open"
  BY <1>1, <1>3 DEF AppLife!Closed
<1> QED BY <1>2, <1>3

\* An exit takes the next of its windows.
LEMMA AppCloseWidgetStep == ASSUME AppBounds, AppInv, AppLife!CloseWidget PROVE AppInv'
<1> DEFINE n == s9[Len(s9)]
           p == SubSeq(s9, 1, Len(s9) - 1)
<1>0. /\ UNCHANGED <<s1, s2, s4, s5, s6, s7, s8, s10, s11>>
      /\ ~s12 /\ s9 # <<>> /\ n.kind = "exit" /\ n.asking = "" /\ n.rest # {}
  BY DEF AppLife!CloseWidget, AppLife!Top
<1>1. PICK w \in n.rest :
        IF w \notin s2 THEN s12' = TRUE /\ UNCHANGED <<s3, s9>>
        ELSE /\ s9' = Append(p, [n EXCEPT !.rest = n.rest \ {w},
                                             !.asking = IF AppLife!Asks(w) THEN w ELSE ""])
             /\ s3' = IF AppLife!Asks(w) THEN s3 ELSE AppLife!Closed(w)
             /\ s12' = s12
  BY DEF AppLife!CloseWidget, AppLife!Top, AppLife!Pop
<1>2. /\ s9 \in Seq(AppFrameType) /\ n \in AppFrameType /\ p \in Seq(AppFrameType)
      /\ Len(p) + 1 = Len(s9) /\ Len(s9) \in Nat
      /\ AppAsking(p) /\ (p # <<>> => p[Len(p)].asking # "")
      /\ \A o : AppBefore(s9, o) => AppBefore(p, o) /\ o \subseteq n.rest \cup {n.asking}
      /\ \A o : AppSilent(s9, o) => ~AppExitIn(p) /\ n.rest \subseteq o
  <2>1. s9 \in Seq(AppFrameType) /\ AppAsking(s9)
    BY DEF AppInv, AppTyped
  <2>2. Len(s9) \in Nat
    BY <2>1
  <2> QED BY <1>0, <2>1, <2>2, AppPopped
<1>3. ~AppBare(s9)
  BY <1>0 DEF AppBare
<1> HIDE DEF n, p
<1>4. s1 # "deleting" /\ w \in Windows /\ w # ""
  BY <1>0, <1>2 DEF AppInv, AppDeleting, AppFrameType, AppBounds
<1>5. AppDeleting'
  <2>1. s1' # "deleting"
    BY <1>0, <1>4
  <2> QED BY <1>0, <2>1 DEF AppInv, AppDeleting
<1>6. ~s6 => w \in s2 /\ w \in s8
  BY <1>2 DEF AppInv, AppUnasked
<1>7. CASE w \notin s2
  <2>1. s12' = TRUE /\ UNCHANGED <<s3, s9>>
    BY <1>1, <1>7
  <2>2. AppTyped' /\ AppAsking(s9)' /\ AppDepth' /\ AppUnasked'
    BY <1>0, <2>1 DEF AppInv, AppTyped, AppDepth, AppUnasked
  <2>3. AppLife!ExitFaults' /\ AppSeen'
    BY <1>0, <1>6, <1>7, <2>1 DEF AppInv, AppLife!ExitFaults, AppSeen, AppUnseen
  <2>4. AppVisited'
    <3>1. AppOpenWindows' \subseteq AppOpenWindows /\ (AppTold => AppTold')
      BY <1>0, <2>1 DEF AppOpenWindows, AppTold
    <3> QED BY <1>0, <2>1, <3>1, AppVisitedKept DEF AppInv
  <2> QED BY <1>5, <2>2, <2>3, <2>4 DEF AppInv
<1>8. CASE w \in s2
  <2> DEFINE f == [n EXCEPT !.rest = n.rest \ {w}, !.asking = IF AppLife!Asks(w) THEN w ELSE ""]
  <2>1. s9' = Append(p, f) /\ s12' = s12
        /\ s3' = IF AppLife!Asks(w) THEN s3 ELSE AppLife!Closed(w)
    BY <1>1, <1>8
  <2>2. /\ f \in AppFrameType /\ f.kind = "exit" /\ f.rest = n.rest \ {w}
        /\ f.asking = IF AppLife!Asks(w) THEN w ELSE ""
    BY <1>0, <1>2, <1>4 DEF AppFrameType
  <2> HIDE DEF f
  <2>3. /\ s3' \in [Windows -> AppStages] /\ AppOpenWindows' \subseteq AppOpenWindows
        /\ (~AppLife!Asks(w) => w \notin AppOpenWindows')
    <3>1. CASE AppLife!Asks(w)
      <4>1. s3' = s3
        BY <2>1, <3>1
      <4> QED BY <1>0, <3>1, <4>1 DEF AppInv, AppTyped, AppOpenWindows
    <3>2. CASE ~AppLife!Asks(w)
      <4>1. s3' = AppLife!Closed(w)
        BY <2>1, <3>2
      <4>2. /\ s3' \in [Windows -> AppStages] /\ s3'[w] # "open"
            /\ \A v \in Windows : s3'[v] = "open" => s3[v] = "open"
        BY <1>4, <4>1, AppClosedIs DEF AppInv
      <4> QED BY <1>0, <4>2 DEF AppOpenWindows
    <3> QED BY <3>1, <3>2
  <2>4. ASSUME AppBefore(s9, AppOpenWindows)
        PROVE  AppBefore(p, AppOpenWindows') /\ AppOpenWindows' \subseteq f.rest \cup {f.asking}
    <3>1. AppBefore(p, AppOpenWindows) /\ AppOpenWindows \subseteq n.rest \cup {n.asking}
      BY <1>2, <2>4
    <3>2. "" \notin AppOpenWindows
      BY DEF AppOpenWindows, AppBounds
    <3>3. AppOpenWindows' \subseteq n.rest
      BY <1>0, <2>3, <3>1, <3>2
    <3>4. CASE AppLife!Asks(w)
      BY <2>2, <2>3, <3>1, <3>3, <3>4, AppFewer
    <3>5. CASE ~AppLife!Asks(w)
      BY <2>2, <2>3, <3>1, <3>3, <3>5, AppFewer
    <3> QED BY <3>4, <3>5
  <2>5. /\ s9' \in Seq(AppFrameType) /\ Len(s9') = Len(s9) /\ AppAsking(s9') /\ AppExitIn(s9')
        /\ (AppBefore(s9, AppOpenWindows) => AppBefore(s9', AppOpenWindows'))
    <3>1. /\ s9' \in Seq(AppFrameType) /\ Len(s9') = Len(p) + 1 /\ AppAsking(s9')
          /\ AppExitIn(s9')
          /\ (AppBefore(s9, AppOpenWindows) => AppBefore(s9', AppOpenWindows'))
      BY <1>2, <2>1, <2>2, <2>4, AppPushed
    <3> QED BY <1>2, <3>1
  <2>6. AppTyped'
    BY <1>0, <2>1, <2>3, <2>5 DEF AppInv, AppTyped
  <2>7. AppDepth'
    BY <1>0, <1>3, <2>5, AppDeep DEF AppInv
  <2>8. AppSeen' /\ AppLife!ExitFaults'
    BY <1>0, <2>1, <2>5 DEF AppInv, AppSeen, AppLife!ExitFaults
  <2>9. AppVisited'
    BY <1>0, <2>3, <2>5 DEF AppInv, AppVisited, AppTold
  <2>10. AppUnasked'
    <3>1. ASSUME ~s6 PROVE AppSilent(s9', s2 \cap s8)
      <4>1. ~AppExitIn(p) /\ n.rest \subseteq s2 \cap s8
        BY <1>2, <3>1 DEF AppInv, AppUnasked
      <4>2. ~AppLife!Asks(w)
        BY <1>6, <3>1 DEF AppLife!Asks
      <4>3. f.asking = "" /\ f.rest \subseteq s2 \cap s8
        BY <2>2, <4>1, <4>2
      <4> QED BY <1>2, <2>1, <2>2, <4>1, <4>3, AppPushed
    <3> QED BY <1>0, <3>1 DEF AppUnasked
  <2> QED BY <1>5, <2>5, <2>6, <2>7, <2>8, <2>9, <2>10 DEF AppInv
<1> QED BY <1>7, <1>8

\* An exit is at its end: the program quits.
LEMMA AppExitEndsStep == ASSUME AppBounds, AppInv, AppLife!ExitEnds PROVE AppInv'
<1> DEFINE n == s9[Len(s9)]
           p == SubSeq(s9, 1, Len(s9) - 1)
<1>0. /\ UNCHANGED <<s3, s4, s6, s7, s8, s11, s12>>
      /\ ~s12 /\ s9 # <<>> /\ n.kind = "exit" /\ n.asking = "" /\ n.rest = {}
      /\ s1' = "none" /\ s2' = s2 \ {"main"} /\ s5' = "none" /\ s10' = TRUE /\ s9' = p
  BY DEF AppLife!ExitEnds, AppLife!Top, AppLife!Pop
<1>1. s9 \in Seq(AppFrameType) /\ Len(s9) \in Nat /\ AppAsking(s9)
  <2>1. s9 \in Seq(AppFrameType) /\ AppAsking(s9)
    BY DEF AppInv, AppTyped
  <2> QED BY <2>1
<1>2. /\ p \in Seq(AppFrameType) /\ Len(p) = Len(s9) - 1 /\ AppAsking(p) /\ ~AppBare(p)
      /\ \A o : AppBefore(s9, o) => AppBefore(p, o) /\ o \subseteq n.rest \cup {n.asking}
      /\ \A o : AppSilent(s9, o) => ~AppExitIn(p)
  BY <1>0, <1>1, AppPopped
<1> HIDE DEF n, p
<1>3. AppTyped'
  BY <1>0, <1>2 DEF AppInv, AppTyped
<1>4. AppDeleting'
  BY <1>0 DEF AppInv, AppDeleting
<1>5. AppDepth'
  <2>1. Len(s9) <= MaxLoops + 2 /\ (Has(s4, AppDexit) => Len(s9) <= MaxLoops + 1)
    BY DEF AppInv, AppDepth
  <2>2. MaxLoops \in Nat
    BY AppLoopsBound
  <2>3. Len(p) <= MaxLoops + 1 /\ Len(p) <= MaxLoops + 2
        /\ (Has(s4, AppDexit) => Len(p) <= MaxLoops /\ Len(p) <= MaxLoops + 1)
    BY <1>1, <1>2, <2>1, <2>2
  <2> QED BY <1>0, <2>3 DEF AppDepth
<1>6. AppSeen' /\ AppLife!ExitFaults'
  BY <1>0 DEF AppInv, AppSeen, AppUnseen, AppLife!ExitFaults
<1>7. AppUnasked'
  BY <1>0, <1>2, AppNoExit DEF AppInv, AppUnasked
<1>8. AppVisited'
  <2>1. AppOpenWindows' \subseteq AppOpenWindows /\ (AppTold <=> AppTold')
    BY <1>0 DEF AppOpenWindows, AppTold
  <2>2. ASSUME AppBefore(s9, AppOpenWindows) PROVE AppBefore(p, AppOpenWindows')
               /\ AppOpenWindows' = {}
    <3>1. AppBefore(p, AppOpenWindows) /\ AppOpenWindows \subseteq {""}
      BY <1>0, <1>2, <2>2
    <3>2. "" \notin AppOpenWindows
      BY DEF AppOpenWindows, AppBounds
    <3> QED BY <2>1, <3>1, <3>2, AppFewer, ZenonT(30)
  <2> QED BY <1>0, <2>1, <2>2 DEF AppInv, AppVisited
<1> QED BY <1>0, <1>2, <1>3, <1>4, <1>5, <1>6, <1>7, <1>8 DEF AppInv

\* The user answers.
LEMMA AppAnswerStep == ASSUME AppBounds, AppInv, NEW yes \in BOOLEAN,
   AppLife!Answer(yes) PROVE AppInv'
<1> DEFINE n == s9[Len(s9)]
           p == SubSeq(s9, 1, Len(s9) - 1)
           w == n.asking
<1>0. /\ UNCHANGED <<s1, s2, s4, s5, s6, s7, s10>>
      /\ ~s12 /\ s9 # <<>> /\ n.asking # ""
  BY DEF AppLife!Answer, AppLife!Top
<1>1. s9 \in Seq(AppFrameType) /\ Len(s9) \in Nat /\ AppAsking(s9)
  <2>1. s9 \in Seq(AppFrameType) /\ AppAsking(s9)
    BY DEF AppInv, AppTyped
  <2> QED BY <2>1
<1>2. /\ n \in AppFrameType /\ p \in Seq(AppFrameType) /\ Len(p) = Len(s9) - 1 /\ AppAsking(p)
      /\ Len(p) + 1 = Len(s9) /\ Len(s9) \in 1 .. Len(s9)
      /\ (p # <<>> => p[Len(p)].asking # "")
      /\ \A o : AppBefore(s9, o) => AppBefore(p, o)
      /\ (n.kind # "exit" => (AppExitIn(p) <=> AppExitIn(s9)))
      /\ \A o : AppSilent(s9, o) => ~AppExitIn(p) /\ ~AppExitIn(s9)
      /\ \A o : AppBefore(s9, o) /\ n.kind = "exit" => o \subseteq n.rest \cup {w}
  BY <1>0, <1>1, AppPopped
<1>3. ~AppBare(s9)
  BY <1>0 DEF AppBare
<1>4. /\ n.kind = "exit" => s6
      /\ ~s6 => ~AppExitIn(p)
  <2>1. Len(s9) \in 1 .. Len(s9)
    BY <1>2
  <2>2. n.kind = "exit" => AppExitIn(s9)
    BY <2>1 DEF AppExitIn
  <2> QED BY <1>2, <2>2 DEF AppInv, AppUnasked
<1>5. CASE n.kind = "quit"
  <2>1. /\ s9' = IF yes THEN Append(p, AppLife!ExitFrame) ELSE p
        /\ s8' = IF yes THEN s8 \cup (s2 \cap Windows) ELSE s8
        /\ UNCHANGED <<s3, s11, s12>>
    BY <1>5 DEF AppLife!Answer, AppLife!Top, AppLife!Pop
  <2> HIDE DEF n, p, w
  <2>2. s1 # "deleting"
    BY <1>0 DEF AppInv, AppDeleting
  <2>3. CASE yes
    <3>1. s9' = Append(p, AppLife!ExitFrame) /\ s8' = s8 \cup (s2 \cap Windows)
      BY <2>1, <2>3
    <3>2. Len(p) + 1 = Len(s9)
      BY <1>2
    <3>3. AppExitIn(s9) => AppExitIn(p)
      BY <1>2, <1>5
    <3> QED BY <1>0, <1>2, <1>3, <1>4, <2>1, <2>2, <3>1, <3>2, <3>3, AppExitBegins
  <2>4. CASE ~yes
    <3>1. s9' = p /\ s8' = s8
      BY <2>1, <2>4
    <3>2. AppTyped'
      BY <1>0, <1>2, <2>1, <3>1 DEF AppInv, AppTyped
    <3>3. AppDeleting'
      BY <1>0, <2>2 DEF AppInv, AppDeleting
    <3>4. AppDepth'
      BY <1>0, <1>2, <1>3, <3>1, AppDeep DEF AppInv
    <3>5. AppSeen' /\ AppUnasked' /\ AppLife!ExitFaults'
      BY <1>0, <1>2, <1>4, <1>5, <2>1, <3>1, AppNoExit DEF AppInv, AppSeen, AppUnseen,
         AppUnasked, AppLife!ExitFaults
    <3>6. AppVisited'
      <4>1. AppOpenWindows' = AppOpenWindows /\ (AppTold <=> AppTold')
        BY <1>0, <2>1 DEF AppOpenWindows, AppTold
      <4> QED BY <1>0, <1>2, <3>1, <4>1 DEF AppInv, AppVisited
    <3> QED BY <1>2, <3>1, <3>2, <3>3, <3>4, <3>5, <3>6 DEF AppInv
  <2> QED BY <2>3, <2>4
<1>6. s1 # "deleting" /\ (w \in s2 => w \in Windows)
  <2>1. w \in Windows \cup {"", "quit"}
    BY <1>2 DEF AppFrameType
  <2>2. w \in s2 => w \in Windows \cup {"main", "dialog"}
    BY DEF AppInv, AppTyped, AppLife!Pooled
  <2> QED BY <1>0, <2>1, <2>2 DEF AppInv, AppDeleting
<1>7. ASSUME s3' = IF yes /\ w \in s2 THEN AppLife!Closed(w) ELSE s3
      PROVE  /\ s3' \in [Windows -> AppStages] /\ AppOpenWindows' \subseteq AppOpenWindows
             /\ (yes => w \notin AppOpenWindows')
  <2>1. CASE yes /\ w \in s2
    <3>1. /\ s3' \in [Windows -> AppStages] /\ s3'[w] # "open"
          /\ \A v \in Windows : s3'[v] = "open" => s3[v] = "open"
      BY <1>6, <1>7, <2>1, AppClosedIs DEF AppInv
    <3> QED BY <1>0, <3>1 DEF AppOpenWindows
  <2>2. CASE ~ (yes /\ w \in s2)
    BY <1>0, <1>7, <2>2 DEF AppOpenWindows, AppInv, AppTyped
  <2> QED BY <2>1, <2>2
<1>8. CASE n.kind = "delete"
  <2>1. /\ s9' = p /\ s3' = IF yes /\ w \in s2 THEN AppLife!Closed(w) ELSE s3
        /\ UNCHANGED <<s8, s11, s12>>
    BY <1>8 DEF AppLife!Answer, AppLife!Top, AppLife!Pop
  <2>2. s3' \in [Windows -> AppStages] /\ AppOpenWindows' \subseteq AppOpenWindows
    BY <1>7, <2>1
  <2> HIDE DEF n, p, w
  <2>3. AppTyped'
    BY <1>0, <1>2, <2>1, <2>2 DEF AppInv, AppTyped
  <2>4. AppDeleting'
    BY <1>0, <1>6 DEF AppInv, AppDeleting
  <2>5. AppDepth'
    BY <1>0, <1>2, <1>3, <2>1, AppDeep DEF AppInv
  <2>6. AppSeen' /\ AppUnasked' /\ AppLife!ExitFaults'
    BY <1>0, <1>2, <1>4, <1>8, <2>1, AppNoExit DEF AppInv, AppSeen, AppUnseen, AppUnasked,
       AppLife!ExitFaults
  <2>7. AppVisited'
    <3>1. AppTold <=> AppTold'
      BY <2>1 DEF AppTold
    <3>2. AppBefore(s9, AppOpenWindows) => AppBefore(p, AppOpenWindows')
      BY <1>2, <2>2, AppFewer
    <3> QED BY <1>0, <2>1, <2>2, <3>1, <3>2 DEF AppInv, AppVisited
  <2> QED BY <1>2, <2>1, <2>3, <2>4, <2>5, <2>6, <2>7 DEF AppInv
<1>9. CASE n.kind = "exit"
  <2> DEFINE f == [n EXCEPT !.asking = ""]
  <2>1. /\ s9' = Append(p, f) /\ s3' = IF yes /\ w \in s2 THEN AppLife!Closed(w) ELSE s3
        /\ s12' = (yes /\ w \notin s2) /\ s8' = s8
        /\ s11' = s11 \cup IF yes THEN {} ELSE {"refused"}
    BY <1>9 DEF AppLife!Answer, AppLife!Top, AppLife!Pop
  <2>2. /\ s3' \in [Windows -> AppStages] /\ AppOpenWindows' \subseteq AppOpenWindows
        /\ (yes => w \notin AppOpenWindows')
    BY <1>7, <2>1
  <2>3. f \in AppFrameType /\ f.kind = "exit" /\ f.rest = n.rest /\ f.asking = ""
    BY <1>2, <1>9 DEF AppFrameType
  <2>4. s6
    BY <1>4, <1>9
  <2> HIDE DEF n, p, w, f
  <2>5. s11' \subseteq AppHistNames /\ s12' \in BOOLEAN /\ s11 \subseteq s11'
        /\ (~yes => "refused" \in s11')
    <3>1. CASE yes
      BY <2>1, <3>1 DEF AppInv, AppTyped
    <3>2. CASE ~yes
      BY <2>1, <3>2 DEF AppInv, AppTyped, AppHistNames
    <3> QED BY <3>1, <3>2
  <2>6. ASSUME AppBefore(s9, AppOpenWindows), yes
        PROVE  AppBefore(p, AppOpenWindows') /\ AppOpenWindows' \subseteq f.rest \cup {f.asking}
    <3>1. AppBefore(p, AppOpenWindows) /\ AppOpenWindows \subseteq n.rest \cup {w}
      BY <1>2, <1>9, <2>6
    <3>2. AppOpenWindows' \subseteq f.rest
      BY <2>2, <2>3, <2>6, <3>1
    <3> QED BY <2>2, <3>1, <3>2, AppFewer
  <2>7. /\ s9' \in Seq(AppFrameType) /\ Len(s9') = Len(s9) /\ AppAsking(s9') /\ AppExitIn(s9')
        /\ (AppBefore(s9, AppOpenWindows) /\ yes => AppBefore(s9', AppOpenWindows'))
    <3>1. /\ s9' \in Seq(AppFrameType) /\ Len(s9') = Len(p) + 1 /\ AppAsking(s9')
          /\ AppExitIn(s9')
          /\ (AppBefore(s9, AppOpenWindows) /\ yes => AppBefore(s9', AppOpenWindows'))
      BY <1>2, <2>1, <2>3, <2>6, AppPushed
    <3> QED BY <1>1, <1>2, <3>1
  <2>8. AppTyped'
    BY <1>0, <2>1, <2>2, <2>5, <2>7 DEF AppInv, AppTyped
  <2>9. AppDeleting'
    BY <1>0, <1>6 DEF AppInv, AppDeleting
  <2>10. AppDepth'
    BY <1>0, <1>3, <2>7, AppDeep DEF AppInv
  <2>11. AppSeen' /\ AppLife!ExitFaults' /\ AppUnasked'
    BY <1>0, <2>4, <2>7 DEF AppSeen, AppLife!ExitFaults, AppUnasked
  <2>12. AppVisited'
    <3>1. CASE yes
      <4>1. AppTold => AppTold'
        BY <2>5 DEF AppTold
      <4> QED BY <1>0, <2>2, <2>7, <3>1, <4>1 DEF AppInv, AppVisited
    <3>2. CASE ~yes
      BY <2>5, <3>2 DEF AppVisited, AppTold
    <3> QED BY <3>1, <3>2
  <2> QED BY <2>7, <2>8, <2>9, <2>10, <2>11, <2>12 DEF AppInv
<1> QED BY <1>2, <1>5, <1>8, <1>9 DEF AppFrameType

\* The desktop takes the icon away or shows it again.
LEMMA AppConnectionChangedStep == ASSUME AppBounds, AppInv,
   AppLife!ConnectionChanged PROVE AppInv'
<1>0. /\ UNCHANGED <<s1, s2, s3, s4, s6, s7, s8, s9, s10, s12>>
      /\ s5 # "none" /\ s5' = IF s5 = "shown" THEN "hidden" ELSE "shown"
      /\ s11' = IF s5 = "shown" /\ s2 = {} THEN s11 \cup {"tray"} ELSE s11
  BY DEF AppLife!ConnectionChanged
<1>1. s11' \subseteq AppHistNames /\ s11 \subseteq s11' /\ s5' \in {"hidden", "shown"}
  BY <1>0 DEF AppInv, AppTyped, AppHistNames
<1>2. AppTyped'
  BY <1>0, <1>1 DEF AppInv, AppTyped
<1>3. AppDeleting' /\ AppAsking(s9)' /\ AppDepth' /\ AppUnasked' /\ AppLife!ExitFaults'
  BY <1>0 DEF AppInv, AppDeleting, AppDepth, AppUnasked, AppLife!ExitFaults
<1>4. ~AppUnseen' \/ (AppUnseen /\ UNCHANGED <<s9, s4>>)
  <2>1. CASE s5 = "shown"
    BY <1>0, <2>1 DEF AppUnseen
  <2>2. CASE s5 # "shown"
    BY <1>0, <2>2 DEF AppUnseen
  <2> QED BY <2>1, <2>2
<1>5. AppSeen'
  BY <1>4 DEF AppInv, AppSeen
<1>6. AppVisited'
  <2>1. AppOpenWindows' \subseteq AppOpenWindows /\ (AppTold => AppTold')
    BY <1>0, <1>1 DEF AppOpenWindows, AppTold
  <2> QED BY <1>0, <2>1, AppVisitedKept DEF AppInv
<1> QED BY <1>2, <1>3, <1>5, <1>6 DEF AppInv

\* Every event keeps the invariant.
LEMMA AppStepInv == ASSUME AppBounds, AppInv, [AppLife!Next]_(AppLife!vars) PROVE AppInv'
<1>1. CASE UNCHANGED AppLife!vars
  <2>1. UNCHANGED <<s1, s2, s3, s4, s5, s6, s7, s8, s9, s10, s11, s12>>
    BY <1>1 DEF AppLife!vars
  <2>2. AppTyped' /\ AppAsking(s9)' /\ AppDeleting' /\ AppDepth' /\ AppUnasked'
        /\ AppLife!ExitFaults'
    BY <2>1 DEF AppInv, AppTyped, AppDeleting, AppDepth, AppUnasked, AppLife!ExitFaults
  <2>3. AppOpenWindows' = AppOpenWindows /\ (AppTold <=> AppTold') /\ (AppUnseen <=> AppUnseen')
    BY <2>1 DEF AppOpenWindows, AppTold, AppUnseen
  <2> QED BY <2>1, <2>2, <2>3 DEF AppInv, AppSeen, AppVisited
<1>2. CASE AppLife!Next
  BY <1>2, AppWindowStep, AppConnectStep, AppDeleteStep, AppPluginEndsStep,
     AppServeEndedStep, AppServeDexitStep, AppServeDestroyStep, AppCloseWindowStep,
     AppQuitStep, AppCloseWidgetStep, AppExitEndsStep, AppAnswerStep,
     AppConnectionChangedStep DEF AppLife!Next
<1> QED BY <1>1, <1>2

-----------------------------------------------------------------------------
(* The status icon (src/src/remmina_icon.c).                               *)
(* The variables: s1 disabled, s2 dark, s3 icon, s4 autostart_file, s5     *)
(* file, s6 wanted, s7 hist.                                               *)

TrayFileType == [there : BOOLEAN, whole : BOOLEAN, hidden : BOOLEAN]

\* The file stays whole until it is lost.
TrayFileWhole == "lost" \notin s7 => s5.there /\ s5.whole

TrayInv == TrayIcon!TypeOK /\ TrayIcon!IconShown /\ TrayIcon!AutostartMeant /\ TrayFileWhole

\* It holds when the icon is made.
LEMMA TrayInitInv == ASSUME TrayIcon!Init PROVE TrayInv
<1>1. /\ TrayIcon!NoFile \in TrayFileType /\ ~TrayIcon!NoFile.there
      /\ [there |-> TRUE, whole |-> TRUE, hidden |-> FALSE] \in TrayFileType
  BY DEF TrayIcon!NoFile, TrayFileType
<1>2. CASE s5 = TrayIcon!NoFile
  BY <1>1, <1>2 DEF TrayIcon!Init, TrayInv, TrayIcon!TypeOK, TrayFileType,
     TrayIcon!IconShown, TrayIcon!AutostartMeant, TrayFileWhole
<1>3. CASE s5 = [there |-> TRUE, whole |-> TRUE, hidden |-> FALSE]
  <2>1. s5.there /\ s5.whole /\ ~s5.hidden /\ s5 \in TrayFileType
    BY <1>3 DEF TrayFileType
  <2> QED BY <2>1 DEF TrayIcon!Init, TrayInv, TrayIcon!TypeOK, TrayFileType,
     TrayIcon!IconShown, TrayIcon!AutostartMeant, TrayFileWhole, TrayIcon!Starts
<1> QED BY <1>1, <1>2, <1>3 DEF TrayIcon!Init, TrayIcon!create_autostart_file

\* What is written to the file says what was asked for, if the file is known and whole.
LEMMA TrayWritten ==
    ASSUME TrayIcon!TypeOK, NEW b \in BOOLEAN
    PROVE  /\ TrayIcon!set_autostart(b) \in TrayFileType
           /\ TrayIcon!set_autostart(b).there \/ TrayIcon!set_autostart(b) = TrayIcon!NoFile
           /\ s5.there /\ s5.whole => TrayIcon!set_autostart(b).there
              /\ TrayIcon!set_autostart(b).whole
           /\ s4 /\ s5.there /\ s5.whole =>
                 (TrayIcon!set_autostart(b).there /\ TrayIcon!set_autostart(b).whole
                    /\ ~TrayIcon!set_autostart(b).hidden <=> b)
<1>1. s5 \in TrayFileType /\ (s5.there \/ s5 = TrayIcon!NoFile) /\ s5.hidden \in BOOLEAN
      /\ s5.whole \in BOOLEAN
  BY DEF TrayIcon!TypeOK, TrayFileType
<1>2. CASE s4 /\ b = s5.hidden
  <2> DEFINE g == [there |-> TRUE, whole |-> s5.whole, hidden |-> ~b]
  <2>1. TrayIcon!set_autostart(b) = g
    BY <1>2 DEF TrayIcon!set_autostart
  <2>2. g \in TrayFileType /\ g.there /\ g.whole = s5.whole /\ g.hidden = ~b
    BY <1>1 DEF TrayFileType
  <2> HIDE DEF g
  <2> QED BY <1>1, <1>2, <2>1, <2>2
<1>3. CASE ~(s4 /\ b = s5.hidden)
  BY <1>1, <1>3 DEF TrayIcon!set_autostart
<1> QED BY <1>2, <1>3

\* A file that is there is not made anew.
LEMMA TrayCreated ==
    ASSUME NEW f \in TrayFileType, f.there
           \/ f = TrayIcon!NoFile, NEW g \in TrayIcon!create_autostart_file(f)
    PROVE  g \in TrayFileType /\ (g.there \/ g = TrayIcon!NoFile) /\ (f.there => g = f)
<1>1. TrayIcon!NoFile \in TrayFileType
      /\ [there |-> TRUE, whole |-> TRUE, hidden |-> FALSE] \in TrayFileType
      /\ [there |-> TRUE, whole |-> TRUE, hidden |-> FALSE].there
  BY DEF TrayIcon!NoFile, TrayFileType
<1> QED BY <1>1 DEF TrayIcon!create_autostart_file

\* The preferences are closed.
LEMMA TrayPreferencesStep ==
    ASSUME TrayInv, NEW off \in BOOLEAN, NEW black \in BOOLEAN, NEW box \in BOOLEAN,
           TrayIcon!Preferences(off, black, box)
    PROVE  TrayInv'
<1> DEFINE b == ~off /\ box
           f == TrayIcon!set_autostart(b)
<1>1. b \in BOOLEAN
  OBVIOUS
<1> HIDE DEF b
<1>2. /\ f \in TrayFileType /\ (f.there \/ f = TrayIcon!NoFile)
      /\ s5.there /\ s5.whole => f.there /\ f.whole
      /\ s4 /\ s5.there /\ s5.whole => (f.there /\ f.whole /\ ~f.hidden <=> b)
  BY <1>1, TrayWritten DEF TrayInv
<1> HIDE DEF f
<1>3. /\ s1' = off /\ s2' = black /\ s6' = b
      /\ s7' = IF s4 THEN s7 \ {"unnamed"} ELSE s7 \cup {"unnamed"}
      /\ IF off # s1 \/ black # s2
         THEN TrayIcon!icon_init(f, off)
         ELSE s5' = f /\ UNCHANGED <<s3, s4>>
  BY DEF TrayIcon!Preferences, b, f
<1>4. /\ s1 \in BOOLEAN /\ s2 \in BOOLEAN /\ s3 \in {"none", "active", "passive"}
      /\ s4 \in BOOLEAN /\ s7 \in SUBSET {"unnamed", "lost"}
      /\ (s3 = "active" <=> ~s1)
  BY DEF TrayInv, TrayIcon!TypeOK, TrayIcon!IconShown
<1>5. /\ s3' \in {"none", "active", "passive"} /\ s4' \in BOOLEAN
      /\ (s3' = "active" <=> ~off)
      /\ s5' = f \/ (s5' \in TrayIcon!create_autostart_file(f) /\ ~s4)
  BY <1>3, <1>4 DEF TrayIcon!icon_init, TrayIcon!IconFor
<1>6. /\ s5' \in TrayFileType /\ (s5'.there \/ s5' = TrayIcon!NoFile)
      /\ f.there \/ s4 => s5' = f
  BY <1>2, <1>5, TrayCreated
<1>7. s7' \in SUBSET {"unnamed", "lost"} /\ ("lost" \in s7' <=> "lost" \in s7)
      /\ (s7' = {} => s4 /\ "lost" \notin s7)
  BY <1>3, <1>4
<1>8. TrayIcon!TypeOK'
  BY <1>1, <1>3, <1>5, <1>6, <1>7 DEF TrayIcon!TypeOK, TrayFileType
<1>9. TrayIcon!IconShown'
  BY <1>3, <1>5 DEF TrayIcon!IconShown
<1>10. TrayFileWhole'
  BY <1>2, <1>6, <1>7 DEF TrayInv, TrayFileWhole
<1>11. TrayIcon!AutostartMeant'
  BY <1>2, <1>3, <1>6, <1>7 DEF TrayInv, TrayFileWhole, TrayIcon!AutostartMeant,
     TrayIcon!Starts
<1> QED BY <1>8, <1>9, <1>10, <1>11 DEF TrayInv

\* Every step keeps the invariant.
LEMMA TrayStepInv == ASSUME TrayInv, [TrayIcon!Next]_(TrayIcon!vars) PROVE TrayInv'
<1>1. ASSUME NEW off \in BOOLEAN, NEW black \in BOOLEAN, NEW box \in BOOLEAN,
             TrayIcon!Preferences(off, black, box)
      PROVE  TrayInv'
  BY <1>1, TrayPreferencesStep
<1>2. CASE TrayIcon!Restart
  <2>1. /\ s3' = IF s1 THEN "none" ELSE "active"
        /\ s4' \in BOOLEAN /\ UNCHANGED <<s1, s2, s6, s7>>
        /\ s5' = s5 \/ s5' \in TrayIcon!create_autostart_file(s5)
    BY <1>2 DEF TrayIcon!Restart, TrayInv, TrayIcon!TypeOK
  <2>2. /\ s5' \in TrayFileType /\ (s5'.there \/ s5' = TrayIcon!NoFile)
           /\ (s5.there => s5' = s5)
    BY <2>1, TrayCreated DEF TrayInv, TrayIcon!TypeOK, TrayFileType
  <2>3. TrayIcon!TypeOK' /\ TrayIcon!IconShown'
    BY <2>1, <2>2 DEF TrayInv, TrayIcon!TypeOK, TrayFileType, TrayIcon!IconShown
  <2>4. TrayFileWhole' /\ TrayIcon!AutostartMeant'
    BY <2>1, <2>2 DEF TrayInv, TrayIcon!TypeOK, TrayFileWhole, TrayIcon!AutostartMeant,
       TrayIcon!Starts
  <2> QED BY <2>3, <2>4 DEF TrayInv
<1>3. CASE TrayIcon!Remove
  <2>1. TrayIcon!NoFile \in TrayFileType
    BY DEF TrayIcon!NoFile, TrayFileType
  <2> QED BY <1>3, <2>1 DEF TrayIcon!Remove, TrayInv, TrayIcon!TypeOK, TrayFileType,
     TrayIcon!IconShown, TrayFileWhole, TrayIcon!AutostartMeant
<1>4. CASE UNCHANGED TrayIcon!vars
  BY <1>4 DEF TrayIcon!vars, TrayInv, TrayIcon!TypeOK, TrayIcon!IconShown, TrayFileWhole,
     TrayIcon!AutostartMeant, TrayIcon!Starts
<1> QED BY <1>1, <1>2, <1>3, <1>4 DEF TrayIcon!Next

-----------------------------------------------------------------------------
(* The discovered services (src/src/remmina_avahi.c).                      *)
(* The variables: s1 known, s2 up, s3 enabled, s4 ga, s5 queue, s6         *)
(* resolvers, s7 discovered, s8 missed.                                    *)

DiscBounds == MaxMessages \in Nat /\ IsFiniteSet(Places) /\ Cardinality(Places) <= MaxMessages

DiscGaType == [started : BOOLEAN, client : {"none", "running", "failed"}, timer : BOOLEAN]

\* The daemon is there for a client that runs, and before the start there is nothing.
DiscConnected == s4.client = "running" => s2
DiscQuiet == ~s4.started => s7 = {} /\ s4 = Discovery!Off /\ s6 = Discovery!NoResolver
   /\ s5 = <<>>

DiscSays(i, e, p) == s5[i][1] = e /\ s5[i][2] = p

\* What the table has is there, or its removal is on its way.
DiscGone ==
    \A s \in s7 :
        \/ s \in Discovery!There
        \/ \E i \in 1 .. Len(s5), p \in Places : p[1] = s /\ DiscSays(i, "remove", p)

\* So is what a resolver has found.
DiscFoundTrue ==
    \A i \in 1 .. Len(s5), p \in Places :
        DiscSays(i, "found", p) =>
            p \in s1 \/ \E j \in i + 1 .. Len(s5) : DiscSays(j, "remove", p)

\* A message that will have a service resolved, or brings the result.
DiscUnder(s) ==
    \E r \in Places :
        /\ r[1] = s
        /\ \/ s6[r] # 0
           \/ \E i \in 1 .. Len(s5) : \E e \in {"new", "found", "failure"} : DiscSays(i, e, r)

\* What is there is in the table, known to be missed, or on its way.
DiscComing == \A p \in s1 : p[1] \in s7 \/ p[1] \in s8 \/ DiscUnder(p[1])

DiscInv ==
    /\ Discovery!TypeOK /\ DiscConnected /\ DiscQuiet
    /\ Discovery!Browsing => DiscGone /\ DiscFoundTrue /\ DiscComing

\* The module counts as the library does.
LEMMA DiscCardinality == \A S : Discovery!Cardinality(S) = Cardinality(S)
BY DEF Discovery!Cardinality, Cardinality

\* It holds before the client is started.
LEMMA DiscInitInv == ASSUME DiscBounds, Discovery!Init PROVE DiscInv
<1>1. s4 \in DiscGaType /\ ~s4.started /\ s4.client = "none"
  BY DEF Discovery!Init, Discovery!Off, DiscGaType
<1>2. s6 \in [Places -> 0 .. 2]
  <2>1. 0 \in 0 .. 2
    OBVIOUS
  <2> QED BY <2>1 DEF Discovery!Init, Discovery!NoResolver
<1>3. s5 \in Seq(Discovery!Messages) /\ Len(s5) = 0 /\ Len(s5) <= MaxMessages
  BY DiscCardinality DEF Discovery!Init, DiscBounds
<1>4. Discovery!TypeOK
  BY <1>1, <1>2, <1>3 DEF Discovery!Init, Discovery!TypeOK, DiscGaType
<1> QED BY <1>1, <1>4 DEF Discovery!Init, DiscInv, DiscConnected, DiscQuiet,
   Discovery!Browsing

\* The properties follow.
\* The invariant implies the properties.
LEMMA DiscInvMeans == ASSUME DiscInv PROVE Discovery!TypeOK /\ Discovery!TableTrue
   /\ Discovery!OffShowsNothing
<1>1. Discovery!OffShowsNothing
  BY DEF DiscInv, DiscQuiet, Discovery!OffShowsNothing
<1>2. Discovery!TableTrue
  <2>1. SUFFICES ASSUME Discovery!Browsing, s5 = <<>>, s6 = Discovery!NoResolver
                 PROVE  s7 \subseteq Discovery!There /\ Discovery!There \ s7 \subseteq s8
    BY DEF Discovery!TableTrue
  <2>2. DiscGone /\ DiscComing /\ Len(s5) = 0 /\ s1 \subseteq Places
    BY <2>1 DEF DiscInv, Discovery!TypeOK
  <2>3. s7 \subseteq Discovery!There
    BY <2>2 DEF DiscGone
  <2>4. ASSUME NEW s \in Discovery!There, s \notin s7 PROVE s \in s8
    <3>1. PICK p \in s1 : s = p[1]
      BY DEF Discovery!There
    <3>2. ~ DiscUnder(s)
      BY <2>1, <2>2 DEF DiscUnder, Discovery!NoResolver
    <3> QED BY <2>2, <2>4, <3>1, <3>2 DEF DiscComing
  <2> QED BY <2>3, <2>4
<1> QED BY <1>1, <1>2 DEF DiscInv

\* A start tells of every service that is known.
LEMMA DiscStartDoes ==
    ASSUME DiscBounds, DiscInv, ~s4.started,
           NEW order \in Discovery!Injection(1 .. Discovery!Cardinality(s1), s1),
           s5' = [i \in DOMAIN order |-> <<"new", order[i]>>]
    PROVE  /\ s5' \in Seq(Discovery!Messages) /\ Len(s5') <= MaxMessages
           /\ \A i \in 1 .. Len(s5') : s5'[i][1] = "new"
           /\ \A p \in s1 : \E i \in 1 .. Len(s5') : s5'[i][1] = "new" /\ s5'[i][2] = p
<1>1. s1 \subseteq Places /\ s1 \in SUBSET Places
  BY DEF DiscInv, Discovery!TypeOK
<1>2. IsFiniteSet(s1) /\ Discovery!Cardinality(s1) <= Discovery!Cardinality(Places)
  BY DiscCardinality, <1>1, FS_Subset DEF DiscBounds
<1>3. /\ order \in [1 .. Discovery!Cardinality(s1) -> s1]
      /\ \A i, j \in 1 .. Discovery!Cardinality(s1) : i # j => order[i] # order[j]
  BY DEF Discovery!Injection, Discovery!IsInjective
<1>4. /\ Discovery!Cardinality(s1) \in Nat
      /\ \A p \in s1 : \E i \in 1 .. Discovery!Cardinality(s1) : order[i] = p
  <2>1. \A f \in [1 .. Cardinality(s1) -> s1] :
           (\A i, j \in 1 .. Cardinality(s1) : i # j => f[i] # f[j]) =>
              /\ Cardinality(s1) \in Nat
              /\ \A p \in s1 : \E i \in 1 .. Cardinality(s1) : f[i] = p
    BY <1>2, AllListed, ZenonT(30)
  <2> QED BY DiscCardinality, <1>3, <2>1
<1>5. Discovery!Cardinality(Places) \in Nat /\ Discovery!Cardinality(s1) <= MaxMessages
  BY DiscCardinality, <1>2, <1>4, FS_CardinalityType DEF DiscBounds
<1> DEFINE n == Discovery!Cardinality(s1)
<1>6. s5' = [i \in 1 .. n |-> <<"new", order[i]>>]
  BY <1>3
<1> HIDE DEF n
<1>7. ASSUME NEW i \in 1 .. n
      PROVE  /\ <<"new", order[i]>> \in Discovery!Messages
             /\ s5'[i][1] = "new" /\ s5'[i][2] = order[i]
  <2>1. order[i] \in Places
    BY <1>1, <1>3 DEF n
  <2> QED BY <1>6, <2>1 DEF Discovery!Messages
<1>8. s5' \in Seq(Discovery!Messages) /\ Len(s5') = n
  BY <1>4, <1>6, <1>7 DEF n
<1> QED BY <1>4, <1>5, <1>7, <1>8 DEF n

\* The discovery is started or stopped.
LEMMA DiscStartStep ==
    ASSUME DiscBounds, DiscInv, Discovery!start
           \/ Discovery!stop, UNCHANGED <<s1, s2>>, s3' \in BOOLEAN
    PROVE  DiscInv'
<1>0. /\ s4 \in DiscGaType /\ Discovery!Off \in DiscGaType /\ ~Discovery!Off.started
         /\ Discovery!Off.client = "none" /\ ~Discovery!Off.timer
  BY DEF DiscInv, Discovery!TypeOK, DiscGaType, Discovery!Off
<1>1. <<>> \in Seq(Discovery!Messages) /\ Len(<<>>) = 0 /\ 0 <= MaxMessages
  BY DiscCardinality DEF DiscBounds
<1>2. Discovery!NoResolver \in [Places -> 0 .. 2]
  <2>1. 0 \in 0 .. 2
    OBVIOUS
  <2> QED BY <2>1 DEF Discovery!NoResolver
<1>3. CASE Discovery!stop
  <2>1. Discovery!TypeOK'
    BY <1>0, <1>1, <1>2, <1>3 DEF Discovery!stop, DiscInv, Discovery!TypeOK, DiscGaType
  <2> QED BY <1>0, <1>3, <2>1 DEF Discovery!stop, DiscInv, DiscConnected, DiscQuiet,
     Discovery!Browsing
<1>4. CASE Discovery!start /\ s4.started
  <2>1. UNCHANGED <<s4, s5, s6, s7, s8>>
    BY <1>4 DEF Discovery!start
  <2>2. Discovery!There' = Discovery!There
    BY DEF Discovery!There
  <2> QED
    BY <2>1, <2>2 DEF DiscInv, Discovery!TypeOK, DiscConnected, DiscQuiet,
       Discovery!Browsing, DiscGone, DiscFoundTrue, DiscComing, DiscUnder, DiscSays
<1>5. CASE Discovery!start /\ ~s4.started
  <2>1. /\ UNCHANGED <<s6, s7, s8>>
        /\ \/ /\ s4' = [Discovery!Off EXCEPT !.started = TRUE] /\ s5' = s5
           \/ /\ s2 /\ s4' = [started |-> TRUE, client |-> "running", timer |-> FALSE]
              /\ s5' = s5
           \/ /\ s2 /\ s4' = [started |-> TRUE, client |-> "running", timer |-> TRUE]
              /\ \E order \in Discovery!Injection(1 .. Discovery!Cardinality(s1), s1) :
                    s5' = [i \in DOMAIN order |-> <<"new", order[i]>>]
    BY <1>5 DEF Discovery!start
  <2>2. s7 = {}
    BY <1>5 DEF DiscInv, DiscQuiet
  <2>3. s4' \in DiscGaType /\ s4'.started /\ (s4'.client = "running" => s2)
        /\ (s4'.timer /\ s4'.client = "running" =>
              \E order \in Discovery!Injection(1 .. Discovery!Cardinality(s1), s1) :
                    s5' = [i \in DOMAIN order |-> <<"new", order[i]>>])
        /\ (s5' = s5 \/ \E order \in Discovery!Injection(1 .. Discovery!Cardinality(s1), s1) :
                    s5' = [i \in DOMAIN order |-> <<"new", order[i]>>])
    <3>1. CASE s4' = [Discovery!Off EXCEPT !.started = TRUE] /\ s5' = s5
      <4>1. s4' \in DiscGaType /\ s4'.started /\ s4'.client = "none"
        BY <1>0, <3>1 DEF DiscGaType, Discovery!Off
      <4> QED BY <3>1, <4>1
    <3>2. CASE /\ s2 /\ s4' = [started |-> TRUE, client |-> "running", timer |-> FALSE]
               /\ s5' = s5
      <4>1. s4' \in DiscGaType /\ s4'.started /\ ~s4'.timer
        BY <3>2 DEF DiscGaType
      <4> QED BY <3>2, <4>1
    <3>3. CASE /\ s2 /\ s4' = [started |-> TRUE, client |-> "running", timer |-> TRUE]
               /\ \E order \in Discovery!Injection(1 .. Discovery!Cardinality(s1), s1) :
                    s5' = [i \in DOMAIN order |-> <<"new", order[i]>>]
      <4>1. s4' \in DiscGaType /\ s4'.started
        BY <3>3 DEF DiscGaType
      <4> QED BY <3>3, <4>1
    <3> QED BY <2>1, <3>1, <3>2, <3>3
  <2>4. s5' \in Seq(Discovery!Messages) /\ Len(s5') <= MaxMessages
    BY <1>5, <2>3, DiscStartDoes DEF DiscInv, Discovery!TypeOK
  <2>5. Discovery!TypeOK'
    BY <2>1, <2>3, <2>4 DEF DiscInv, Discovery!TypeOK, DiscGaType
  <2>6. ASSUME Discovery!Browsing' PROVE DiscGone' /\ DiscFoundTrue' /\ DiscComing'
    <3>1. /\ \A i \in 1 .. Len(s5') : s5'[i][1] = "new"
          /\ \A p \in s1 : \E i \in 1 .. Len(s5') : s5'[i][1] = "new" /\ s5'[i][2] = p
      BY <1>5, <2>3, <2>6, DiscStartDoes DEF Discovery!Browsing
    <3>2. DiscGone'
      BY <2>1, <2>2 DEF DiscGone
    <3>3. DiscFoundTrue'
      BY <3>1 DEF DiscFoundTrue, DiscSays
    <3>4. ASSUME NEW p \in s1' PROVE DiscUnder(p[1])'
      <4>1. p \in s1 /\ p \in Places
        BY <3>4 DEF DiscInv, Discovery!TypeOK
      <4> QED BY <3>1, <4>1 DEF DiscUnder, DiscSays
    <3> QED BY <3>2, <3>3, <3>4 DEF DiscComing
  <2> QED BY <2>3, <2>5, <2>6 DEF DiscInv, DiscConnected, DiscQuiet
<1> QED BY <1>3, <1>4, <1>5

\* A message that the daemon sends comes last.
LEMMA DiscTellsDoes ==
    ASSUME MaxMessages \in Nat, DiscInv, NEW m \in Discovery!Messages, Discovery!Tells(m)
    PROVE  /\ s5' \in Seq(Discovery!Messages) /\ Len(s5') <= MaxMessages
           /\ ~Discovery!Browsing => s5' = s5
           /\ Discovery!Browsing =>
                 /\ Len(s5') = Len(s5) + 1
                 /\ \A i \in 1 .. Len(s5) : s5'[i] = s5[i]
                 /\ s5'[Len(s5) + 1] = m
           /\ Len(s5) \in Nat
<1>1. s5 \in Seq(Discovery!Messages) /\ Len(s5) \in Nat /\ Len(s5) <= MaxMessages
  BY DEF DiscInv, Discovery!TypeOK
<1>2. CASE Discovery!Browsing
  <2>1. Len(s5) < MaxMessages /\ s5' = Append(s5, m)
    BY <1>2 DEF Discovery!Tells
  <2> QED BY <1>1, <1>2, <2>1
<1>3. CASE ~Discovery!Browsing
  BY <1>1, <1>3 DEF Discovery!Tells
<1> QED BY <1>2, <1>3

\* The daemon learns of a service, or that it is gone, or answers.
LEMMA DiscDaemonStep ==
    ASSUME DiscBounds, DiscInv, NEW p \in Places, Discovery!Announce(p)
           \/ Discovery!Withdraw(p) \/ Discovery!Answer(p)
    PROVE  DiscInv'
<1> USE DEF DiscBounds
<1>0. /\ UNCHANGED <<s2, s3, s4, s7, s8>> /\ s2
      /\ s5 \in Seq(Discovery!Messages) /\ Len(s5) \in Nat /\ s6 \in [Places -> 0 .. 2]
      /\ s1 \subseteq Places
      /\ ~s4.started => ~Discovery!Browsing
      /\ Discovery!Browsing' = Discovery!Browsing
  <2>1. UNCHANGED <<s2, s3, s4, s7, s8>> /\ s2
    BY DEF Discovery!Announce, Discovery!Withdraw, Discovery!Answer
  <2>2. ~s4.started => ~Discovery!Browsing
    BY DEF DiscInv, DiscQuiet, Discovery!Browsing, Discovery!Off
  <2> QED BY <2>1, <2>2 DEF DiscInv, Discovery!TypeOK, Discovery!Browsing
<1>1. CASE Discovery!Announce(p)
  <2>1. /\ s1' = s1 \cup {p} /\ Discovery!Tells(<<"new", p>>) /\ UNCHANGED s6
        /\ <<"new", p>> \in Discovery!Messages
    BY <1>1 DEF Discovery!Announce, Discovery!Messages
  <2> DEFINE m == <<"new", p>>
  <2>2. m[1] = "new" /\ m[2] = p
    OBVIOUS
  <2> HIDE DEF m
  <2>3. /\ s5' \in Seq(Discovery!Messages) /\ Len(s5') <= MaxMessages
        /\ ~Discovery!Browsing => s5' = s5
        /\ Discovery!Browsing =>
                 /\ Len(s5') = Len(s5) + 1
                 /\ \A i \in 1 .. Len(s5) : s5'[i] = s5[i]
                 /\ s5'[Len(s5) + 1] = m
    BY <2>1, DiscTellsDoes DEF m
  <2>4. Discovery!TypeOK'
    BY <1>0, <2>1, <2>3 DEF DiscInv, Discovery!TypeOK
  <2>5. ASSUME Discovery!Browsing' PROVE DiscGone' /\ DiscFoundTrue' /\ DiscComing'
    <3>1. DiscGone /\ DiscFoundTrue /\ DiscComing /\ Discovery!Browsing
      BY <1>0, <2>5 DEF DiscInv
    <3>2. DiscGone'
      BY <1>0, <2>1, <2>3, <3>1 DEF DiscGone, DiscSays, Discovery!There
    <3>3. DiscFoundTrue'
      BY <1>0, <2>1, <2>2, <2>3, <3>1 DEF DiscFoundTrue, DiscSays
    <3>4. \A s : DiscUnder(s) => DiscUnder(s)'
      BY <1>0, <2>1, <2>3, <3>1 DEF DiscUnder, DiscSays
    <3>5. DiscUnder(p[1])'
      BY <1>0, <2>2, <2>3, <3>1 DEF DiscUnder, DiscSays
    <3> QED BY <1>0, <2>1, <3>1, <3>2, <3>3, <3>4, <3>5 DEF DiscComing
  <2> QED BY <1>0, <2>1, <2>3, <2>4, <2>5 DEF DiscInv, DiscConnected, DiscQuiet
<1>2. CASE Discovery!Withdraw(p)
  <2>1. /\ s1' = s1 \ {p} /\ Discovery!Tells(<<"remove", p>>) /\ UNCHANGED s6
        /\ <<"remove", p>> \in Discovery!Messages
    BY <1>2 DEF Discovery!Withdraw, Discovery!Messages
  <2> DEFINE m == <<"remove", p>>
  <2>2. m[1] = "remove" /\ m[2] = p
    OBVIOUS
  <2> HIDE DEF m
  <2>3. /\ s5' \in Seq(Discovery!Messages) /\ Len(s5') <= MaxMessages
        /\ ~Discovery!Browsing => s5' = s5
        /\ Discovery!Browsing =>
                 /\ Len(s5') = Len(s5) + 1
                 /\ \A i \in 1 .. Len(s5) : s5'[i] = s5[i]
                 /\ s5'[Len(s5) + 1] = m
    BY <2>1, DiscTellsDoes DEF m
  <2>4. Discovery!TypeOK'
    BY <1>0, <2>1, <2>3 DEF DiscInv, Discovery!TypeOK
  <2>5. ASSUME Discovery!Browsing' PROVE DiscGone' /\ DiscFoundTrue' /\ DiscComing'
    <3>1. DiscGone /\ DiscFoundTrue /\ DiscComing /\ Discovery!Browsing
      BY <1>0, <2>5 DEF DiscInv
    <3>2. ASSUME NEW s \in s7', s \notin Discovery!There'
          PROVE  \E i \in 1 .. Len(s5'), q \in Places : q[1] = s /\ DiscSays(i, "remove", q)'
      <4>1. CASE s \in Discovery!There
        <5>1. PICK q \in s1 : s = q[1]
          BY <4>1 DEF Discovery!There
        <5>2. q = p
          BY <2>1, <3>2, <5>1 DEF Discovery!There
        <5> QED BY <1>0, <2>2, <2>3, <3>1, <5>1, <5>2 DEF DiscSays
      <4>2. CASE s \notin Discovery!There
        BY <1>0, <2>3, <3>1, <3>2, <4>2 DEF DiscGone, DiscSays
      <4> QED BY <4>1, <4>2
    <3>3. DiscGone'
      BY <3>2 DEF DiscGone
    <3>4. ASSUME NEW i \in 1 .. Len(s5'), NEW q \in Places, DiscSays(i, "found", q)',
                 q \notin s1'
          PROVE  \E j \in i + 1 .. Len(s5') : DiscSays(j, "remove", q)'
      <4>1. i \in 1 .. Len(s5) /\ DiscSays(i, "found", q)
        BY <1>0, <2>2, <2>3, <3>1, <3>4 DEF DiscSays
      <4>2. CASE q = p
        <5>1. Len(s5) + 1 \in i + 1 .. Len(s5')
          BY <1>0, <2>3, <3>1, <4>1
        <5> QED BY <2>2, <2>3, <3>1, <4>2, <5>1 DEF DiscSays
      <4>3. CASE q # p
        <5>1. q \notin s1
          BY <2>1, <3>4, <4>3
        <5>2. PICK j \in i + 1 .. Len(s5) : DiscSays(j, "remove", q)
          BY <3>1, <4>1, <5>1 DEF DiscFoundTrue
        <5>3. j \in 1 .. Len(s5) /\ j \in i + 1 .. Len(s5')
          BY <1>0, <2>3, <3>1, <4>1
        <5> QED BY <2>3, <3>1, <5>2, <5>3 DEF DiscSays
      <4> QED BY <4>2, <4>3
    <3>5. DiscFoundTrue'
      BY <3>4 DEF DiscFoundTrue
    <3>6. \A s : DiscUnder(s) => DiscUnder(s)'
      BY <1>0, <2>1, <2>3, <3>1 DEF DiscUnder, DiscSays
    <3>7. DiscComing'
      BY <1>0, <2>1, <3>1, <3>6 DEF DiscComing
    <3> QED BY <3>3, <3>5, <3>7
  <2> QED BY <1>0, <2>1, <2>3, <2>4, <2>5 DEF DiscInv, DiscConnected, DiscQuiet
<1>3. CASE Discovery!Answer(p)
  <2>1. /\ Discovery!Browsing /\ s6[p] > 0 /\ s6' = [s6 EXCEPT ![p] = s6[p] - 1]
        /\ UNCHANGED s1
        /\ (p \in s1 /\ Discovery!Tells(<<"found", p>>)) \/ Discovery!Tells(<<"failure", p>>)
        /\ <<"found", p>> \in Discovery!Messages /\ <<"failure", p>> \in Discovery!Messages
    BY <1>3 DEF Discovery!Answer, Discovery!Messages
  <2>2. PICK m \in Discovery!Messages :
           /\ Discovery!Tells(m) /\ m[2] = p
           /\ m[1] = "failure" \/ (m[1] = "found" /\ p \in s1)
    BY <2>1
  <2>3. /\ s5' \in Seq(Discovery!Messages) /\ Len(s5') <= MaxMessages
        /\ Len(s5') = Len(s5) + 1
        /\ \A i \in 1 .. Len(s5) : s5'[i] = s5[i]
        /\ s5'[Len(s5) + 1] = m
    BY <2>1, <2>2, DiscTellsDoes
  <2>4. s6[p] \in 0 .. 2 /\ s6[p] - 1 \in 0 .. 2
    BY <1>0, <2>1
  <2>5. s6' \in [Places -> 0 .. 2] /\ \A q \in Places : q # p => s6'[q] = s6[q]
    BY <1>0, <2>1, <2>4
  <2>6. Discovery!TypeOK'
    BY <1>0, <2>1, <2>3, <2>5 DEF DiscInv, Discovery!TypeOK
  <2>7. DiscGone /\ DiscFoundTrue /\ DiscComing
    BY <2>1 DEF DiscInv
  <2>8. Discovery!There' = Discovery!There
    BY <2>1 DEF Discovery!There
  <2>9. DiscGone'
    BY <1>0, <2>3, <2>7, <2>8 DEF DiscGone, DiscSays
  <2>10. ASSUME NEW i \in 1 .. Len(s5'), NEW q \in Places, DiscSays(i, "found", q)',
                 q \notin s1'
         PROVE  \E j \in i + 1 .. Len(s5') : DiscSays(j, "remove", q)'
    <3>1. q \notin s1
      BY <2>1, <2>10
    <3>2. i # Len(s5) + 1
      BY <2>2, <2>3, <2>10, <3>1 DEF DiscSays
    <3>3. i \in 1 .. Len(s5) /\ DiscSays(i, "found", q)
      BY <1>0, <2>3, <2>10, <3>2 DEF DiscSays
    <3>4. PICK j \in i + 1 .. Len(s5) : DiscSays(j, "remove", q)
      BY <2>7, <3>1, <3>3 DEF DiscFoundTrue
    <3>5. j \in 1 .. Len(s5) /\ j \in i + 1 .. Len(s5')
      BY <1>0, <2>3, <3>3
    <3> QED BY <2>3, <3>4, <3>5 DEF DiscSays
  <2>11. DiscFoundTrue'
    BY <2>10 DEF DiscFoundTrue
  <2>12. \A s : s # p[1] => (DiscUnder(s) => DiscUnder(s)')
    BY <1>0, <2>3, <2>5 DEF DiscUnder, DiscSays
  <2>13. DiscUnder(p[1])'
    <3>1. Len(s5) + 1 \in 1 .. Len(s5')
      BY <1>0, <2>3
    <3> QED BY <2>2, <2>3, <3>1 DEF DiscUnder, DiscSays
  <2>14. DiscComing'
    BY <1>0, <2>1, <2>7, <2>12, <2>13 DEF DiscComing
  <2>15. DiscQuiet'
    BY <1>0, <2>1 DEF DiscQuiet
  <2> QED BY <1>0, <2>6, <2>9, <2>11, <2>14, <2>15 DEF DiscInv, DiscConnected
<1> QED BY <1>1, <1>2, <1>3

\* The client handles a message.
LEMMA DiscIterateStep == ASSUME DiscBounds, DiscInv, Discovery!Iterate PROVE DiscInv'
<1> USE DEF DiscBounds
<1> DEFINE event == Head(s5)[1]
           p == Head(s5)[2]
<1>0. /\ UNCHANGED <<s1, s2, s3, s4>> /\ s4.timer /\ s5 # <<>>
      /\ s5' = Tail(s5)
      /\ Discovery!browse_callback(event, p) \/ Discovery!resolve_callback(event, p)
  BY DEF Discovery!Iterate
<1>1. /\ s5 \in Seq(Discovery!Messages) /\ Len(s5) \in Nat /\ Len(s5) <= MaxMessages
      /\ s6 \in [Places -> 0 .. 2]
      /\ s1 \subseteq Places /\ s7 \subseteq Discovery!Services
         /\ s8 \subseteq Discovery!Services
  BY DEF DiscInv, Discovery!TypeOK
<1>2. /\ s5' \in Seq(Discovery!Messages) /\ Len(s5) >= 1 /\ Len(s5') = Len(s5) - 1
      /\ \A i \in 1 .. Len(s5') : s5'[i] = s5[i + 1]
      /\ s5[1] \in Discovery!Messages /\ Head(s5) = s5[1]
  BY <1>0, <1>1
<1>3. event = s5[1][1] /\ p = s5[1][2] /\ p \in Places
      /\ event \in {"new", "remove", "found", "failure"}
  BY <1>2 DEF Discovery!Messages
<1>4. p[1] \in Discovery!Services
  BY <1>3 DEF Discovery!Services
<1> HIDE DEF event, p
<1>5. Len(s5') <= MaxMessages
  BY <1>1, <1>2
<1>6. Discovery!Browsing' = Discovery!Browsing /\ Discovery!There' = Discovery!There
  BY <1>0 DEF Discovery!Browsing, Discovery!There
<1>7. s4.started
  BY <1>0 DEF DiscInv, DiscQuiet, Discovery!Off
<1>8. \A i \in 2 .. Len(s5) : i - 1 \in 1 .. Len(s5') /\ s5'[i - 1] = s5[i]
  BY <1>1, <1>2
<1>9. \/ /\ event = "new" /\ UNCHANGED <<s7, s8>>
         /\ \/ p[1] \in s7 /\ UNCHANGED s6
            \/ s4.client # "running" /\ UNCHANGED s6
            \/ s6[p] < 2 /\ s6' = [s6 EXCEPT ![p] = s6[p] + 1]
      \/ /\ event = "remove" /\ s7' = s7 \ {p[1]}
         /\ s8' = s8 \cup {p[1]} /\ UNCHANGED s6
      \/ /\ event = "found" /\ s7' = s7 \cup {p[1]}
         /\ s8' = s8 \ {p[1]} /\ UNCHANGED s6
      \/ /\ event = "failure" /\ s8' = s8 \cup ({p[1]} \ s7)
         /\ UNCHANGED <<s7, s6>>
  BY <1>0 DEF Discovery!browse_callback, Discovery!resolve_callback
<1>10. s6' \in [Places -> 0 .. 2] /\ \A q \in Places : s6[q] # 0 => s6'[q] # 0
  <2>1. CASE UNCHANGED s6
    BY <1>1, <2>1
  <2>2. CASE s6[p] < 2 /\ s6' = [s6 EXCEPT ![p] = s6[p] + 1]
    <3>1. s6[p] \in 0 .. 2 /\ s6[p] + 1 \in 0 .. 2 /\ s6[p] + 1 # 0
      BY <1>1, <1>3, <2>2
    <3> QED BY <1>1, <1>3, <2>2, <3>1
  <2> QED BY <1>9, <2>1, <2>2
<1>11. s7' \subseteq Discovery!Services /\ s8' \subseteq Discovery!Services
  BY <1>1, <1>4, <1>9
<1>12. Discovery!TypeOK'
  BY <1>0, <1>2, <1>5, <1>10, <1>11 DEF DiscInv, Discovery!TypeOK
<1>13. ASSUME Discovery!Browsing' PROVE DiscGone' /\ DiscFoundTrue' /\ DiscComing'
  <2>1. DiscGone /\ DiscFoundTrue /\ DiscComing /\ s4.client = "running"
    BY <1>6, <1>13 DEF DiscInv, Discovery!Browsing
  <2>2. ASSUME NEW i \in 1 .. Len(s5'), NEW q \in Places, DiscSays(i, "found", q)',
               q \notin s1'
        PROVE  \E j \in i + 1 .. Len(s5') : DiscSays(j, "remove", q)'
    <3>1. i + 1 \in 1 .. Len(s5) /\ DiscSays(i + 1, "found", q) /\ q \notin s1
      BY <1>0, <1>1, <1>2, <2>2 DEF DiscSays
    <3>2. PICK j \in i + 1 + 1 .. Len(s5) : DiscSays(j, "remove", q)
      BY <2>1, <3>1 DEF DiscFoundTrue
    <3>3. j \in 2 .. Len(s5) /\ j - 1 \in i + 1 .. Len(s5')
      BY <1>1, <1>2, <2>2
    <3> QED BY <1>8, <3>2, <3>3 DEF DiscSays
  <2>3. DiscFoundTrue'
    BY <2>2 DEF DiscFoundTrue
  <2>4. ASSUME NEW s \in s7', s \notin Discovery!There'
        PROVE  \E i \in 1 .. Len(s5'), q \in Places : q[1] = s /\ DiscSays(i, "remove", q)'
    <3>1. s \notin Discovery!There
      BY <1>6, <2>4
    <3>2. CASE s \in s7
      <4>1. PICK i \in 1 .. Len(s5), q \in Places : q[1] = s /\ DiscSays(i, "remove", q)
        BY <2>1, <3>1, <3>2 DEF DiscGone
      <4>2. i # 1
        <5>1. SUFFICES ASSUME i = 1 PROVE FALSE
          OBVIOUS
        <5>2. event = "remove" /\ p = q
          BY <1>3, <4>1, <5>1 DEF DiscSays
        <5> QED BY <1>9, <2>4, <4>1, <5>2
      <4>3. i \in 2 .. Len(s5)
        BY <1>1, <4>2
      <4> QED BY <1>8, <4>1, <4>3 DEF DiscSays
    <3>3. CASE s \notin s7
      <4>1. event = "found" /\ s = p[1]
        BY <1>9, <2>4, <3>3
      <4>2. 1 \in 1 .. Len(s5) /\ DiscSays(1, "found", p) /\ p \notin s1
        BY <1>1, <1>2, <1>3, <3>1, <4>1 DEF DiscSays, Discovery!There
      <4>3. PICK j \in 1 + 1 .. Len(s5) : DiscSays(j, "remove", p)
        BY <1>3, <2>1, <4>2 DEF DiscFoundTrue
      <4>4. j \in 2 .. Len(s5)
        BY <1>1
      <4> QED BY <1>3, <1>8, <4>1, <4>3, <4>4 DEF DiscSays
    <3> QED BY <3>2, <3>3
  <2>5. DiscGone'
    BY <2>4 DEF DiscGone
  <2>6. ASSUME NEW q \in s1', q[1] \notin s7', q[1] \notin s8'
        PROVE  DiscUnder(q[1])'
    <3>1. q \in s1 /\ q \in Places
      BY <1>0, <1>1
    <3>2. q[1] \notin s7
      BY <1>9, <2>6
    <3>3. CASE q[1] = p[1]
      <4>1. event = "new"
        BY <1>9, <2>6, <3>2, <3>3
      <4>2. s6[p] < 2 /\ s6' = [s6 EXCEPT ![p] = s6[p] + 1]
        BY <1>9, <2>1, <3>2, <3>3, <4>1
      <4>3. s6'[p] # 0
        BY <1>1, <1>3, <4>2
      <4> QED BY <1>3, <3>3, <4>3 DEF DiscUnder
    <3>4. CASE q[1] # p[1]
      <4>1. q[1] \notin s8
        BY <1>9, <2>6, <3>4
      <4>2. PICK r \in Places :
               /\ r[1] = q[1]
               /\ \/ s6[r] # 0
                  \/ \E i \in 1 .. Len(s5) : \E e \in {"new", "found",
                     "failure"} : DiscSays(i, e, r)
        BY <2>1, <3>1, <3>2, <4>1 DEF DiscComing, DiscUnder
      <4>3. CASE s6[r] # 0
        BY <1>10, <4>2, <4>3 DEF DiscUnder
      <4>4. ASSUME NEW i \in 1 .. Len(s5), NEW e \in {"new", "found", "failure"},
                   DiscSays(i, e, r)
            PROVE  DiscUnder(q[1])'
        <5>1. i # 1
          BY <1>3, <3>4, <4>2, <4>4 DEF DiscSays
        <5>2. i \in 2 .. Len(s5)
          BY <1>1, <5>1
        <5>3. i - 1 \in 1 .. Len(s5') /\ DiscSays(i - 1, e, r)'
          BY <1>8, <4>4, <5>2 DEF DiscSays
        <5> QED BY <4>2, <5>3 DEF DiscUnder
      <4> QED BY <4>2, <4>3, <4>4
    <3> QED BY <3>3, <3>4
  <2>7. DiscComing'
    BY <2>6 DEF DiscComing
  <2> QED BY <2>3, <2>5, <2>7
<1> QED BY <1>0, <1>7, <1>12, <1>13 DEF DiscInv, DiscConnected, DiscQuiet

\* Every step keeps the invariant.
LEMMA DiscStepInv == ASSUME DiscBounds, DiscInv,
   [Discovery!Next]_(Discovery!vars) PROVE DiscInv'
<1>1. CASE Discovery!IconInit \/ Discovery!Toggle
  <2>1. (Discovery!start \/ Discovery!stop) /\ UNCHANGED <<s1, s2>> /\ s3' \in BOOLEAN
    BY <1>1 DEF Discovery!IconInit, Discovery!Toggle, DiscInv, Discovery!TypeOK
  <2> QED BY <2>1, DiscStartStep
<1>2. CASE Discovery!Fail
  <2>1. /\ s2' = FALSE /\ UNCHANGED <<s1, s3, s5, s6, s7, s8>>
        /\ s4' = [s4 EXCEPT !.client = IF s4.client = "running" THEN "failed" ELSE s4.client]
        /\ s4 \in DiscGaType
    BY <1>2 DEF Discovery!Fail, DiscInv, Discovery!TypeOK, DiscGaType
  <2>2. s4' \in DiscGaType /\ s4'.client # "running" /\ s4'.started = s4.started
    BY <2>1 DEF DiscGaType
  <2>3. s4.client # "running" => s4' = s4
    BY <2>1 DEF DiscGaType
  <2>4. ~s4.started => s4' = s4
    BY <2>3 DEF DiscInv, DiscQuiet, Discovery!Off
  <2>5. Discovery!TypeOK'
    BY <2>1, <2>2 DEF DiscInv, Discovery!TypeOK, DiscGaType
  <2> QED BY <2>1, <2>2, <2>4, <2>5 DEF DiscInv, DiscConnected, DiscQuiet,
     Discovery!Browsing
<1>3. CASE Discovery!Recover
  <2>1. /\ ~s2 /\ s2' = TRUE /\ s1' \subseteq Places
        /\ UNCHANGED <<s3, s4, s5, s6, s7, s8>>
    BY <1>3 DEF Discovery!Recover
  <2>2. s4.client # "running"
    BY <2>1 DEF DiscInv, DiscConnected
  <2> QED BY <2>1, <2>2 DEF DiscInv, Discovery!TypeOK, DiscConnected, DiscQuiet,
     Discovery!Browsing
<1>4. CASE UNCHANGED Discovery!vars
  BY <1>4 DEF Discovery!vars, DiscInv, Discovery!TypeOK, DiscConnected, DiscQuiet,
     Discovery!Browsing, DiscGone, DiscFoundTrue, DiscComing, DiscUnder, DiscSays,
     Discovery!There
<1> QED BY <1>1, <1>2, <1>3, <1>4, DiscIterateStep, DiscDaemonStep DEF Discovery!Next

-----------------------------------------------------------------------------
(* The plugins (src/src/remmina_plugin_manager.c).                         *)
(* The variables: s1 dir, s2 imode, s3 works, s4 table, s5 loaded, s6      *)
(* secret, s7 available, s8 window, s9 listed, s10 downloading, s11        *)
(* result, s12 asked, s13 idles, s14 hist, s15 fault.                      *)

PlugBounds ==
    /\ IsFiniteSet(Natives) /\ IsFiniteSet(Pythons) /\ Natives \cap Pythons = {}
    /\ "freed" \notin Natives /\ MaxRequests \in Nat \ {0}

PlugElement == [name : Plugins!Offered, how : Plugins!Answers]
PlugIdleType == [list : SUBSET Plugins!Offered, plugins : Seq(PlugElement)]

PlugTyped ==
    /\ s1 \subseteq Plugins!Offered /\ s3 \subseteq Plugins!Secrets /\ s2 \in BOOLEAN
    /\ s5 \subseteq Plugins!Registrable \cup {"freed"}
    /\ s6 \in Plugins!Secrets \cup {"none"}
    /\ s7 \subseteq Plugins!Offered /\ s9 \subseteq s7
    /\ s8 \in {"none", "shown", "dead"} /\ s10 \in BOOLEAN
    /\ s11 \in {"none", "nothing", "successful", "partially", "failed"}
    /\ s12 \subseteq {{Plugins!List}} \cup SUBSET Plugins!Offered
    /\ s13 \in Seq(PlugIdleType)
    /\ s14 \subseteq {"orphan", "dropped", "wrong"}
    /\ s15 \in {"none", "window", "name", "abort"}

\* A plugin is registered at most once, and a library that is has been loaded.
PlugOnce1 == s4 \in [Plugins!Registrable -> {0, 1}]
PlugKnown == \A p \in Natives : s4[p] # 0 => p \in s5

\* A name was freed only if a script was loaded.
PlugFreed == "freed" \in s5 => \E p \in Pythons : s4[p] # 0

PlugRoom == IsFiniteSet(s12) /\ Plugins!Cardinality(s12) + Len(s13) <= MaxRequests

PlugFaults ==
    /\ s15 = "window" \/ s8 = "dead" => "orphan" \in s14
    /\ s15 = "name" => \E p \in Pythons : s4[p] # 0

PlugInv == PlugTyped /\ PlugOnce1 /\ PlugKnown /\ PlugFreed /\ PlugRoom /\ PlugFaults
   /\ Plugins!SecretFirst /\ Plugins!DownloadTold

\* What t is when plugins have been registered in reg.
PlugGrown(t, reg, natives, scripts) ==
    /\ t \in [Plugins!Registrable -> {0, 1}]
    /\ \A p \in Plugins!Registrable : reg[p] # 0 => t[p] # 0
    /\ \A p \in scripts : t[p] # 0
    /\ \A p \in Natives : t[p] # 0 => p \in natives \/ p \in scripts \/ reg[p] # 0

\* The module counts as the library does.
LEMMA PlugCardinality == \A S : Plugins!Cardinality(S) = Cardinality(S)
BY DEF Plugins!Cardinality, Cardinality

\* What is registered after libraries that were not, and scripts, have been loaded.
LEMMA PlugRegisters ==
    ASSUME NEW reg \in [Plugins!Registrable -> {0, 1}], NEW natives \in SUBSET Natives,
           NEW scripts \in SUBSET Pythons, \A p \in natives : reg[p] = 0
    PROVE  PlugGrown(Plugins!Registered(reg, natives, scripts), reg, natives, scripts)
<1> DEFINE r == Plugins!Registered(reg, natives, scripts)
<1>1. natives \subseteq Plugins!Registrable /\ scripts \subseteq Plugins!Registrable
      /\ Natives \subseteq Plugins!Registrable
  BY DEF Plugins!Registrable, Plugins!Offered
<1>2. r = [p \in Plugins!Registrable |-> IF p \in natives THEN reg[p] + 1
                                 ELSE IF p \in scripts /\ reg[p] = 0 THEN 1 ELSE reg[p]]
  BY DEF Plugins!Registered
<1> HIDE DEF r
<1>3. ASSUME NEW p \in Plugins!Registrable
      PROVE  /\ r[p] \in {0, 1} /\ (reg[p] # 0 => r[p] # 0) /\ (p \in scripts => r[p] # 0)
             /\ (r[p] # 0 => p \in natives \/ p \in scripts \/ reg[p] # 0)
  <2>1. reg[p] \in {0, 1}
    OBVIOUS
  <2>2. CASE p \in natives
    <3>1. r[p] = reg[p] + 1 /\ reg[p] = 0
      BY <1>2, <2>2
    <3> QED BY <2>2, <3>1
  <2>3. CASE p \notin natives /\ p \in scripts /\ reg[p] = 0
    BY <1>2, <2>3
  <2>4. CASE p \notin natives /\ ~ (p \in scripts /\ reg[p] = 0)
    BY <1>2, <2>1, <2>4
  <2> QED BY <2>2, <2>3, <2>4
<1>4. r \in [Plugins!Registrable -> {0, 1}]
  BY <1>2, <1>3
<1> QED BY <1>1, <1>3, <1>4 DEF r, PlugGrown

\* The order of the secret plugins.
LEMMA PlugSecretsAre ==
    /\ Plugins!Secrets = {"kwallet", "glibsecret"}
    /\ Plugins!InitOrder("kwallet") = 1 /\ Plugins!InitOrder("glibsecret") = 2000
BY DEF Plugins!Secrets, Plugins!InitOrder

\* The first of those that work.
LEMMA PlugBestIs ==
    ASSUME NEW s \in SUBSET Plugins!Secrets, s # {}
    PROVE  Plugins!Best(s) \in s
           /\ \A y \in s : Plugins!InitOrder(Plugins!Best(s)) <= Plugins!InitOrder(y)
<1>1. \E x \in s : \A y \in s : Plugins!InitOrder(x) <= Plugins!InitOrder(y)
  <2>1. CASE "kwallet" \in s
    <3>1. \A y \in s : Plugins!InitOrder("kwallet") <= Plugins!InitOrder(y)
      BY PlugSecretsAre
    <3> QED BY <2>1, <3>1
  <2>2. CASE "kwallet" \notin s
    <3>1. s = {"glibsecret"}
      <4>1. \A x \in s : x = "glibsecret"
        BY <2>2 DEF Plugins!Secrets
      <4> QED BY <4>1
    <3>2. Plugins!InitOrder("glibsecret") <= Plugins!InitOrder("glibsecret")
      BY PlugSecretsAre
    <3> QED BY <3>1, <3>2
  <2> QED BY <2>1, <2>2
<1> QED BY <1>1 DEF Plugins!Best

\* It holds when the plugins have been loaded.
LEMMA PlugInitInv == ASSUME PlugBounds, Plugins!Init PROVE PlugInv
<1>1. PICK natives \in {Plugins!Secrets, Plugins!Secrets \cup {Plugins!Wrapper}} :
        LET libs == natives \cup (s1 \cap Natives)
            reg == [p \in Plugins!Registrable |-> IF p \in libs THEN 1 ELSE 0]
            scripts == Plugins!Scripts(s1, reg)
        IN  /\ s4 = Plugins!Registered(reg, {}, scripts)
            /\ s5 = libs \cup IF scripts = {} THEN {} ELSE {"freed"}
  BY DEF Plugins!Init
<1> DEFINE libs == natives \cup (s1 \cap Natives)
           reg == [p \in Plugins!Registrable |-> IF p \in libs THEN 1 ELSE 0]
           scripts == Plugins!Scripts(s1, reg)
<1>2. /\ s4 = Plugins!Registered(reg, {}, scripts)
      /\ s5 = libs \cup IF scripts = {} THEN {} ELSE {"freed"}
  BY <1>1
<1>3. reg \in [Plugins!Registrable -> {0, 1}]
      /\ \A p \in Plugins!Registrable : reg[p] # 0 <=> p \in libs
  <2>1. \A p \in Plugins!Registrable : reg[p] = IF p \in libs THEN 1 ELSE 0
    OBVIOUS
  <2> QED BY <2>1
<1>4. scripts \in SUBSET Pythons
  BY DEF Plugins!Scripts
<1>5. libs \subseteq Plugins!Registrable /\ "freed" \notin libs
  BY PlugCardinality DEF Plugins!Registrable, Plugins!Offered, Plugins!Secrets,
     Plugins!Wrapper, PlugBounds
<1> HIDE DEF libs, reg, scripts
<1>6. /\ s4 \in [Plugins!Registrable -> {0, 1}]
      /\ \A p \in scripts : s4[p] # 0
      /\ \A p \in Natives : s4[p] # 0 => reg[p] # 0
  <2>3. /\ Plugins!Registered(reg, {}, scripts) \in [Plugins!Registrable -> {0, 1}]
        /\ \A p \in scripts : Plugins!Registered(reg, {}, scripts)[p] # 0
        /\ Natives \cap Pythons = {} =>
              \A p \in Natives : Plugins!Registered(reg, {}, scripts)[p] # 0 => reg[p] # 0
    <3> DEFINE none == {}
    <3>1. none \in SUBSET Natives /\ \A p \in none : reg[p] = 0
      OBVIOUS
    <3>2. reg \in [Plugins!Registrable -> {0, 1}] /\ scripts \in SUBSET Pythons
      BY <1>3, <1>4
    <3> HIDE DEF none
    <3>3. \A p \in none : FALSE
      BY DEF none
    <3>4. PlugGrown(Plugins!Registered(reg, none, scripts), reg, none, scripts)
      BY <3>1, <3>2, PlugRegisters
    <3>5. Natives \cap scripts = {}
      BY PlugCardinality, <3>2 DEF PlugBounds
    <3> QED BY <3>3, <3>4, <3>5 DEF none, PlugGrown
  <2>4. Natives \cap Pythons = {}
    BY PlugCardinality DEF PlugBounds
  <2> QED BY <1>2, <2>3, <2>4
<1>7. s5 \subseteq Plugins!Registrable \cup {"freed"} /\ libs \subseteq s5
      /\ ("freed" \in s5 => scripts # {})
  <2>1. CASE scripts = {}
    BY <1>2, <1>5, <2>1
  <2>2. CASE scripts # {}
    BY <1>2, <1>5, <2>2
  <2> QED BY <2>1, <2>2
<1>8. PlugKnown
  BY <1>3, <1>6, <1>7 DEF PlugKnown, Plugins!Registrable, Plugins!Offered
<1>9. PlugFreed
  BY <1>4, <1>6, <1>7 DEF PlugFreed
<1>10. Plugins!SecretFirst /\ s6 \in Plugins!Secrets \cup {"none"}
       /\ s3 \subseteq Plugins!Secrets
  <2>1. s3 \in SUBSET Plugins!Secrets /\ s6 = IF s3 = {} THEN "none" ELSE Plugins!Best(s3)
    BY DEF Plugins!Init
  <2>2. CASE s3 = {}
    BY <2>1, <2>2 DEF Plugins!SecretFirst
  <2>3. CASE s3 # {}
    <3>1. s6 = Plugins!Best(s3) /\ Plugins!Best(s3) \in s3
      BY <2>1, <2>3, PlugBestIs
    <3>2. \A y \in s3 : Plugins!InitOrder(s6) <= Plugins!InitOrder(y)
      BY <2>1, <2>3, <3>1, PlugBestIs
    <3>3. s6 # "none"
      BY <2>1, <3>1 DEF Plugins!Secrets
    <3> QED BY <2>1, <3>1, <3>2, <3>3 DEF Plugins!SecretFirst
  <2> QED BY <2>2, <2>3
<1>11. /\ s12 \subseteq {{Plugins!List}} /\ s13 = <<>> /\ s14 = {} /\ s15 = "none"
          /\ s8 = "none"
       /\ s1 \subseteq Plugins!Offered /\ s2 \in BOOLEAN /\ s7 = {} /\ s9 = {}
       /\ s10 = FALSE /\ s11 = "none"
  BY DEF Plugins!Init
<1>12. PlugTyped
  <2>1. s13 \in Seq(PlugIdleType)
    BY <1>11
  <2> QED BY <1>7, <1>10, <1>11, <2>1 DEF PlugTyped
<1>13. PlugRoom
  <2>1. IsFiniteSet(s12) /\ Plugins!Cardinality(s12) \in {0, 1}
    <3>1. CASE s12 = {}
      BY PlugCardinality, <3>1, FS_EmptySet
    <3>2. CASE s12 = {{Plugins!List}}
      BY PlugCardinality, <3>2, FS_Singleton
    <3>3. s12 = {} \/ s12 = {{Plugins!List}}
      BY <1>11
    <3> QED BY <3>1, <3>2, <3>3
  <2>2. MaxRequests \in Nat /\ MaxRequests # 0
    BY PlugCardinality DEF PlugBounds
  <2>3. Len(s13) = 0
    BY <1>11
  <2> QED BY <2>1, <2>2, <2>3 DEF PlugRoom
<1> QED BY <1>6, <1>8, <1>9, <1>10, <1>11, <1>12, <1>13 DEF PlugInv, PlugOnce1, PlugFaults,
   Plugins!DownloadTold

\* The properties follow.
\* The invariant implies the properties.
LEMMA PlugInvMeans ==
    ASSUME PlugBounds, PlugInv
    PROVE  Plugins!TypeOK /\ Plugins!RegisteredOnce /\ Plugins!SecretFirst
           /\ Plugins!PluginFaults /\ Plugins!DownloadTold
<1>1. \A p \in Plugins!Registrable : s4[p] \in {0, 1}
  BY DEF PlugInv, PlugOnce1
<1>2. Plugins!RegisteredOnce
  <2>1. 0 <= 1 /\ 1 <= 1
    OBVIOUS
  <2> QED BY <1>1, <2>1 DEF Plugins!RegisteredOnce
<1>3. s4 \in [Plugins!Registrable -> 0 .. 2]
  <2>1. 0 \in 0 .. 2 /\ 1 \in 0 .. 2
    OBVIOUS
  <2> QED BY <2>1 DEF PlugInv, PlugOnce1
<1>4. Len(s13) <= MaxRequests
  <2>1. Plugins!Cardinality(s12) \in Nat /\ Len(s13) \in Nat
    BY PlugCardinality, FS_CardinalityType DEF PlugInv, PlugTyped, PlugRoom
  <2>2. Plugins!Cardinality(s12) + Len(s13) <= MaxRequests
    BY DEF PlugInv, PlugRoom
  <2>3. MaxRequests \in Nat
    BY PlugCardinality DEF PlugBounds
  <2> QED BY <2>1, <2>2, <2>3
<1>5. Plugins!PluginFaults
  <2>1. \A p \in Pythons : s4[p] # 0 => s4[p] > 0
    BY <1>1 DEF Plugins!Registrable, Plugins!Offered
  <2> QED BY <2>1 DEF PlugInv, PlugFaults, Plugins!PluginFaults
<1> QED BY <1>2, <1>3, <1>4, <1>5 DEF PlugInv, PlugTyped, Plugins!TypeOK

\* The window opens, closes, and goes with its parent; a message is dismissed.
LEMMA PlugWindowStep ==
    ASSUME PlugBounds, PlugInv, Plugins!Show \/ Plugins!ParentDestroyed
           \/ Plugins!OnClose \/ Plugins!Dismiss PROVE PlugInv'
<1>0. UNCHANGED <<s1, s2, s3, s4, s5, s6, s7, s12, s13, s15>>
  BY DEF Plugins!Show, Plugins!ParentDestroyed, Plugins!OnClose, Plugins!Dismiss
<1>1. /\ s8' \in {"none", "shown", "dead"} /\ s9' \subseteq s7
      /\ s10' \in BOOLEAN
      /\ s11' \in {"none", "nothing", "successful", "partially", "failed"}
      /\ s14' \in {s14, s14 \cup {"orphan"}}
      /\ (s8' = "dead" => s8 = "dead" \/ s14' = s14 \cup {"orphan"})
      /\ s15 = "none"
  BY DEF Plugins!Show, Plugins!ParentDestroyed, Plugins!OnClose, Plugins!Dismiss,
     Plugins!Closed, PlugInv, PlugTyped
<1>2. s14' \subseteq {"orphan", "dropped", "wrong"}
  BY <1>1 DEF PlugInv, PlugTyped
<1>3. PlugTyped'
  BY <1>0, <1>1, <1>2 DEF PlugInv, PlugTyped
<1>4. PlugOnce1' /\ PlugKnown' /\ PlugFreed' /\ PlugRoom' /\ Plugins!SecretFirst'
  BY <1>0 DEF PlugInv, PlugOnce1, PlugKnown, PlugFreed, PlugRoom, Plugins!SecretFirst
<1>5. PlugFaults' /\ Plugins!DownloadTold'
  BY <1>0, <1>1 DEF PlugInv, PlugFaults, Plugins!DownloadTold
<1> QED BY <1>3, <1>4, <1>5 DEF PlugInv

\* The user asks for plugins.
LEMMA PlugOnDownloadStep ==
    ASSUME PlugBounds, PlugInv, NEW names \in SUBSET s9,
           Plugins!OnDownload(names) PROVE PlugInv'
<1>0. UNCHANGED <<s1, s2, s3, s4, s5, s6, s7, s8, s9, s13, s14, s15>>
  BY DEF Plugins!OnDownload
<1>1. /\ s10' \in BOOLEAN
      /\ s11' \in {"none", "nothing", "successful", "partially", "failed"}
      /\ \/ s12' = s12
         \/ s12' = s12 \cup {names} /\ Plugins!Cardinality(s12) + Len(s13) < MaxRequests
  <2>1. CASE names = {}
    BY <2>1 DEF Plugins!OnDownload
  <2>2. CASE names # {}
    BY <2>2 DEF Plugins!OnDownload, Plugins!Send, PlugInv, PlugTyped
  <2> QED BY <2>1, <2>2
<1>2. s12' \subseteq {{Plugins!List}} \cup SUBSET Plugins!Offered
  <2>1. names \in SUBSET Plugins!Offered
    BY DEF PlugInv, PlugTyped
  <2> QED BY <1>1, <2>1 DEF PlugInv, PlugTyped
<1>3. PlugRoom'
  <2>1. CASE s12' = s12
    BY <1>0, <2>1 DEF PlugInv, PlugRoom
  <2>2. CASE s12' = s12 \cup {names} /\ Plugins!Cardinality(s12) + Len(s13) < MaxRequests
    <3>1. IsFiniteSet(s12) /\ Plugins!Cardinality(s12) \in Nat
      BY PlugCardinality, FS_CardinalityType DEF PlugInv, PlugRoom
    <3>2. IsFiniteSet(s12')
          /\ Plugins!Cardinality(s12') \in {Plugins!Cardinality(s12),
          Plugins!Cardinality(s12) + 1}
      BY PlugCardinality, <2>2, <3>1, FS_AddElement
    <3>3. Len(s13) \in Nat /\ MaxRequests \in Nat
      BY PlugCardinality DEF PlugInv, PlugTyped, PlugBounds
    <3>4. Plugins!Cardinality(s12') + Len(s13) <= MaxRequests
      BY <2>2, <3>1, <3>2, <3>3
    <3> QED BY <1>0, <3>2, <3>4 DEF PlugRoom
  <2> QED BY <1>1, <2>1, <2>2
<1>4. PlugTyped'
  BY <1>0, <1>1, <1>2 DEF PlugInv, PlugTyped
<1>5. PlugOnce1' /\ PlugKnown' /\ PlugFreed' /\ Plugins!SecretFirst' /\ PlugFaults'
      /\ Plugins!DownloadTold'
  BY <1>0 DEF PlugInv, PlugOnce1, PlugKnown, PlugFreed, Plugins!SecretFirst, PlugFaults,
     Plugins!DownloadTold
<1> QED BY <1>3, <1>4, <1>5 DEF PlugInv

\* The server answers with a list, or with the plugins in some order.
LEMMA PlugAnswerStep == ASSUME PlugBounds, PlugInv, NEW req \in s12,
   Plugins!Answer(req) PROVE PlugInv'
<1>0. /\ UNCHANGED <<s1, s2, s3, s4, s5, s6, s7, s8, s9, s10,
                    s11, s14, s15>>
      /\ s12' = s12 \ {req}
      /\ \/ UNCHANGED s13
         \/ req = {Plugins!List} /\ \E s \in SUBSET Plugins!Offered :
               s13' = Append(s13, [list |-> s, plugins |-> <<>>])
         \/ /\ req # {Plugins!List}
            /\ \E how \in [req -> Plugins!Answers],
               order \in Plugins!Injection(1 .. Plugins!Cardinality(req), req) :
                  s13' = Append(s13, [list |-> {}, plugins |->
                              [i \in DOMAIN order |-> [name |-> order[i],
                                 how |-> how[order[i]]]]])
  BY DEF Plugins!Answer
<1>1. s13 \in Seq(PlugIdleType) /\ Len(s13) \in Nat
  <2>1. s13 \in Seq(PlugIdleType)
    BY DEF PlugInv, PlugTyped
  <2> QED BY <2>1
<1>2. \/ UNCHANGED s13
      \/ \E x \in PlugIdleType : s13' = Append(s13, x)
  <2>1. ASSUME NEW s \in SUBSET Plugins!Offered PROVE [list |-> s,
               plugins |-> <<>>] \in PlugIdleType
    BY DEF PlugIdleType
  <2>2. ASSUME req # {Plugins!List}, NEW how \in [req -> Plugins!Answers],
               NEW order \in Plugins!Injection(1 .. Plugins!Cardinality(req), req)
        PROVE  [list |-> {}, plugins |->
                  [i \in DOMAIN order |-> [name |-> order[i],
                     how |-> how[order[i]]]]] \in PlugIdleType
    <3>1. req \in SUBSET Plugins!Offered
      BY <2>2 DEF PlugInv, PlugTyped
    <3>2. IsFiniteSet(req) /\ Plugins!Cardinality(req) \in Nat
      <4>1. IsFiniteSet(Plugins!Offered)
        BY PlugCardinality, FS_Union DEF Plugins!Offered, PlugBounds
      <4>2. IsFiniteSet(req)
        BY PlugCardinality, <3>1, <4>1, FS_Subset
      <4> QED BY PlugCardinality, <4>2, FS_CardinalityType
    <3>3. order \in [1 .. Plugins!Cardinality(req) -> req]
      BY DEF Plugins!Injection
    <3> DEFINE ps == [i \in DOMAIN order |-> [name |-> order[i], how |-> how[order[i]]]]
    <3>4. \A i \in 1 .. Plugins!Cardinality(req) : [name |-> order[i],
          how |-> how[order[i]]] \in PlugElement
      BY <3>1, <3>3 DEF PlugElement
    <3>5. ps \in [1 .. Plugins!Cardinality(req) -> PlugElement]
      BY <3>3, <3>4
    <3>6. ps \in Seq(PlugElement)
      BY <3>2, <3>5
    <3> QED BY <3>6 DEF PlugIdleType
  <2> QED BY <1>0, <2>1, <2>2
<1>3. s13' \in Seq(PlugIdleType) /\ Len(s13') \in {Len(s13), Len(s13) + 1}
  BY <1>1, <1>2
<1>4. PlugRoom'
  <2>1. IsFiniteSet(s12) /\ Plugins!Cardinality(s12) \in Nat
    BY PlugCardinality, FS_CardinalityType DEF PlugInv, PlugRoom
  <2>2. IsFiniteSet(s12') /\ Plugins!Cardinality(s12') = Plugins!Cardinality(s12) - 1
    BY PlugCardinality, <1>0, <2>1, FS_RemoveElement
  <2>3. Plugins!Cardinality(s12) + Len(s13) <= MaxRequests /\ MaxRequests \in Nat
    BY PlugCardinality DEF PlugInv, PlugRoom, PlugBounds
  <2>4. Plugins!Cardinality(s12') + Len(s13') <= MaxRequests
    BY <1>1, <1>3, <2>1, <2>2, <2>3
  <2> QED BY <2>2, <2>4 DEF PlugRoom
<1>5. PlugTyped'
  BY <1>0, <1>3 DEF PlugInv, PlugTyped
<1>6. PlugOnce1' /\ PlugKnown' /\ PlugFreed' /\ Plugins!SecretFirst' /\ PlugFaults'
      /\ Plugins!DownloadTold'
  BY <1>0 DEF PlugInv, PlugOnce1, PlugKnown, PlugFreed, Plugins!SecretFirst, PlugFaults,
     Plugins!DownloadTold
<1> QED BY <1>4, <1>5, <1>6 DEF PlugInv

\* The first answer is taken.
LEMMA PlugTaken ==
    ASSUME PlugBounds, PlugInv, s13 # <<>>, s13' = Tail(s13), s12' = s12
    PROVE  /\ s13' \in Seq(PlugIdleType) /\ PlugRoom'
           /\ Head(s13).list \in SUBSET Plugins!Offered
              /\ Head(s13).plugins \in Seq(PlugElement)
<1>1. s13 \in Seq(PlugIdleType)
  BY DEF PlugInv, PlugTyped
<1>2. s13' \in Seq(PlugIdleType) /\ Head(s13) \in PlugIdleType /\ Len(s13') = Len(s13) - 1
      /\ Len(s13) \in Nat
  BY <1>1
<1>3. IsFiniteSet(s12) /\ Plugins!Cardinality(s12) \in Nat
  BY PlugCardinality, FS_CardinalityType DEF PlugInv, PlugRoom
<1>4. Plugins!Cardinality(s12) + Len(s13) <= MaxRequests /\ MaxRequests \in Nat
  BY PlugCardinality DEF PlugInv, PlugRoom, PlugBounds
<1>5. Plugins!Cardinality(s12) + Len(s13') <= MaxRequests
  BY <1>2, <1>3, <1>4
<1>6. PlugRoom'
  BY <1>3, <1>5 DEF PlugRoom
<1> QED BY <1>2, <1>6 DEF PlugIdleType

\* The list of the server is read.
LEMMA PlugParseListStep == ASSUME PlugBounds, PlugInv, Plugins!ParseList PROVE PlugInv'
<1>0. /\ UNCHANGED <<s1, s2, s3, s4, s5, s6, s8, s9, s10, s11,
                    s12, s14, s15>>
      /\ s13 # <<>> /\ s13' = Tail(s13)
      /\ s7' = s7 \cup {p \in Head(s13).list : s4[p] = 0}
  BY DEF Plugins!ParseList
<1>1. s13' \in Seq(PlugIdleType) /\ PlugRoom' /\ Head(s13).list \in SUBSET Plugins!Offered
  BY <1>0, PlugTaken
<1>2. s7' \subseteq Plugins!Offered /\ s7 \subseteq s7'
  BY <1>0, <1>1 DEF PlugInv, PlugTyped
<1>3. PlugTyped'
  BY <1>0, <1>1, <1>2 DEF PlugInv, PlugTyped
<1>4. PlugOnce1' /\ PlugKnown' /\ PlugFreed' /\ Plugins!SecretFirst' /\ PlugFaults'
      /\ Plugins!DownloadTold'
  BY <1>0 DEF PlugInv, PlugOnce1, PlugKnown, PlugFreed, Plugins!SecretFirst, PlugFaults,
     Plugins!DownloadTold
<1> QED BY <1>1, <1>3, <1>4 DEF PlugInv

\* What is read of an answer is a beginning of it.
LEMMA PlugReadIs ==
    ASSUME NEW ps \in Seq(PlugElement)
    PROVE  Plugins!Read(ps) \in Seq(PlugElement)
           /\ Plugins!Written(Plugins!Read(ps)) \in SUBSET Plugins!Offered
<1>1. Plugins!Read(ps) \in Seq(PlugElement)
  <2>1. CASE Plugins!Unsigned(ps) = {}
    BY <2>1 DEF Plugins!Read
  <2>2. CASE Plugins!Unsigned(ps) # {}
    <3>1. Plugins!Unsigned(ps) \subseteq 1 .. Len(ps)
          /\ Plugins!Unsigned(ps) \subseteq Nat /\ Len(ps) \in Nat
      BY DEF Plugins!Unsigned
    <3>2. \E i \in Plugins!Unsigned(ps) : \A j \in Plugins!Unsigned(ps) : i <= j
      BY <2>2, <3>1, LeastOf
    <3> DEFINE k == CHOOSE i \in Plugins!Unsigned(ps) : \A j \in Plugins!Unsigned(ps) : i <= j
    <3>3. k \in 1 .. Len(ps)
      BY <3>1, <3>2
    <3> HIDE DEF k
    <3>4. SubSeq(ps, 1, k - 1) \in Seq(PlugElement)
      BY <3>1, <3>3
    <3> QED BY <2>2, <3>4 DEF Plugins!Read, k
  <2> QED BY <2>1, <2>2
<1>2. ASSUME NEW rs \in Seq(PlugElement) PROVE Plugins!Written(rs) \in SUBSET Plugins!Offered
  <2>1. \A i \in DOMAIN rs : rs[i] \in PlugElement
    OBVIOUS
  <2>2. \A e \in PlugElement : e.name \in Plugins!Offered
    BY DEF PlugElement
  <2>3. \A i \in DOMAIN rs : rs[i].name \in Plugins!Offered
    BY <2>1, <2>2
  <2> QED BY <2>3 DEF Plugins!Written
<1> QED BY <1>1, <1>2

\* The plugins that were written are loaded.
LEMMA PlugDownloadStep == ASSUME PlugBounds, PlugInv, Plugins!download_plugins PROVE PlugInv'
<1> DEFINE ps == Head(s13).plugins
           ok == Plugins!Written(Plugins!Read(ps))
           files == s1 \cup ok
           libs == Plugins!ToLoad(files, s5)
           scripts == Plugins!Scripts(files, s4)
           searched == "freed" \in s5 \/ Plugins!Cardinality(scripts) > 1
<1>0. /\ UNCHANGED <<s2, s3, s6, s7, s8, s9, s12>>
      /\ s13 # <<>> /\ s13' = Tail(s13) /\ s15 = "none"
  BY DEF Plugins!download_plugins
<1>1. s13' \in Seq(PlugIdleType) /\ PlugRoom' /\ ps \in Seq(PlugElement)
  BY <1>0, PlugTaken
<1>2. ok \in SUBSET Plugins!Offered
  BY <1>1, PlugReadIs
<1>3. CASE Plugins!Aborts(ps)
  <2>1. s15' = "abort" /\ UNCHANGED <<s1, s4, s5, s10, s11, s14>>
    BY <1>3 DEF Plugins!download_plugins
  <2>2. PlugTyped'
    BY <1>0, <1>1, <2>1 DEF PlugInv, PlugTyped
  <2>3. PlugOnce1' /\ PlugKnown' /\ PlugFreed' /\ Plugins!SecretFirst' /\ PlugFaults'
        /\ Plugins!DownloadTold'
    BY <1>0, <2>1 DEF PlugInv, PlugOnce1, PlugKnown, PlugFreed, Plugins!SecretFirst,
       PlugFaults, Plugins!DownloadTold
  <2> QED BY <1>1, <2>2, <2>3 DEF PlugInv
<1>4. CASE ~Plugins!Aborts(ps)
  <2>1. /\ s1' = files
        /\ s4' = IF ok = {} THEN s4 ELSE Plugins!Registered(s4, libs, scripts)
        /\ s5' = IF ok = {} THEN s5
                     ELSE s5 \cup libs \cup IF scripts = {} THEN {} ELSE {"freed"}
        /\ s14' = s14 \cup (IF Len(Plugins!Read(ps)) < Len(ps) THEN {"dropped"} ELSE {})
                        \cup (IF Plugins!Tells(ps) = "successful"
                           /\ Plugins!Cardinality(ok) < Len(ps)
                              THEN {"wrong"} ELSE {})
        /\ IF s8 = "none" \/ ~s10
           THEN s15' = (IF ok # {} /\ searched THEN "name" ELSE "none")
                /\ UNCHANGED <<s11, s10>>
           ELSE /\ s15' = IF ok # {} /\ searched THEN "name"
                            ELSE IF s8 = "dead" THEN "window" ELSE "none"
                /\ s10' = FALSE
                /\ s11' = Plugins!Tells(ps)
    BY <1>4 DEF Plugins!download_plugins
  <2>2. /\ Plugins!Tells(ps) \in {"successful", "partially", "failed"}
        /\ (Plugins!Tells(ps) = "successful" => Plugins!Cardinality(ok) = Len(Plugins!Read(ps)))
    BY DEF Plugins!Tells
  <2>3. /\ libs \in SUBSET Natives /\ libs \cap s5 = {} /\ scripts \in SUBSET Pythons
        /\ (Plugins!Cardinality(scripts) > 1 => scripts # {})
    BY PlugCardinality, FS_EmptySet DEF Plugins!ToLoad, Plugins!Scripts
  <2>4. files \subseteq Plugins!Offered
    BY <1>2 DEF PlugInv, PlugTyped
  <2> DEFINE read == Plugins!Read(ps)
             tells == Plugins!Tells(ps)
  <2> HIDE DEF ps, ok, files, libs, scripts
  <2>5. /\ \A p \in libs : s4[p] = 0
        /\ s4 \in [Plugins!Registrable -> {0, 1}]
    <3>1. \A p \in libs : s4[p] = 0
      BY <2>3 DEF PlugInv, PlugKnown
    <3> QED BY <3>1 DEF PlugInv, PlugOnce1
  <2>6. /\ s4' \in [Plugins!Registrable -> {0, 1}]
        /\ \A p \in Plugins!Registrable : s4[p] # 0 => s4'[p] # 0
        /\ (ok # {} => \A p \in scripts : s4'[p] # 0)
        /\ \A p \in Natives : s4'[p] # 0 => s4[p] # 0 \/ (ok # {} /\ p \in libs)
    <3>1. CASE ok = {}
      BY <2>1, <2>5, <3>1
    <3>2. CASE ok # {}
      <4>1. s4' = Plugins!Registered(s4, libs, scripts)
        BY <2>1, <3>2
      <4>2. Natives \cap Pythons = {}
        BY PlugCardinality DEF PlugBounds
      <4>3. PlugGrown(Plugins!Registered(s4, libs, scripts), s4, libs, scripts)
        BY <2>3, <2>5, PlugRegisters
      <4>4. Natives \cap scripts = {}
        BY <2>3, <4>2
      <4> QED BY <3>2, <4>1, <4>3, <4>4 DEF PlugGrown
    <3> QED BY <3>1, <3>2
  <2>7. /\ s5' \subseteq Plugins!Registrable \cup {"freed"} /\ s5 \subseteq s5'
        /\ (ok # {} => libs \subseteq s5')
        /\ ("freed" \in s5' => "freed" \in s5 \/ (ok # {} /\ scripts # {}))
    <3>1. s5 \subseteq Plugins!Registrable \cup {"freed"}
          /\ libs \subseteq Plugins!Registrable /\ "freed" \notin libs
      BY PlugCardinality, <2>3 DEF PlugInv, PlugTyped, Plugins!Registrable,
         Plugins!Offered, PlugBounds
    <3>2. CASE ok = {}
      BY <2>1, <3>1, <3>2
    <3>3. CASE ok # {} /\ scripts = {}
      BY <2>1, <3>1, <3>3
    <3>4. CASE ok # {} /\ scripts # {}
      BY <2>1, <3>1, <3>4
    <3> QED BY <3>2, <3>3, <3>4
  <2>8. PlugKnown'
    BY <2>6, <2>7 DEF PlugInv, PlugKnown
  <2>9. /\ Pythons \subseteq Plugins!Registrable
        /\ ((\E p \in Pythons : s4[p] # 0) => \E p \in Pythons : s4'[p] # 0)
        /\ (ok # {} /\ scripts # {} => \E p \in Pythons : s4'[p] # 0)
    <3>1. Pythons \subseteq Plugins!Registrable
      BY DEF Plugins!Registrable, Plugins!Offered
    <3> QED BY <2>3, <2>6, <3>1
  <2>10. PlugFreed'
    BY <2>7, <2>9 DEF PlugInv, PlugFreed
  <2>11. /\ s15' \in {"none", "window", "name"}
         /\ (s15' = "name" => ok # {} /\ searched)
         /\ (s15' = "window" => s8 = "dead")
         /\ s10' \in BOOLEAN
         /\ s11' \in {s11, "successful", "partially", "failed"}
    <3>1. CASE s8 = "none" \/ ~s10
      BY <2>1, <3>1 DEF PlugInv, PlugTyped
    <3>2. CASE ~ (s8 = "none" \/ ~s10)
      BY <2>1, <2>2, <3>2
    <3> QED BY <3>1, <3>2
  <2>12. /\ s14' \subseteq {"orphan", "dropped", "wrong"} /\ s14 \subseteq s14'
         /\ ("wrong" \in s14' => "wrong" \in s14 \/ "dropped" \in s14')
    <3>1. s14 \subseteq {"orphan", "dropped", "wrong"}
      BY DEF PlugInv, PlugTyped
    <3>2. CASE Len(Plugins!Read(ps)) < Len(ps)
      BY <2>1, <3>1, <3>2
    <3>3. CASE ~ (Len(Plugins!Read(ps)) < Len(ps))
      <4>1. ~ (Plugins!Tells(ps) = "successful" /\ Plugins!Cardinality(ok) < Len(ps))
        BY <2>2, <3>3
      <4>2. s14' = s14
        BY <2>1, <3>3, <4>1
      <4> QED BY <3>1, <4>2
    <3> QED BY <3>2, <3>3
  <2>13. PlugFaults'
    BY <1>0, <2>3, <2>9, <2>11, <2>12 DEF PlugInv, PlugFaults, PlugFreed
  <2>14. PlugTyped'
    BY <1>0, <1>1, <2>1, <2>4, <2>7, <2>11, <2>12 DEF PlugInv, PlugTyped
  <2>15. Plugins!SecretFirst' /\ Plugins!DownloadTold' /\ PlugOnce1'
    BY <1>0, <2>6, <2>12 DEF PlugInv, Plugins!SecretFirst, Plugins!DownloadTold, PlugOnce1
  <2> QED BY <1>1, <2>8, <2>10, <2>13, <2>14, <2>15 DEF PlugInv
<1> QED BY <1>3, <1>4

\* Every event keeps the invariant.
LEMMA PlugStepInv == ASSUME PlugBounds, PlugInv, [Plugins!Next]_(Plugins!vars) PROVE PlugInv'
<1>1. CASE UNCHANGED Plugins!vars
  <2>1. UNCHANGED <<s1, s2, s3, s4, s5, s6, s7, s8>>
    BY <1>1 DEF Plugins!vars
  <2>2. UNCHANGED <<s9, s10, s11, s12, s13, s14, s15>>
    BY <1>1 DEF Plugins!vars
  <2> QED BY <2>1, <2>2 DEF PlugInv, PlugTyped, PlugOnce1, PlugKnown, PlugFreed, PlugRoom,
     PlugFaults, Plugins!SecretFirst, Plugins!DownloadTold
<1>2. CASE Plugins!Next
  BY <1>2, PlugWindowStep, PlugOnDownloadStep, PlugAnswerStep, PlugParseListStep,
     PlugDownloadStep DEF Plugins!Next
<1> QED BY <1>1, <1>2

-----------------------------------------------------------------------------
(* The password of a profile (src/src/remmina_file.c).                     *)
(* The variables: s1 world, s2 disk, s3 keyring, s4 copy, s5 saved, s6     *)
(* hist, s7 fault.                                                         *)

StoreBounds == "none" \notin SavedPasswords

\* The password a profile has when it is loaded in a world.
StoreLoadedIn(w) ==
    IF s2.pw.kind = "absent" THEN "none"
    ELSE IF s2.pw.kind = "dot"
    THEN IF w = "plugin" THEN "raw" ELSE IF w = "service" THEN "" ELSE Store!Lookup
    ELSE IF s2.pw.kind # "cipher" THEN ""
    ELSE IF w = "plugin" THEN "raw"
    ELSE IF s2.pw.key = (IF w = "key" THEN 2 ELSE 1) THEN s2.pw.v ELSE "junk"

\* What was saved is what is read in the world it was saved in, whichever is there now; the
\* copies in memory were made in this one; of a profile that is not on disk nothing is known.
StoreInv ==
    /\ Store!TypeOK
    /\ s2.exists /\ s5.v \notin {"unknown", "."} => StoreLoadedIn(s5.world) = s5.v
    /\ Store!SecretsForgotten /\ Store!StoreFaults
    /\ \A c \in Copies : s4[c].live =>
          s4[c].plugin = Store!Plugin /\ (s4[c].sp => Store!Plugin /\ Store!Service)
    /\ ~s2.exists => s5.v = "unknown" /\ s2.pw.kind = "absent"

\* The password that is loaded is that of this world.
LEMMA StoreLoadedHere == StoreLoadedIn(s1) = Store!Loaded
<1>1. CASE s2.pw.kind = "dot"
  BY <1>1 DEF StoreLoadedIn, Store!Loaded, Store!Plugin, Store!Service,
     Store!remmina_crypt_decrypt
<1>2. CASE s2.pw.kind = "cipher"
  BY <1>2 DEF StoreLoadedIn, Store!Loaded, Store!Plugin, Store!Key,
     Store!remmina_crypt_decrypt
<1>3. CASE s2.pw.kind \notin {"dot", "cipher"}
  BY <1>3 DEF StoreLoadedIn, Store!Loaded, Store!remmina_crypt_decrypt
<1> QED BY <1>1, <1>2, <1>3

\* It holds of a profile that was never saved.
LEMMA StoreInitInv == ASSUME StoreBounds, Store!Init PROVE StoreInv
<1>1. Store!Form("absent", "none", 0) \in [kind : Store!Kinds, v : Store!Values, key : 0 .. 2]
  BY DEF Store!Form, Store!Kinds, Store!Values
<1>2. Store!TypeOK
  <2>1. Store!Gone \in [live : BOOLEAN, named : BOOLEAN, pw : Store!Values, sp : BOOLEAN,
                  disabled : BOOLEAN, plugin : BOOLEAN]
    BY DEF Store!Gone, Store!Values, Store!InMemory
  <2>2. s4 \in [Copies -> [live : BOOLEAN, named : BOOLEAN, pw : Store!Values, sp : BOOLEAN,
                            disabled : BOOLEAN, plugin : BOOLEAN]]
    BY <2>1 DEF Store!Init
  <2> QED BY <1>1, <2>2 DEF Store!Init, Store!TypeOK, Store!Worlds, Store!Values
<1>3. \A c \in Copies : ~s4[c].live
  BY DEF Store!Init, Store!Gone
<1>4. s2.exists = FALSE /\ s5.v = "unknown" /\ s2.pw.kind = "absent" /\ s3 = "none" /\ s7 = "none"
  BY DEF Store!Init, Store!Form
<1> QED BY <1>2, <1>3, <1>4 DEF StoreInv, Store!SecretsForgotten, Store!StoreFaults

\* What is loaded is a password, or none.
LEMMA StoreLoadedTyped ==
    ASSUME StoreInv
    PROVE  Store!Loaded \in Store!Values
BY DEF StoreInv, Store!TypeOK, Store!Loaded, Store!Lookup, Store!remmina_crypt_decrypt,
   Store!Values, Store!InMemory, Store!Kinds

\* A step that changes only the copies keeps what is on disk and what is known of it.
LEMMA StoreCopyStep ==
    ASSUME StoreBounds, StoreInv, UNCHANGED <<s1, s2, s3, s5, s6, s7>>,
           s4' \in [Copies -> [live : BOOLEAN, named : BOOLEAN, pw : Store!Values, sp : BOOLEAN,
                            disabled : BOOLEAN, plugin : BOOLEAN]],
           \A c \in Copies : s4'[c].live =>
              /\ s4'[c].plugin = Store!Plugin
              /\ s4'[c].sp => Store!Plugin /\ Store!Service
    PROVE  StoreInv'
BY DEF StoreInv, Store!TypeOK, Store!SecretsForgotten, Store!StoreFaults, Store!Plugin,
   Store!Service, StoreLoadedIn, Store!Lookup

\* One copy is given another content.
LEMMA StoreCopySet ==
    ASSUME StoreBounds, StoreInv, UNCHANGED <<s1, s2, s3, s5, s6, s7>>, NEW c \in Copies,
           NEW r \in [live : BOOLEAN, named : BOOLEAN, pw : Store!Values, sp : BOOLEAN,
                     disabled : BOOLEAN, plugin : BOOLEAN],
           s4' = [s4 EXCEPT ![c] = r],
           r.live => /\ r.plugin = Store!Plugin
                     /\ r.sp => Store!Plugin /\ Store!Service
    PROVE  StoreInv'
<1>1. /\ s4 \in [Copies -> [live : BOOLEAN, named : BOOLEAN, pw : Store!Values, sp : BOOLEAN,
                            disabled : BOOLEAN, plugin : BOOLEAN]]
      /\ \A d \in Copies : s4[d].live =>
            /\ s4[d].plugin = Store!Plugin
            /\ s4[d].sp => Store!Plugin /\ Store!Service
  BY DEF StoreInv, Store!TypeOK
<1>2. /\ s4' \in [Copies -> [live : BOOLEAN, named : BOOLEAN, pw : Store!Values, sp : BOOLEAN,
                             disabled : BOOLEAN, plugin : BOOLEAN]]
      /\ \A d \in Copies : s4'[d] = IF d = c THEN r ELSE s4[d]
  BY <1>1
<1> QED BY <1>1, <1>2, StoreCopyStep

\* The save of a copy, with the password that it has or is given.
LEMMA StoreSaveStep ==
    ASSUME StoreBounds, StoreInv, s7 = "none",
           NEW r \in [live : BOOLEAN, named : BOOLEAN, pw : Store!Values, sp : BOOLEAN,
                      disabled : BOOLEAN, plugin : BOOLEAN],
           r.plugin = Store!Plugin, Store!Save(r), UNCHANGED s1
    PROVE  /\ s2' \in [exists : BOOLEAN, pw : [kind : Store!Kinds, v : Store!Values,
              key : 0 .. 2]]
           /\ s3' \in Store!Values
           /\ s5' \in [v : Store!Values \cup {"unknown"}, world : Store!Worlds]
           /\ s6' \in [away : BOOLEAN, failed : BOOLEAN, emptied : BOOLEAN]
           /\ s7' \in {"none", "plugin"}
           /\ (s2.exists /\ s5.v \notin {"unknown", "."} =>
                  StoreLoadedIn(s5.world) = s5.v)'
           /\ Store!SecretsForgotten' /\ Store!StoreFaults'
           /\ (~s2.exists => s5.v = "unknown" /\ s2.pw.kind = "absent")'
<1>1. CASE ~r.named
  BY <1>1 DEF Store!Save, StoreInv, Store!TypeOK, Store!SecretsForgotten,
     Store!StoreFaults, Store!Plugin, StoreLoadedIn, Store!Lookup
<1>2. CASE r.named /\ ~r.plugin
  BY <1>2 DEF Store!Save, StoreInv, Store!TypeOK, Store!SecretsForgotten,
     Store!StoreFaults, Store!Plugin, StoreLoadedIn, Store!Lookup
<1>3. CASE r.named /\ r.plugin /\ r.pw = "none"
  <2>1. PICK written \in BOOLEAN :
            s2' = [s2 EXCEPT !.exists = @ \/ written] /\ UNCHANGED <<s3, s5, s6, s7>>
    BY <1>3 DEF Store!Save
  <2>2. s2.exists \/ (s5.v = "unknown" /\ s2.pw.kind = "absent")
    BY DEF StoreInv
  <2>3. /\ s2' \in [exists : BOOLEAN, pw : [kind : Store!Kinds, v : Store!Values, key : 0 .. 2]]
        /\ s2'.pw = s2.pw /\ s2'.exists = (s2.exists \/ written)
    BY <2>1 DEF StoreInv, Store!TypeOK
  <2> QED BY <2>1, <2>2, <2>3 DEF StoreInv, Store!TypeOK, Store!SecretsForgotten,
     Store!StoreFaults, Store!Plugin, StoreLoadedIn, Store!Lookup
<1>4. CASE r.named /\ r.plugin /\ r.pw # "none"
  <2>1. PICK kept, written \in BOOLEAN :
            /\ s3' = Store!Stored(kept, r.pw, r.disabled)
            /\ s2' = IF written THEN [exists |-> TRUE, pw |-> Store!Written(r.pw, r.disabled)]
                                  ELSE s2
            /\ s5' = [v |-> IF ~kept \/ ~written THEN "unknown"
                               ELSE IF r.disabled THEN "" ELSE r.pw,
                         world |-> s1]
            /\ s6' = [away |-> s6.away \/ ~Store!Service,
                        failed |-> s6.failed \/ ~kept \/ ~written,
                        emptied |-> s6.emptied \/ (r.disabled /\ r.pw \in {"", "."})]
            /\ UNCHANGED s7
    BY <1>4 DEF Store!Save
  <2>2. Store!Written(r.pw, r.disabled) \in [kind : Store!Kinds, v : Store!Values, key : 0 .. 2]
    <3>1. r.pw \in Store!Values /\ "none" \in Store!Values /\ Store!Key \in 0 .. 2
      BY DEF Store!Values, Store!Key
    <3>2. /\ Store!Form("empty", "none", 0) \in [kind : Store!Kinds, v : Store!Values,
             key : 0 .. 2]
          /\ Store!Form("dot", "none", 0) \in [kind : Store!Kinds, v : Store!Values,
             key : 0 .. 2]
          /\ Store!Form("cipher", r.pw, Store!Key) \in [kind : Store!Kinds,
             v : Store!Values, key : 0 .. 2]
      BY <3>1 DEF Store!Form, Store!Kinds
    <3> QED BY <3>2 DEF Store!Written, Store!remmina_crypt_encrypt
  <2>3. Store!Stored(kept, r.pw, r.disabled) \in Store!Values
    BY DEF Store!Stored, Store!KeyringAfter, Store!Values, StoreInv, Store!TypeOK
  <2>4. /\ s2' \in [exists : BOOLEAN, pw : [kind : Store!Kinds, v : Store!Values, key : 0 .. 2]]
        /\ s3' \in Store!Values
        /\ s5' \in [v : Store!Values \cup {"unknown"}, world : Store!Worlds]
        /\ s7' \in {"none", "plugin"}
    BY <2>1, <2>2, <2>3 DEF StoreInv, Store!TypeOK, Store!Values, Store!InMemory
  <2>5. s6' \in [away : BOOLEAN, failed : BOOLEAN, emptied : BOOLEAN]
    BY <2>1
  <2>6. (s2.exists /\ s5.v \notin {"unknown", "."} => StoreLoadedIn(s5.world) = s5.v)'
    BY <2>1, <1>4 DEF StoreLoadedIn, Store!Lookup, Store!Written, Store!Stored,
       Store!KeyringAfter, Store!Form, Store!remmina_crypt_encrypt, Store!Key,
       Store!Plugin, Store!Service, StoreInv, Store!TypeOK
  <2>7. Store!SecretsForgotten'
    BY <2>1 DEF Store!SecretsForgotten, Store!Written, Store!Stored, Store!KeyringAfter,
       Store!Form, Store!remmina_crypt_encrypt, Store!Service, StoreInv, Store!TypeOK
  <2>8. Store!StoreFaults'
    BY <2>1 DEF Store!StoreFaults
  <2>9. (~s2.exists => s5.v = "unknown" /\ s2.pw.kind = "absent")'
    BY <2>1 DEF StoreInv
  <2> QED BY <2>4, <2>5, <2>6, <2>7, <2>8, <2>9
<1> QED BY <1>1, <1>2, <1>3, <1>4 DEF Store!Save

\* Every step keeps it.
LEMMA StoreStepInv == ASSUME StoreBounds, StoreInv, [Store!Next]_(Store!vars) PROVE StoreInv'
<1> DEFINE CopyType == [live : BOOLEAN, named : BOOLEAN, pw : Store!Values, sp : BOOLEAN,
                        disabled : BOOLEAN, plugin : BOOLEAN]
<1>0. /\ Store!Gone \in CopyType /\ s4 \in [Copies -> CopyType]
      /\ Store!Plugin \in BOOLEAN /\ Store!Service \in BOOLEAN
  BY DEF Store!Gone, Store!Values, Store!InMemory, StoreInv, Store!TypeOK, Store!Plugin,
     Store!Service
<1>1. ASSUME NEW c \in Copies, Store!remmina_file_load(c) PROVE StoreInv'
  BY <1>0, <1>1, StoreCopyStep, StoreLoadedTyped DEF Store!remmina_file_load, Store!Gone,
     StoreInv
<1>2. ASSUME NEW c \in Copies, Store!remmina_file_new(c) PROVE StoreInv'
  <2>1. PICK n \in BOOLEAN :
           s4' = [s4 EXCEPT ![c] =
                       [Store!Gone EXCEPT !.live = TRUE, !.named = n, !.pw = "none",
                                          !.plugin = Store!Plugin]]
    BY <1>2 DEF Store!remmina_file_new
  <2> DEFINE r == [Store!Gone EXCEPT !.live = TRUE, !.named = n, !.pw = "none",
                                     !.plugin = Store!Plugin]
  <2>2. r \in CopyType /\ r.plugin = Store!Plugin /\ ~r.sp
    BY <1>0 DEF Store!Gone, Store!Values
  <2>3. s4' = [s4 EXCEPT ![c] = r] /\ UNCHANGED <<s1, s2, s3, s5, s6, s7>>
    BY <1>2, <2>1 DEF Store!remmina_file_new
  <2> HIDE DEF r, CopyType
  <2> QED BY <2>2, <2>3, StoreCopySet DEF CopyType
<1>3. ASSUME NEW c \in Copies, Store!remmina_file_set_string(c) PROVE StoreInv'
  <2>1. CASE \E v \in Store!InMemory : s4' = [s4 EXCEPT ![c].pw = v]
    <3>1. PICK v \in Store!InMemory : s4' = [s4 EXCEPT ![c].pw = v]
      BY <2>1
    <3>2. v \in Store!Values
      BY DEF Store!InMemory, Store!Values, StoreBounds
    <3> QED BY <1>0, <1>3, <3>1, <3>2, StoreCopyStep DEF Store!remmina_file_set_string,
       StoreInv
  <2>2. CASE s4' = [s4 EXCEPT ![c].disabled = ~@]
    <3> DEFINE r == [s4[c] EXCEPT !.disabled = ~@]
    <3>1. r \in CopyType /\ r.plugin = s4[c].plugin /\ r.pw = s4[c].pw /\ r.sp = s4[c].sp
      BY <1>0
    <3>2. s4' = [s4 EXCEPT ![c] = r] /\ UNCHANGED <<s1, s2, s3, s5, s6, s7>> /\ s4[c].live
      BY <1>3, <2>2 DEF Store!remmina_file_set_string
    <3> HIDE DEF r, CopyType
    <3>3. /\ s4[c].plugin = Store!Plugin
          /\ s4[c].sp => Store!Plugin /\ Store!Service
      BY <3>2 DEF StoreInv
    <3> QED BY <3>1, <3>2, <3>3, StoreCopySet DEF CopyType
  <2> QED BY <1>3, <2>1, <2>2 DEF Store!remmina_file_set_string
<1>4. ASSUME NEW c \in Copies, Store!remmina_file_free(c) PROVE StoreInv'
  BY <1>0, <1>4, StoreCopyStep DEF Store!remmina_file_free, Store!Gone, StoreInv
<1>5. ASSUME NEW c \in Copies, Store!remmina_file_save(c) PROVE StoreInv'
  <2>1. s4[c] \in CopyType /\ s4[c].plugin = Store!Plugin
    BY <1>0, <1>5 DEF Store!remmina_file_save, StoreInv
  <2> QED BY <1>5, <2>1, StoreSaveStep DEF Store!remmina_file_save, StoreInv, Store!TypeOK,
     Store!Plugin, Store!Service
<1>6. ASSUME NEW c \in Copies,
             Store!remmina_file_store_secret_plugin_password(c) PROVE StoreInv'
  <2>1. PICK v \in SavedPasswords :
          IF s4[c].sp
          THEN /\ s3' = v
               /\ s5' = [v |-> IF s2.pw.kind = "dot" THEN v ELSE "unknown",
                            world |-> s1]
               /\ s6' = [s6 EXCEPT !.failed = @ \/ s2.pw.kind # "dot" \/ ~s2.exists]
               /\ UNCHANGED <<s2, s4, s7>>
          ELSE /\ s4' = [s4 EXCEPT ![c].pw = v]
               /\ Store!Save([s4[c] EXCEPT !.pw = v])
    BY <1>6 DEF Store!remmina_file_store_secret_plugin_password
  <2>2. v \in Store!Values /\ v # "none" /\ s1' = s1 /\ s7 = "none" /\ s4[c].live
    BY <1>6 DEF Store!remmina_file_store_secret_plugin_password, Store!Values,
       Store!InMemory, StoreBounds
  <2>3. CASE s4[c].sp
    <3>1. Store!Plugin /\ Store!Service
      BY <2>2, <2>3 DEF StoreInv
    <3>2. s6' \in [away : BOOLEAN, failed : BOOLEAN, emptied : BOOLEAN]
      BY <2>1, <2>3 DEF StoreInv, Store!TypeOK
    <3>3. Store!SecretsForgotten'
      BY <2>1, <2>3 DEF StoreInv, Store!TypeOK, Store!SecretsForgotten
    <3>4. (s2.exists /\ s5.v \notin {"unknown", "."} => StoreLoadedIn(s5.world) = s5.v)'
      <4>1. s5'.v = (IF s2.pw.kind = "dot" THEN v ELSE "unknown") /\ s5'.world = s1
        BY <2>1, <2>3
      <4> QED BY <2>1, <2>2, <2>3, <3>1, <4>1 DEF StoreLoadedIn, Store!Lookup,
         Store!Plugin, Store!Service
    <3>5. Store!TypeOK'
      BY <2>1, <2>2, <2>3, <3>2 DEF StoreInv, Store!TypeOK
    <3> QED BY <2>1, <2>2, <2>3, <3>3, <3>4, <3>5 DEF StoreInv, Store!StoreFaults,
       Store!Plugin, Store!Service
  <2>4. CASE ~s4[c].sp
    <3> DEFINE r == [s4[c] EXCEPT !.pw = v]
    <3>1. r \in CopyType /\ r.plugin = Store!Plugin
      BY <1>0, <2>2 DEF StoreInv
    <3>2. s4' = [s4 EXCEPT ![c].pw = v] /\ Store!Save(r)
      BY <2>1, <2>4
    <3> HIDE DEF r
    <3> QED BY <1>0, <2>2, <3>1, <3>2, StoreSaveStep DEF StoreInv, Store!TypeOK,
       Store!Plugin, Store!Service
  <2> QED BY <2>3, <2>4
<1>7. ASSUME NEW c \in Copies, NEW d \in Copies, Store!remmina_file_dup(c, d) PROVE StoreInv'
  <2>1. PICK n \in BOOLEAN : s4' = [s4 EXCEPT ![d] = [s4[c] EXCEPT !.sp = FALSE, !.named = n]]
    BY <1>7 DEF Store!remmina_file_dup
  <2> DEFINE r == [s4[c] EXCEPT !.sp = FALSE, !.named = n]
  <2>2. r \in CopyType /\ r.plugin = s4[c].plugin /\ r.pw = s4[c].pw /\ ~r.sp
    BY <1>0
  <2>3. s4' = [s4 EXCEPT ![d] = r] /\ UNCHANGED <<s1, s2, s3, s5, s6, s7>> /\ s4[c].live
    BY <1>7, <2>1 DEF Store!remmina_file_dup
  <2> HIDE DEF r, CopyType
  <2>4. s4[c].plugin = Store!Plugin
    BY <2>3 DEF StoreInv
  <2> QED BY <2>2, <2>3, <2>4, StoreCopySet DEF CopyType
<1>8. CASE Store!remmina_file_delete
  <2>1. PICK kept \in BOOLEAN, d \in BOOLEAN :
          /\ s3' = Store!Stored(kept /\ Store!Plugin, "", d)
          /\ s6' = [away |-> s6.away \/ ~Store!Service \/ ~Store!Plugin,
                      failed |-> s6.failed \/ ~kept,
                      emptied |-> s6.emptied \/ d]
    BY <1>8 DEF Store!remmina_file_delete
  <2>2. s6' \in [away : BOOLEAN, failed : BOOLEAN, emptied : BOOLEAN]
    BY <2>1
  <2>3. s3' \in Store!Values
    BY <2>1 DEF Store!Stored, Store!KeyringAfter, Store!Values, StoreInv, Store!TypeOK
  <2>4. Store!SecretsForgotten'
    BY <2>1 DEF Store!Stored, Store!KeyringAfter, Store!SecretsForgotten
  <2>5. s2' = [exists |-> FALSE, pw |-> Store!Form("absent", "none", 0)]
        /\ s5' = [s5 EXCEPT !.v = "unknown"] /\ UNCHANGED <<s1, s4, s7>>
    BY <1>8 DEF Store!remmina_file_delete
  <2>6. Store!Form("absent", "none", 0) \in [kind : Store!Kinds, v : Store!Values, key : 0 .. 2]
    BY DEF Store!Form, Store!Kinds, Store!Values
  <2>7. ~s2'.exists /\ s5'.v = "unknown" /\ s2'.pw.kind = "absent"
    BY <2>5 DEF StoreInv, Store!TypeOK, Store!Form
  <2>8. Store!TypeOK'
    BY <2>2, <2>3, <2>5, <2>6 DEF StoreInv, Store!TypeOK
  <2> QED BY <2>4, <2>5, <2>7, <2>8 DEF StoreInv, Store!StoreFaults, Store!Plugin,
     Store!Service
<1>9. CASE Store!Restart
  BY <1>0, <1>9 DEF Store!Restart, StoreInv, Store!TypeOK, Store!SecretsForgotten,
     Store!StoreFaults, Store!Gone, StoreLoadedIn, Store!Lookup
<1>10. CASE UNCHANGED Store!vars
  BY <1>10 DEF Store!vars, StoreInv, Store!TypeOK, Store!SecretsForgotten,
     Store!StoreFaults, Store!Plugin, Store!Service, StoreLoadedIn, Store!Lookup
<1> QED BY <1>1, <1>2, <1>3, <1>4, <1>5, <1>6, <1>7, <1>8, <1>9, <1>10 DEF Store!Next

\* What it says of a password.
LEMMA StoreInvMeans == ASSUME StoreInv PROVE Store!TypeOK /\ Store!PasswordKept
   /\ Store!SecretsForgotten /\ Store!StoreFaults
BY StoreLoadedHere DEF StoreInv, Store!PasswordKept

-----------------------------------------------------------------------------
(* The change of a password in many profiles                               *)
(* (src/src/remmina_mpchange.c).                                           *)
(* The variables: s1 dialog, s2 typed, s3 searched, s4 timer, s5 list, s6  *)
(* iter, s7 stale, s8 changed, s9 count.                                   *)

ChangeBounds == IsFiniteSet(Searched)

\* A row of the list: a profile and its tick.
ChangeListRow == [f : Searched, sel : BOOLEAN]

ChangeTyped ==
        /\ s1 \in {"none", "open", "message", "done"}
        /\ s2 \subseteq Searched /\ s3 \subseteq Searched
        /\ s4 \in BOOLEAN /\ s7 \in BOOLEAN
        /\ s5 \in Seq(ChangeListRow) /\ Len(s5) <= MultiPassword!Cardinality(Searched)
        /\ s6 \in 0 .. MultiPassword!Cardinality(Searched)
        /\ s8 \in Seq(Searched) /\ s9 \in 0 .. MultiPassword!Cardinality(Searched)

\* The types by name are those of the module.
LEMMA ChangeTypeMeans == (MultiPassword!TypeOK <=> ChangeTyped)
   /\ (MultiPassword!TypeOK' <=> ChangeTyped')
BY DEF MultiPassword!TypeOK, ChangeTyped, ChangeListRow

\* Only rows of the list that the user saw are changed, each before the next one; nothing is
\* searched meanwhile.
ChangeInv ==
    /\ MultiPassword!TypeOK /\ MultiPassword!ChangesTicked /\ MultiPassword!ChangesCounted
    /\ \A i \in DOMAIN s5 : s5[i].f \in s3
    /\ \A i, j \in DOMAIN s5 : s5[i].f = s5[j].f => i = j
    /\ s6 # 0 => s1 = "open" /\ s6 <= Len(s5) /\ s9 < s6
    /\ s6 # 0 => \A i \in DOMAIN s8 :
                      \E j \in DOMAIN s5 : j < s6 /\ s5[j].f = s8[i]
    /\ s6 = 0 /\ s1 # "done" => s8 = <<>>
    /\ ~s7

\* The module counts as the library does.
LEMMA ChangeCardinality == \A S : MultiPassword!Cardinality(S) = Cardinality(S)
BY DEF MultiPassword!Cardinality, Cardinality

\* The profiles can be counted.
LEMMA ChangeFiles_Cardinality ==
    ASSUME ChangeBounds
    PROVE  /\ MultiPassword!Cardinality(Searched) \in Nat
           /\ \A S \in SUBSET Searched : MultiPassword!Cardinality(S) \in Nat
              /\ MultiPassword!Cardinality(S) <= MultiPassword!Cardinality(Searched)
BY ChangeCardinality, FS_CardinalityType, FS_Subset DEF ChangeBounds

\* The empty list is one of every kind.
LEMMA ChangeNothing == \A S : <<>> \in Seq(S) /\ Len(<<>>) = 0 /\ DOMAIN <<>> = {}
BY EmptySeq

\* A dialog without rows has nothing to change.
LEMMA ChangeEmptyStep ==
    ASSUME ChangeBounds, s1' \in {"none", "open", "message", "done"}, s2' \subseteq Searched,
           s3' = {}, s5' = <<>>, s8' = <<>>, s9' = 0, s6' = 0, ~s7',
           s7' \in BOOLEAN, s4' \in BOOLEAN, s1' \in {"none", "done"} => ~s4'
    PROVE  ChangeInv'
<1>1. MultiPassword!TypeOK'
  BY ChangeFiles_Cardinality, ChangeNothing, ChangeTypeMeans DEF ChangeTyped
<1>2. DOMAIN s5' = {} /\ DOMAIN s8' = {} /\ Len(s8') = 0
  BY ChangeNothing
<1> QED BY <1>1, <1>2 DEF ChangeInv, MultiPassword!ChangesTicked,
   MultiPassword!ChangesCounted, MultiPassword!IsInjective, MultiPassword!Range

\* It holds before the dialog.
LEMMA ChangeInitInv == ASSUME ChangeBounds, MultiPassword!Init PROVE ChangeInv
<1>1. MultiPassword!TypeOK
  <2>1. s4 \in BOOLEAN /\ s7 \in BOOLEAN
    BY DEF MultiPassword!Init
  <2>2. 0 \in 0 .. MultiPassword!Cardinality(Searched)
        /\ Len(<<>>) <= MultiPassword!Cardinality(Searched)
    BY ChangeFiles_Cardinality, ChangeNothing
  <2>3. s5 \in Seq(ChangeListRow) /\ s8 \in Seq(Searched)
    BY ChangeNothing DEF MultiPassword!Init
  <2> QED BY <2>1, <2>2, <2>3, ChangeTypeMeans DEF ChangeTyped, MultiPassword!Init
<1>2. DOMAIN s5 = {} /\ DOMAIN s8 = {} /\ Len(s8) = 0
  BY ChangeNothing DEF MultiPassword!Init
<1> QED BY <1>1, <1>2 DEF MultiPassword!Init, ChangeInv, MultiPassword!ChangesTicked,
   MultiPassword!ChangesCounted, MultiPassword!IsInjective, MultiPassword!Range

\* The rows of a search are the profiles found, each once.
LEMMA ChangeRowsAre ==
    ASSUME ChangeBounds, NEW found \in SUBSET Searched, NEW rs \in MultiPassword!Rows(found)
    PROVE  /\ rs \in Seq(ChangeListRow) /\ Len(rs) <= MultiPassword!Cardinality(Searched)
           /\ \A i \in DOMAIN rs : rs[i].f \in found
           /\ \A i, j \in DOMAIN rs : rs[i].f = rs[j].f => i = j
<1>1. PICK order \in MultiPassword!Injection(1 .. MultiPassword!Cardinality(found), found) :
         rs = [i \in DOMAIN order |-> [f |-> order[i], sel |-> TRUE]]
  BY DEF MultiPassword!Rows
<1>2. MultiPassword!Cardinality(found) \in Nat
      /\ MultiPassword!Cardinality(found) <= MultiPassword!Cardinality(Searched)
  BY ChangeFiles_Cardinality
<1>3. /\ order \in [1 .. MultiPassword!Cardinality(found) -> found]
      /\ \A i, j \in 1 .. MultiPassword!Cardinality(found) : order[i] = order[j] => i = j
  BY <1>1 DEF MultiPassword!Injection, MultiPassword!IsInjective
<1>4. rs \in [1 .. MultiPassword!Cardinality(found) -> [f : Searched, sel : BOOLEAN]]
  BY <1>1, <1>3
<1>5. rs \in Seq(ChangeListRow) /\ Len(rs) = MultiPassword!Cardinality(found)
  <2> DEFINE R == ChangeListRow
             n == MultiPassword!Cardinality(found)
  <2>1. n \in Nat /\ rs \in [1 .. n -> R]
    BY <1>2, <1>4 DEF ChangeListRow
  <2> HIDE DEF R, n
  <2>2. rs \in Seq(R) /\ Len(rs) = n
    BY <2>1
  <2> QED BY <2>2 DEF R, n
<1>6. DOMAIN rs = DOMAIN order /\ \A i \in DOMAIN rs : rs[i].f = order[i]
  BY <1>1
<1> QED BY <1>2, <1>3, <1>5, <1>6

\* A step that changes neither the rows nor what was changed.
LEMMA ChangeFieldStep ==
    ASSUME ChangeBounds, ChangeInv, UNCHANGED <<s3, s5, s6, s7, s8, s9>>,
           s1' \in {"none", "open", "message", "done"}, s2' \subseteq Searched,
           s4' \in BOOLEAN,
           s6 # 0 => ~s4' /\ s1' = "open",
           s1' \in {"done", "none"} => ~s4' /\ s6 = 0,
           s1 = "done" => s1' = "done"
    PROVE  ChangeInv'
BY DEF ChangeInv, MultiPassword!TypeOK, MultiPassword!ChangesTicked,
   MultiPassword!ChangesCounted

\* Every step keeps it.
LEMMA ChangeStepInv == ASSUME ChangeBounds, ChangeInv,
   [MultiPassword!Next]_(MultiPassword!vars) PROVE ChangeInv'
<1>0. /\ MultiPassword!Cardinality(Searched) \in Nat /\ s5 \in Seq(ChangeListRow)
      /\ Len(s5) \in Nat /\ DOMAIN s5 = 1 .. Len(s5)
      /\ s8 \in Seq(Searched) /\ Len(s8) \in Nat /\ DOMAIN s8 = 1 .. Len(s8)
      /\ s9 = Len(s8)
  BY ChangeFiles_Cardinality, LenProperties, ChangeTypeMeans DEF ChangeTyped, ChangeInv,
     MultiPassword!ChangesCounted
<1>1. CASE MultiPassword!remmina_file_multipasswd_changer_mt
  BY <1>1, ChangeEmptyStep DEF MultiPassword!remmina_file_multipasswd_changer_mt
<1>2. CASE MultiPassword!remmina_mpchange_searchfield_changed
  BY <1>2, ChangeFieldStep DEF MultiPassword!remmina_mpchange_searchfield_changed,
     ChangeInv, MultiPassword!TypeOK
<1>3. CASE MultiPassword!remmina_mpchange_searchfield_changed_to
  <2>1. /\ s1 \in {"open", "message"} /\ s4 /\ s4' = FALSE /\ s3' = s2
        /\ s5' \in MultiPassword!Rows(s2) /\ s7' = (s6 # 0)
        /\ UNCHANGED <<s1, s2, s6, s8, s9>>
    BY <1>3 DEF MultiPassword!remmina_mpchange_searchfield_changed_to
  <2>2. s6 = 0 /\ s8 = <<>>
    BY <2>1 DEF ChangeInv, MultiPassword!ChangesTicked
  <2>3. /\ s5' \in Seq(ChangeListRow) /\ Len(s5') <= MultiPassword!Cardinality(Searched)
        /\ \A i \in DOMAIN s5' : s5'[i].f \in s3'
        /\ \A i, j \in DOMAIN s5' : s5'[i].f = s5'[j].f => i = j
    BY <2>1, ChangeRowsAre DEF ChangeInv, MultiPassword!TypeOK
  <2>4. MultiPassword!TypeOK'
    <3>1. s4' \in BOOLEAN /\ s7' \in BOOLEAN
      BY <2>1
    <3>2. ChangeTyped
      BY ChangeTypeMeans DEF ChangeInv
    <3> QED BY <2>1, <2>3, <3>1, <3>2, ChangeTypeMeans DEF ChangeTyped
  <2>5. DOMAIN s8' = {}
    BY <2>1, <2>2, ChangeNothing
  <2> QED BY <2>1, <2>2, <2>3, <2>4, <2>5 DEF ChangeInv, MultiPassword!ChangesTicked,
     MultiPassword!ChangesCounted, MultiPassword!Range
<1>4. ASSUME NEW i \in 1 .. MultiPassword!Cardinality(Searched),
             MultiPassword!remmina_mpchange_checkbox_toggle(i)
      PROVE  ChangeInv'
  <2>1. /\ s1 = "open" /\ s6 = 0 /\ i \in DOMAIN s5
        /\ s5' = [s5 EXCEPT ![i].sel = ~@]
        /\ UNCHANGED <<s1, s2, s3, s4, s6, s7, s8, s9>>
    BY <1>4 DEF MultiPassword!remmina_mpchange_checkbox_toggle
  <2>2. s8 = <<>>
    BY <2>1 DEF ChangeInv
  <2>3. /\ s5' \in Seq(ChangeListRow) /\ Len(s5') = Len(s5)
        /\ DOMAIN s5' = DOMAIN s5 /\ \A k \in DOMAIN s5 : s5'[k].f = s5[k].f
    <3>1. /\ [s5[i] EXCEPT !.sel = ~@] \in [f : Searched, sel : BOOLEAN]
          /\ [s5[i] EXCEPT !.sel = ~@].f = s5[i].f
      <4>1. s5[i] \in [f : Searched, sel : BOOLEAN]
        BY <1>0, <2>1, ElementOfSeq DEF ChangeListRow
      <4> QED BY <4>1
    <3>2. s5' = [s5 EXCEPT ![i] = [s5[i] EXCEPT !.sel = ~@]]
      BY <2>1
    <3> DEFINE R == ChangeListRow
               x == [s5[i] EXCEPT !.sel = ~@]
    <3>3. x \in R /\ x.f = s5[i].f /\ s5 \in Seq(R) /\ s5' = [s5 EXCEPT ![i] = x]
      BY <1>0, <3>1, <3>2 DEF ChangeListRow
    <3> HIDE DEF R, x
    <3>4. s5' \in Seq(R) /\ Len(s5') = Len(s5) /\ DOMAIN s5' = DOMAIN s5
          /\ \A k \in DOMAIN s5 : s5'[k] = IF k = i THEN x ELSE s5[k]
      BY <2>1, <3>3, ExceptSeq
    <3> QED BY <3>3, <3>4 DEF R
  <2>4. MultiPassword!TypeOK'
    BY <2>1, <2>3, ChangeTypeMeans DEF ChangeTyped, ChangeInv
  <2>5. DOMAIN s8' = {}
    BY <2>1, <2>2, ChangeNothing
  <2> QED BY <2>1, <2>2, <2>3, <2>4, <2>5 DEF ChangeInv, MultiPassword!ChangesTicked,
     MultiPassword!ChangesCounted, MultiPassword!Range
<1>5. CASE MultiPassword!remmina_mpchange_dochange_clicked
  <2>1. /\ s1 = "open" /\ s6 = 0 /\ s4' = FALSE /\ s8 = <<>>
        /\ UNCHANGED <<s2, s3, s5, s7>>
    BY <1>5 DEF MultiPassword!remmina_mpchange_dochange_clicked,
       MultiPassword!TimerAfterClick, ChangeInv
  <2>2. CASE s1' \in {"open", "message"} /\ UNCHANGED <<s6, s8, s9>>
    BY <2>1, <2>2, ChangeFieldStep DEF ChangeInv, MultiPassword!TypeOK
  <2>3. CASE s5 # <<>> /\ s6' = 1 /\ s8' = <<>> /\ s9' = 0 /\ UNCHANGED s1
    <3>1. Len(s5) >= 1
      BY <1>0, <2>3, EmptySeq
    <3>2. MultiPassword!TypeOK'
      <4>1. ChangeTyped
        BY ChangeTypeMeans DEF ChangeInv
      <4>2. s4' \in BOOLEAN /\ s7' \in BOOLEAN
        BY <2>1, <4>1 DEF ChangeTyped
      <4>3. s8' \in Seq(Searched) /\ s9' \in 0 .. MultiPassword!Cardinality(Searched)
            /\ s6' \in 0 .. MultiPassword!Cardinality(Searched)
        BY <1>0, <2>1, <2>3, <3>1, <4>1, ChangeNothing DEF ChangeTyped
      <4> QED BY <2>1, <2>3, <4>1, <4>2, <4>3, ChangeTypeMeans DEF ChangeTyped
    <3>3. DOMAIN s8' = {} /\ Len(s8') = 0
      BY <2>3, ChangeNothing
    <3> QED BY <1>0, <2>1, <2>3, <3>1, <3>2, <3>3 DEF ChangeInv,
       MultiPassword!ChangesTicked, MultiPassword!ChangesCounted,
       MultiPassword!IsInjective, MultiPassword!Range
  <2> QED BY <1>5, <2>1, <2>2, <2>3 DEF MultiPassword!remmina_mpchange_dochange_clicked
<1>6. CASE MultiPassword!MessageClosed
  BY <1>6, ChangeFieldStep DEF MultiPassword!MessageClosed, ChangeInv,
     MultiPassword!TypeOK, MultiPassword!ChangesTicked
<1>7. CASE MultiPassword!changenext
  <2>1. /\ s1 = "open" /\ s6 # 0 /\ ~s7 /\ s6 \in DOMAIN s5 /\ ~s4
        /\ UNCHANGED <<s2, s3, s5, s7>> /\ s6 \in Nat
    BY <1>0, <1>7 DEF MultiPassword!changenext, ChangeInv, MultiPassword!TypeOK,
       MultiPassword!ChangesTicked
  <2>2. \/ s8' = s8 /\ s9' = s9
        \/ s8' = Append(s8, s5[s6].f) /\ s9' = s9 + 1 /\ s5[s6].sel
    BY <1>7 DEF MultiPassword!changenext
  <2>3. /\ s8' \in Seq(Searched) /\ s9' = Len(s8') /\ s9' <= s6
        /\ s9' \in 0 .. MultiPassword!Cardinality(Searched)
        /\ DOMAIN s8' = 1 .. Len(s8')
    <3>1. s5[s6].f \in Searched /\ s9 < s6 /\ s6 <= MultiPassword!Cardinality(Searched)
      BY <1>0, <2>1, ElementOfSeq, ChangeTypeMeans DEF ChangeTyped, ChangeInv, ChangeListRow
    <3>2. CASE s8' = s8 /\ s9' = s9
      BY <1>0, <2>1, <3>1, <3>2
    <3>3. CASE s8' = Append(s8, s5[s6].f) /\ s9' = s9 + 1
      BY <1>0, <2>1, <3>1, <3>3, AppendProperties
    <3> QED BY <2>2, <3>2, <3>3
  <2>4. \A i \in DOMAIN s8' :
           \E j \in DOMAIN s5 : j <= s6 /\ s5[j].f = s8'[i] /\ s5[j].sel
    <3> SUFFICES ASSUME NEW i \in DOMAIN s8'
                 PROVE  \E j \in DOMAIN s5 : j <= s6 /\ s5[j].f = s8'[i] /\ s5[j].sel
      OBVIOUS
    <3>1. CASE i \in DOMAIN s8 /\ s8'[i] = s8[i]
      <4>1. PICK j \in DOMAIN s5 : j < s6 /\ s5[j].f = s8[i]
        BY <2>1, <3>1 DEF ChangeInv
      <4>2. PICK k \in DOMAIN s5 : s5[k].f = s8[i] /\ s5[k].sel
        BY <2>1, <3>1 DEF ChangeInv, MultiPassword!ChangesTicked
      <4>3. k = j
        BY <4>1, <4>2 DEF ChangeInv
      <4> QED BY <1>0, <2>1, <3>1, <4>1, <4>2, <4>3
    <3>2. CASE s8'[i] = s5[s6].f /\ s5[s6].sel
      BY <1>0, <2>1, <3>2
    <3> QED BY <1>0, <2>1, <2>2, <2>3, <3>1, <3>2, AppendProperties
  <2>5. MultiPassword!IsInjective(s8')
    <3>1. \A i \in DOMAIN s8 : s8[i] # s5[s6].f
      BY <1>0, <2>1 DEF ChangeInv
    <3>2. s5[s6].f \in Searched
      <4>1. s5[s6] \in ChangeListRow
        BY <1>0, <2>1, ElementOfSeq
      <4> QED BY <4>1 DEF ChangeListRow
    <3>3. \A i, j \in DOMAIN s8 : s8[i] = s8[j] => i = j
      BY DEF ChangeInv, MultiPassword!ChangesCounted, MultiPassword!IsInjective
    <3>4. CASE s8' = Append(s8, s5[s6].f)
      <4>1. /\ Len(s8') = Len(s8) + 1 /\ s8'[Len(s8) + 1] = s5[s6].f
            /\ \A i \in 1 .. Len(s8) : s8'[i] = s8[i]
        BY <1>0, <3>2, <3>4, AppendProperties
      <4> QED BY <1>0, <2>3, <3>1, <3>3, <4>1 DEF MultiPassword!IsInjective
    <3> QED BY <2>2, <3>3, <3>4 DEF MultiPassword!IsInjective
  <2>6. MultiPassword!Range(s8') \subseteq s3
    BY <2>1, <2>4 DEF MultiPassword!Range, ChangeInv
  <2>7. CASE s6 < Len(s5)
    <3>1. s6' = s6 + 1 /\ UNCHANGED <<s1, s4>>
      BY <1>7, <2>7 DEF MultiPassword!changenext
    <3> QED BY <1>0, <2>1, <2>3, <2>4, <2>5, <2>6, <2>7, <3>1 DEF ChangeInv,
       MultiPassword!TypeOK, MultiPassword!ChangesTicked, MultiPassword!ChangesCounted
  <2>8. CASE ~(s6 < Len(s5))
    <3>1. s6' = 0 /\ s1' = "done" /\ s4' = FALSE
      BY <1>7, <2>8 DEF MultiPassword!changenext
    <3>2. MultiPassword!TypeOK'
      <4>1. ChangeTyped
        BY ChangeTypeMeans DEF ChangeInv
      <4>2. s4' \in BOOLEAN /\ s7' \in BOOLEAN
        BY <2>1, <3>1, <4>1 DEF ChangeTyped
      <4> QED BY <1>0, <2>1, <2>3, <3>1, <4>1, <4>2, ChangeTypeMeans DEF ChangeTyped
    <3>3. MultiPassword!ChangesTicked' /\ MultiPassword!ChangesCounted'
      BY <2>1, <2>3, <2>4, <2>5, <2>6, <3>1 DEF ChangeInv, MultiPassword!ChangesTicked,
         MultiPassword!ChangesCounted
    <3> QED BY <2>1, <3>1, <3>2, <3>3 DEF ChangeInv
  <2> QED BY <2>7, <2>8
<1>8. CASE MultiPassword!Close
  <2>1. MultiPassword!TypeOK'
    <3>1. ChangeTyped
      BY ChangeTypeMeans DEF ChangeInv
    <3>2. s4' \in BOOLEAN /\ s7' \in BOOLEAN
      BY <1>8, <3>1 DEF ChangeTyped, MultiPassword!Close
    <3> QED BY <1>0, <1>8, <3>1, <3>2, ChangeTypeMeans DEF ChangeTyped, MultiPassword!Close
  <2>2. MultiPassword!ChangesTicked'
    BY <1>8 DEF MultiPassword!Close, ChangeInv, MultiPassword!ChangesTicked
  <2> QED BY <1>8, <2>1, <2>2 DEF MultiPassword!Close, ChangeInv,
     MultiPassword!ChangesCounted
<1>9. CASE MultiPassword!End
  BY <1>9, ChangeEmptyStep DEF MultiPassword!End, ChangeInv, MultiPassword!TypeOK,
     MultiPassword!ChangesCounted
<1>10. CASE UNCHANGED MultiPassword!vars
  BY <1>10 DEF MultiPassword!vars, ChangeInv, MultiPassword!TypeOK,
     MultiPassword!ChangesTicked, MultiPassword!ChangesCounted
<1> QED BY <1>1, <1>2, <1>3, <1>4, <1>5, <1>6, <1>7, <1>8, <1>9,
   <1>10 DEF MultiPassword!Next

-----------------------------------------------------------------------------
(* The editor of a profile (src/src/remmina_file_editor.c).                *)
(* The variables: s1 disk, s2 editor, s3 conn, s4 kept, s5 hist, s6        *)
(* fault.                                                                  *)

EditorBounds == FileEditor!Unnamed \notin Names /\ MaxIds \in Nat
   /\ CopyName \in [Names -> Names]

\* The widgets that the pointers of an editor are to are there, or are not read.
EditPointersGood(e) ==
    /\ FileEditor!HasTunnel(e.protocol) => e.ptr["tunnel"] = "live"
       /\ e.ptr["passphrase"] = "live"
    /\ ~FileEditor!HasTunnel(e.protocol) => e.ptr["tunnel"] = "null"
    /\ FileEditor!HasAssistance(e.protocol) => e.ptr["assistance"] = "live"

\* The file that an editor would delete has no profile that was saved, but its own or one that
\* has another file, too.
EditFileMeant(e, d, saved) ==
    e.file # FileEditor!Unnamed =>
       \/ d[e.file].id = e.id
       \/ d[e.file].id \notin saved
       \/ \E m \in Names : m # e.file /\ d[m].id = d[e.file].id

\* The profile in the editor is on disk under the file name of the editor, or nowhere.
EditFileKnown(e, d) == \A n \in Names : d[n].id = e.id => e.id = 0 \/ n = e.file

EditInv ==
    /\ FileEditor!TypeOK /\ FileEditor!ProfilesStay /\ FileEditor!OneFile
       /\ FileEditor!NoStaleWidget
    /\ s2.open => EditPointersGood(s2) /\ s2.id # 0
    /\ s2.fresh => s2.id \notin s4
    /\ EditFileMeant(s2, s1, s4) \/ s5.excused
    /\ EditFileKnown(s2, s1) \/ s5.revived

EditorType == [open : BOOLEAN, fresh : BOOLEAN, file : Names \cup {FileEditor!Unnamed},
               id : 0 .. MaxIds, name : Names \cup {FileEditor!Unnamed}, key : FileEditor!Keys,
               entry : Names \cup {FileEditor!Unnamed}, protocol : FileEditor!Protocols,
                  chosen : FileEditor!Keys,
               ptr : [{"tunnel", "passphrase", "assistance"} -> FileEditor!Pointer]]

\* No editor is of the type.
LEMMA EditClosedTyped ==
    ASSUME EditorBounds
    PROVE  FileEditor!Closed \in EditorType /\ FileEditor!Closed.id = 0
           /\ ~FileEditor!Closed.open /\ ~FileEditor!Closed.fresh
           /\ FileEditor!Closed.file = FileEditor!Unnamed
<1>1. FileEditor!NoPointers \in [{"tunnel", "passphrase", "assistance"} -> FileEditor!Pointer]
  BY DEF FileEditor!NoPointers, FileEditor!Pointer
<1> QED BY <1>1 DEF FileEditor!Closed, EditorType, EditorBounds, FileEditor!Keys,
   FileEditor!Protocols

\* It holds before the first editor.
LEMMA EditInitInv == ASSUME EditorBounds, FileEditor!Init PROVE EditInv
<1>1. FileEditor!TypeOK
  BY EditClosedTyped DEF FileEditor!Init, FileEditor!TypeOK, EditorType, EditorBounds,
     FileEditor!Nobody, FileEditor!NoConn, FileEditor!Keys, FileEditor!Ids
<1>2. \A n \in Names : s1[n].id = 0
  BY DEF FileEditor!Init, FileEditor!Nobody
<1> QED BY <1>1, <1>2, EditClosedTyped DEF FileEditor!Init, EditInv,
   FileEditor!ProfilesStay, FileEditor!OneFile, FileEditor!NoStaleWidget, EditFileMeant,
   EditFileKnown

\* What a change of the protocol makes of an editor.
LEMMA EditWithProtocolDoes ==
    ASSUME NEW e \in EditorType, NEW p \in FileEditor!Protocols
    PROVE  /\ FileEditor!WithProtocol(e, p) \in EditorType
           /\ EditPointersGood(FileEditor!WithProtocol(e, p))
           /\ FileEditor!WithProtocol(e, p).open = e.open
              /\ FileEditor!WithProtocol(e, p).fresh = e.fresh
           /\ FileEditor!WithProtocol(e, p).id = e.id
              /\ FileEditor!WithProtocol(e, p).file = e.file
<1> DEFINE t == FileEditor!Reset(FileEditor!Destroyed(e.ptr))
           c == FileEditor!Created(t, p)
           P == {"tunnel", "passphrase", "assistance"}
<1>1. e.ptr \in [P -> FileEditor!Pointer]
  BY DEF EditorType
<1>2. FileEditor!Destroyed(e.ptr) \in [P -> FileEditor!Pointer]
  BY <1>1 DEF FileEditor!Destroyed, FileEditor!Pointer
<1>3. t \in [P -> FileEditor!Pointer] /\ t["tunnel"] = "null"
  BY <1>2 DEF FileEditor!Reset, FileEditor!Pointer
<1>4. /\ c \in [P -> FileEditor!Pointer]
      /\ FileEditor!HasTunnel(p) => c["tunnel"] = "live" /\ c["passphrase"] = "live"
      /\ ~FileEditor!HasTunnel(p) => c["tunnel"] = "null"
      /\ FileEditor!HasAssistance(p) => c["assistance"] = "live"
  <2> HIDE DEF t
  <2> QED BY <1>3 DEF FileEditor!Created, FileEditor!Pointer
<1>5. (IF FileEditor!HasTunnel(p) THEN e.key ELSE "") \in FileEditor!Keys
  BY DEF EditorType, FileEditor!Keys
<1>6. FileEditor!WithProtocol(e, p) =
         [e EXCEPT !.protocol = p, !.ptr = c, !.chosen = IF FileEditor!HasTunnel(p)
            THEN e.key ELSE ""]
  BY DEF FileEditor!WithProtocol
<1> HIDE DEF c
<1> QED BY <1>4, <1>5, <1>6 DEF EditorType, EditPointersGood

\* The file name that is generated changes nothing else of an editor.
LEMMA EditGeneratedIs ==
    ASSUME NEW e \in EditorType, NEW readable \in BOOLEAN
    PROVE  /\ FileEditor!Generated(e, readable) \in EditorType
           /\ FileEditor!Generated(e,
              readable) = [e EXCEPT !.file = FileEditor!Generated(e, readable).file]
           /\ FileEditor!Generated(e, readable).file # FileEditor!Unnamed
              => FileEditor!Generated(e, readable).file \in Names
BY DEF FileEditor!Generated, EditorType

\* A new profile is not one that was saved or that is on disk.
LEMMA EditNewIdIs == ASSUME EditorBounds, NEW i \in FileEditor!NewId
                 PROVE  /\ i \in 0 .. MaxIds /\ i # 0 /\ i \notin s4
                        /\ \A n \in Names : s1[n].id # i
BY DEF FileEditor!NewId, FileEditor!Ids, FileEditor!Used, EditorBounds

\* What is deleted is gone, the rest stays.
LEMMA EditDeletedIs ==
    ASSUME EditInv, EditorBounds, NEW f
    PROVE  /\ FileEditor!Deleted(s1, f) \in [Names -> [id : 0 .. MaxIds, key : FileEditor!Keys]]
           /\ \A n \in Names : FileEditor!Deleted(s1, f)[n].id = IF n = f THEN 0 ELSE s1[n].id
<1>1. s1 \in [Names -> [id : 0 .. MaxIds, key : FileEditor!Keys]]
  BY DEF EditInv, FileEditor!TypeOK
<1>2. FileEditor!Nobody \in [id : 0 .. MaxIds, key : FileEditor!Keys]
      /\ FileEditor!Nobody.id = 0
  BY DEF FileEditor!Nobody, FileEditor!Keys, EditorBounds
<1>3. FileEditor!Deleted(s1, f) = [n \in Names |-> IF n = f THEN FileEditor!Nobody ELSE s1[n]]
  BY DEF FileEditor!Deleted
<1> QED BY <1>1, <1>2, <1>3

\* An editor that is open uses no widget that was freed.
LEMMA EditFreedUnused ==
    ASSUME EditInv, s2.open PROVE ~FileEditor!UsesFreed(s2)
BY DEF EditInv, FileEditor!UsesFreed, EditPointersGood, FileEditor!HasAssistance,
   FileEditor!HasTunnel, FileEditor!TypeOK, FileEditor!Protocols

\* The editor opens with a profile that it may save and delete.
LEMMA EditOpenStep ==
    ASSUME EditorBounds, EditInv, NEW e \in EditorType, NEW p \in FileEditor!Protocols,
           FileEditor!Opened(e, p),
           UNCHANGED <<s1, s3, s4, s6>>,
           s5' \in [excused : BOOLEAN, revived : BOOLEAN], s5'.revived = s5.revived,
           s5.excused => s5'.excused,
           e.id # 0, e.fresh => e.id \notin s4,
           EditFileMeant(e, s1, s4) \/ s5'.excused,
           EditFileKnown(e, s1) \/ s5.revived
    PROVE  EditInv'
<1> DEFINE o == [e EXCEPT !.open = TRUE, !.entry = e.name]
<1>1. o \in EditorType /\ o.fresh = e.fresh /\ o.id = e.id /\ o.file = e.file
  BY DEF EditorType
<1>2. s2' = FileEditor!WithProtocol(o, p)
  BY DEF FileEditor!Opened
<1> HIDE DEF o
<1>3. s2' \in EditorType /\ EditPointersGood(s2') /\ s2'.fresh = e.fresh
      /\ s2'.id = e.id /\ s2'.file = e.file
  BY <1>1, <1>2, EditWithProtocolDoes
<1>4. EditPointersGood(s2)'
  BY <1>3 DEF EditPointersGood
<1>5. FileEditor!TypeOK'
  BY <1>3 DEF EditInv, FileEditor!TypeOK, EditorType
<1>6. EditFileMeant(s2', s1, s4) \/ s5'.excused
  BY <1>3 DEF EditFileMeant
<1>7. EditFileKnown(s2', s1) \/ s5.revived
  BY <1>3 DEF EditFileKnown
<1> QED BY <1>3, <1>4, <1>5, <1>6, <1>7 DEF EditInv, FileEditor!ProfilesStay,
   FileEditor!OneFile, FileEditor!NoStaleWidget, EditFileMeant, EditFileKnown

\* A step that changes neither the files nor what the editor may do with them.
LEMMA EditStep ==
    ASSUME EditorBounds, EditInv, UNCHANGED <<s1, s4, s5, s6>>,
           s2' \in EditorType,
           s3' \in [file : Names \cup {FileEditor!Unnamed}, id : 0 .. MaxIds,
              key : FileEditor!Keys, saves : BOOLEAN],
           \/ /\ s2'.fresh = s2.fresh /\ s2'.id = s2.id /\ s2'.file = s2.file
              /\ s2'.open => s2.open /\ EditPointersGood(s2')
           \/ s2' = FileEditor!Closed
    PROVE  EditInv'
<1>1. FileEditor!TypeOK'
  BY DEF EditInv, FileEditor!TypeOK, EditorType
<1>2. CASE s2' = FileEditor!Closed
  <2>1. s2'.id = 0 /\ ~s2'.open /\ ~s2'.fresh /\ s2'.file = FileEditor!Unnamed
    BY <1>2, EditClosedTyped
  <2> QED BY <1>1, <2>1 DEF EditInv, FileEditor!ProfilesStay, FileEditor!OneFile,
     FileEditor!NoStaleWidget, EditFileMeant, EditFileKnown
<1>3. CASE /\ s2'.fresh = s2.fresh /\ s2'.id = s2.id /\ s2'.file = s2.file
           /\ s2'.open => s2.open /\ EditPointersGood(s2')
  BY <1>1, <1>3 DEF EditInv, FileEditor!ProfilesStay, FileEditor!OneFile,
     FileEditor!NoStaleWidget, EditFileMeant, EditFileKnown, EditPointersGood
<1> QED BY <1>2, <1>3

\* A letter of the name of a new profile is typed.
LEMMA EditEntryStep ==
    ASSUME EditorBounds, EditInv, NEW n \in Names, NEW readable \in BOOLEAN,
           FileEditor!entry_on_changed(n, readable)
    PROVE  EditInv'
<1>0. s2 \in EditorType /\ s2.open /\ UNCHANGED <<s3, s4, s6>>
  BY DEF EditInv, FileEditor!TypeOK, EditorType, FileEditor!entry_on_changed
<1> DEFINE o == [s2 EXCEPT !.entry = n]
<1>1. o \in EditorType /\ o.fresh = s2.fresh /\ o.id = s2.id /\ o.file = s2.file
      /\ o.open = s2.open /\ EditPointersGood(o)
  BY <1>0 DEF EditorType, EditInv, EditPointersGood
<1>2. CASE ~s2.fresh
  <2>1. s2' = o /\ UNCHANGED <<s1, s3, s4, s5, s6>>
    BY <1>2 DEF FileEditor!entry_on_changed, FileEditor!Listens
  <2> HIDE DEF o
  <2> QED BY <1>1, <2>1, EditStep DEF EditInv, FileEditor!TypeOK
<1>3. CASE s2.fresh
  <2> DEFINE e == FileEditor!Generated(o, readable)
  <2>1. /\ s1' = FileEditor!Deleted(s1, s2.file) /\ s2' = e
        /\ s5' = [s5 EXCEPT !.excused = @ \/ FileEditor!Meets(e) \/ ~readable]
    BY <1>3 DEF FileEditor!entry_on_changed, FileEditor!Listens
  <2> HIDE DEF o
  <2>2. /\ e \in EditorType /\ e = [o EXCEPT !.file = e.file]
        /\ e.file # FileEditor!Unnamed => e.file \in Names
    BY <1>1, EditGeneratedIs
  <2> HIDE DEF e
  <2>3. e.fresh /\ e.id = s2.id /\ e.open /\ EditPointersGood(e)
    BY <1>0, <1>1, <1>3, <2>2 DEF EditorType, EditPointersGood
  <2>4. /\ s1' \in [Names -> [id : 0 .. MaxIds, key : FileEditor!Keys]]
        /\ \A m \in Names : s1'[m].id = IF m = s2.file THEN 0 ELSE s1[m].id
    BY <2>1, EditDeletedIs
  <2>5. /\ s5' \in [excused : BOOLEAN, revived : BOOLEAN]
        /\ s5'.excused = (s5.excused \/ FileEditor!Meets(e) \/ ~readable)
        /\ s5'.revived = s5.revived
    BY <2>1 DEF EditInv, FileEditor!TypeOK
  <2>6. FileEditor!TypeOK'
    BY <1>0, <2>1, <2>2, <2>4, <2>5 DEF EditInv, FileEditor!TypeOK, EditorType
  <2>7. FileEditor!ProfilesStay'
    <3>1. ASSUME ~s5.excused, NEW x \in s4 PROVE \E m \in Names : s1'[m].id = x
      <4>1. PICK m \in Names : s1[m].id = x
        BY <3>1 DEF EditInv, FileEditor!ProfilesStay
      <4>2. x # 0 /\ x # s2.id
        BY <1>3 DEF EditInv, FileEditor!TypeOK, FileEditor!Ids, EditorBounds
      <4>3. CASE m = s2.file
        <5>1. \E k \in Names : k # m /\ s1[k].id = x
          BY <3>1, <4>1, <4>2, <4>3 DEF EditInv, EditFileMeant, EditorBounds
        <5> QED BY <2>4, <4>3, <5>1
      <4>4. CASE m # s2.file
        BY <2>4, <4>1, <4>4
      <4> QED BY <4>3, <4>4
    <3> QED BY <1>0, <2>5, <3>1 DEF FileEditor!ProfilesStay
  <2>8. FileEditor!OneFile'
    BY <2>4, <2>5 DEF EditInv, FileEditor!OneFile
  <2>9. EditFileMeant(e, s1', s4) \/ s5'.excused
    <3>1. ASSUME ~FileEditor!Meets(e), e.file # FileEditor!Unnamed
          PROVE  s1'[e.file].id \in {0, e.id}
      BY <2>2, <2>4, <3>1 DEF FileEditor!Meets
    <3>2. 0 \notin s4
      BY DEF EditInv, FileEditor!TypeOK, FileEditor!Ids, EditorBounds
    <3> QED BY <2>5, <3>1, <3>2 DEF EditFileMeant
  <2>10. EditFileKnown(e, s1') \/ s5'.revived
    BY <2>3, <2>4, <2>5 DEF EditFileKnown, EditInv
  <2>11. s2'.open => EditPointersGood(s2')
    BY <2>1, <2>3
  <2> QED BY <1>0, <1>3, <2>1, <2>3, <2>6, <2>7, <2>8, <2>9, <2>10, <2>11 DEF EditInv,
     FileEditor!NoStaleWidget, EditFileMeant, EditFileKnown, EditPointersGood
<1> QED BY <1>2, <1>3

\* The profile is saved, and the editor closed.
LEMMA EditSaveStep ==
    ASSUME EditorBounds, EditInv, NEW connects \in BOOLEAN, NEW readable \in BOOLEAN,
           NEW written \in BOOLEAN, FileEditor!on_save(connects, readable, written)
    PROVE  EditInv'
<1> DEFINE e == FileEditor!Updated(s2)
           g == FileEditor!Generated(e, readable)
<1>0. /\ s2 \in EditorType /\ s2.open /\ s2.entry # FileEditor!Unnamed
      /\ s2' = FileEditor!Closed /\ s6' = (s6 \/ FileEditor!UsesFreed(s2))
      /\ FileEditor!Save(e, readable, written)
      /\ s3' = IF connects /\ s3 = FileEditor!NoConn
                 THEN [file |-> g.file, id |-> e.id, key |-> e.key, saves |-> TRUE] ELSE s3
  BY DEF EditInv, FileEditor!TypeOK, EditorType, FileEditor!on_save, FileEditor!Ready
<1>1. /\ e \in EditorType /\ e.id = s2.id /\ e.file = s2.file /\ e.name = s2.entry
      /\ e.name \in Names
  BY <1>0 DEF FileEditor!Updated, EditorType
<1>2. s6' = FALSE
  BY <1>0, EditFreedUnused DEF EditInv, FileEditor!NoStaleWidget, FileEditor!TypeOK
<1> HIDE DEF e
<1>3. g \in EditorType /\ g.id = e.id
      /\ g.file = IF readable THEN e.name ELSE FileEditor!Unnamed
  BY <1>1 DEF FileEditor!Generated, FileEditor!InFileName, EditorType, EditorBounds
<1> HIDE DEF g
<1>4. s3' \in [file : Names \cup {FileEditor!Unnamed}, id : 0 .. MaxIds,
      key : FileEditor!Keys, saves : BOOLEAN]
  BY <1>0, <1>1, <1>3 DEF EditInv, FileEditor!TypeOK, EditorType
<1>5. /\ s1' = FileEditor!Saved(e, readable /\ written) /\ s4' = s4 \cup {e.id}
      /\ s5' = [s5 EXCEPT !.excused = @ \/ FileEditor!Meets(g) \/ ~(readable /\ written)]
  BY <1>0 DEF FileEditor!Save, g
<1>6. /\ s5' \in [excused : BOOLEAN, revived : BOOLEAN]
      /\ s5'.excused = (s5.excused \/ FileEditor!Meets(g) \/ ~(readable /\ written))
      /\ s5'.revived = s5.revived
  BY <1>5 DEF EditInv, FileEditor!TypeOK
<1>7. /\ s1' \in [Names -> [id : 0 .. MaxIds, key : FileEditor!Keys]]
      /\ \A m \in Names : s1'[m].id = IF readable /\ written /\ m = e.name THEN e.id
                                        ELSE IF m = e.file THEN 0 ELSE s1[m].id
  <2>1. /\ FileEditor!Deleted(s1, e.file) \in [Names -> [id : 0 .. MaxIds,
           key : FileEditor!Keys]]
        /\ \A n \in Names : FileEditor!Deleted(s1, e.file)[n].id = IF n = e.file
           THEN 0 ELSE s1[n].id
    BY EditDeletedIs
  <2> DEFINE gone == FileEditor!Deleted(s1, e.file)
  <2>2. s1' = IF ~(readable /\ written) THEN gone
                ELSE [gone EXCEPT ![e.name] = [id |-> e.id, key |-> e.key]]
    BY <1>5 DEF FileEditor!Saved
  <2> HIDE DEF gone
  <2>3. [id |-> e.id, key |-> e.key] \in [id : 0 .. MaxIds, key : FileEditor!Keys]
    BY <1>1 DEF EditorType
  <2> QED BY <1>1, <2>1, <2>2, <2>3 DEF gone
<1>8. e.id # 0 /\ e.id \in FileEditor!Ids
  BY <1>0, <1>1 DEF EditInv, EditorType, FileEditor!Ids, EditorBounds
<1>9. FileEditor!TypeOK'
  BY <1>0, <1>2, <1>4, <1>5, <1>6, <1>7, <1>8, EditClosedTyped DEF EditInv,
     FileEditor!TypeOK, EditorType
<1>10. FileEditor!ProfilesStay'
  <2>1. ASSUME ~s5'.excused, NEW x \in s4' PROVE \E m \in Names : s1'[m].id = x
    <3>1. readable /\ written /\ s1[e.name].id \in {0, e.id} /\ ~s5.excused
      BY <1>1, <1>3, <1>6, <2>1 DEF FileEditor!Meets, EditorBounds
    <3>2. CASE x = e.id
      BY <1>1, <1>7, <3>1, <3>2
    <3>3. CASE x # e.id
      <4>1. x \in s4 /\ x # 0
        BY <1>5, <3>3 DEF EditInv, FileEditor!TypeOK, FileEditor!Ids, EditorBounds
      <4>2. PICK m \in Names : s1[m].id = x
        BY <3>1, <4>1 DEF EditInv, FileEditor!ProfilesStay
      <4>3. m # e.name
        BY <3>1, <3>3, <4>1, <4>2
      <4>4. CASE m = e.file
        <5>1. PICK k \in Names : k # m /\ s1[k].id = x
          BY <1>1, <3>1, <3>3, <4>1, <4>2, <4>4 DEF EditInv, EditFileMeant, EditorBounds
        <5>2. k # e.name
          BY <3>1, <3>3, <4>1, <5>1
        <5> QED BY <1>7, <4>4, <5>1, <5>2
      <4>5. CASE m # e.file
        BY <1>7, <4>2, <4>3, <4>5
      <4> QED BY <4>4, <4>5
    <3> QED BY <3>2, <3>3
  <2> QED BY <1>6, <2>1 DEF FileEditor!ProfilesStay
<1>11. FileEditor!OneFile'
  BY <1>1, <1>6, <1>7 DEF EditInv, FileEditor!OneFile, EditFileKnown
<1> QED BY <1>0, <1>2, <1>9, <1>10, <1>11, EditClosedTyped DEF EditInv,
   FileEditor!NoStaleWidget, EditFileMeant, EditFileKnown

\* A connection saves the profile that it has, under the name that this was loaded from.
LEMMA EditConnectionStep ==
    ASSUME EditorBounds, EditInv, FileEditor!ConnectionSaves PROVE EditInv'
<1>0. /\ s3.file \in Names /\ s3.id \in 0 .. MaxIds /\ s3.key \in FileEditor!Keys
      /\ s1' = [s1 EXCEPT ![s3.file] = [id |-> s3.id, key |-> s3.key]]
      /\ s5' = [s5 EXCEPT !.excused = @ \/ FileEditor!Meets(s3),
                              !.revived = @ \/ s1[s3.file].id # s3.id]
      /\ UNCHANGED <<s2, s3, s4, s6>>
  BY DEF FileEditor!ConnectionSaves, EditInv, FileEditor!TypeOK
<1>1. /\ s1' \in [Names -> [id : 0 .. MaxIds, key : FileEditor!Keys]]
      /\ \A m \in Names : s1'[m].id = IF m = s3.file THEN s3.id ELSE s1[m].id
  BY <1>0 DEF EditInv, FileEditor!TypeOK
<1>2. /\ s5' \in [excused : BOOLEAN, revived : BOOLEAN]
      /\ s5'.excused = (s5.excused \/ FileEditor!Meets(s3))
      /\ s5'.revived = (s5.revived \/ s1[s3.file].id # s3.id)
  BY <1>0 DEF EditInv, FileEditor!TypeOK
<1>3. FileEditor!TypeOK'
  BY <1>0, <1>1, <1>2 DEF EditInv, FileEditor!TypeOK
<1>4. 0 \notin s4
  BY DEF EditInv, FileEditor!TypeOK, FileEditor!Ids, EditorBounds
<1>5. ~s5'.excused => s1[s3.file].id \in {0, s3.id} /\ ~s5.excused
  BY <1>0, <1>2 DEF FileEditor!Meets, EditorBounds
<1>6. FileEditor!ProfilesStay'
  <2>1. ASSUME ~s5'.excused, NEW x \in s4 PROVE \E m \in Names : s1'[m].id = x
    <3>1. PICK m \in Names : s1[m].id = x
      BY <1>5, <2>1 DEF EditInv, FileEditor!ProfilesStay
    <3> QED BY <1>1, <1>4, <1>5, <2>1, <3>1
  <2> QED BY <1>0, <2>1 DEF FileEditor!ProfilesStay
<1>7. FileEditor!OneFile'
  BY <1>0, <1>1, <1>2, ZenonT(30) DEF EditInv, FileEditor!OneFile
<1>8. EditFileMeant(s2, s1', s4) \/ s5'.excused
  <2>1. SUFFICES ASSUME ~s5'.excused, s2.file # FileEditor!Unnamed,
                        s1'[s2.file].id # s2.id, s1'[s2.file].id \in s4
                 PROVE  \E m \in Names : m # s2.file /\ s1'[m].id = s1'[s2.file].id
    BY DEF EditFileMeant
  <2>2. s2.file \in Names
    BY <2>1 DEF EditInv, FileEditor!TypeOK
  <2>3. CASE s1[s3.file].id = s3.id
    <3>1. \A m \in Names : s1'[m].id = s1[m].id
      BY <1>1, <2>3
    <3> QED BY <1>5, <2>1, <2>2, <3>1 DEF EditInv, EditFileMeant
  <2>4. CASE s1[s3.file].id # s3.id /\ s3.file # s2.file
    <3>1. s1[s3.file].id = 0 /\ s1'[s2.file].id = s1[s2.file].id
      BY <1>1, <1>5, <2>1, <2>2, <2>4
    <3>2. PICK m \in Names : m # s2.file /\ s1[m].id = s1[s2.file].id
      BY <1>5, <2>1, <2>2, <3>1 DEF EditInv, EditFileMeant
    <3>3. m # s3.file
      BY <1>4, <2>1, <3>1, <3>2
    <3> QED BY <1>1, <3>1, <3>2, <3>3
  <2>5. CASE s1[s3.file].id # s3.id /\ s3.file = s2.file
    <3>1. s1[s3.file].id = 0 /\ s1'[s2.file].id = s3.id
      BY <1>1, <1>5, <2>1, <2>2, <2>5
    <3>2. PICK m \in Names : s1[m].id = s3.id
      BY <1>5, <2>1, <3>1 DEF EditInv, FileEditor!ProfilesStay
    <3> QED BY <1>1, <2>5, <3>1, <3>2
  <2> QED BY <2>3, <2>4, <2>5
<1>9. EditFileKnown(s2, s1') \/ s5'.revived
  BY <1>0, <1>1, <1>2 DEF EditInv, EditFileKnown
<1> QED BY <1>0, <1>3, <1>6, <1>7, <1>8, <1>9 DEF EditInv, FileEditor!NoStaleWidget,
   EditFileMeant, EditFileKnown, EditPointersGood

\* A profile is deleted in the list.
LEMMA EditDeleteStep ==
    ASSUME EditorBounds, EditInv, NEW n \in Names, FileEditor!DeleteInList(n) PROVE EditInv'
<1>0. /\ s1[n].id # 0 /\ s1' = FileEditor!Deleted(s1, n) /\ s4' = s4 \ {s1[n].id}
      /\ UNCHANGED <<s2, s3, s5, s6>>
  BY DEF FileEditor!DeleteInList
<1>1. /\ s1' \in [Names -> [id : 0 .. MaxIds, key : FileEditor!Keys]]
      /\ \A m \in Names : s1'[m].id = IF m = n THEN 0 ELSE s1[m].id
  BY <1>0, EditDeletedIs
<1>2. FileEditor!TypeOK'
  BY <1>0, <1>1 DEF EditInv, FileEditor!TypeOK
<1>3. FileEditor!ProfilesStay'
  <2>1. ASSUME ~s5.excused, NEW x \in s4' PROVE \E m \in Names : s1'[m].id = x
    <3>1. PICK m \in Names : s1[m].id = x
      BY <1>0, <2>1 DEF EditInv, FileEditor!ProfilesStay
    <3> QED BY <1>0, <1>1, <3>1
  <2> QED BY <1>0, <2>1 DEF FileEditor!ProfilesStay
<1>4. FileEditor!OneFile'
  BY <1>0, <1>1 DEF EditInv, FileEditor!OneFile
<1>5. EditFileMeant(s2, s1', s4') \/ s5.excused
  <2>1. SUFFICES ASSUME ~s5.excused, s2.file # FileEditor!Unnamed,
                        s1'[s2.file].id # s2.id, s1'[s2.file].id \in s4'
                 PROVE  \E m \in Names : m # s2.file /\ s1'[m].id = s1'[s2.file].id
    BY DEF EditFileMeant
  <2>2. s2.file \in Names /\ 0 \notin s4
    BY <2>1 DEF EditInv, FileEditor!TypeOK, FileEditor!Ids, EditorBounds
  <2>3. s2.file # n /\ s1'[s2.file].id = s1[s2.file].id
    BY <1>0, <1>1, <2>1, <2>2
  <2>4. PICK m \in Names : m # s2.file /\ s1[m].id = s1[s2.file].id
    BY <1>0, <2>1, <2>2, <2>3 DEF EditInv, EditFileMeant
  <2> QED BY <1>0, <1>1, <2>1, <2>3, <2>4
<1>6. EditFileKnown(s2, s1') \/ s5.revived
  BY <1>1 DEF EditInv, EditFileKnown
<1> QED BY <1>0, <1>2, <1>3, <1>4, <1>5, <1>6 DEF EditInv, FileEditor!NoStaleWidget,
   EditFileMeant, EditFileKnown, EditPointersGood

\* Every step of the editor, the list and a connection keeps it.
LEMMA EditStepInv == ASSUME EditorBounds, EditInv,
   [FileEditor!Next]_(FileEditor!vars) PROVE EditInv'
<1>0. /\ s2 \in EditorType
      /\ s3 \in [file : Names \cup {FileEditor!Unnamed}, id : 0 .. MaxIds,
         key : FileEditor!Keys, saves : BOOLEAN]
      /\ s1 \in [Names -> [id : 0 .. MaxIds, key : FileEditor!Keys]]
      /\ s5 \in [excused : BOOLEAN, revived : BOOLEAN]
  BY DEF EditInv, FileEditor!TypeOK, EditorType
<1>1. CASE FileEditor!remmina_file_editor_new
  <2>1. PICK i \in FileEditor!NewId,
        p \in FileEditor!Protocols : FileEditor!Opened([FileEditor!Closed EXCEPT !.fresh
        = TRUE, !.id = i], p)
    BY <1>1 DEF FileEditor!remmina_file_editor_new
  <2> DEFINE e == [FileEditor!Closed EXCEPT !.fresh = TRUE, !.id = i]
  <2>2. i \in 0 .. MaxIds /\ i # 0 /\ i \notin s4 /\ \A n \in Names : s1[n].id # i
    BY EditNewIdIs
  <2>3. e \in EditorType /\ e.id = i /\ e.file = FileEditor!Unnamed
    BY <2>2, EditClosedTyped DEF EditorType
  <2>4. FileEditor!Opened(e, p)
    BY <2>1
  <2> HIDE DEF e
  <2> QED BY <1>0, <1>1, <2>2, <2>3, <2>4,
     EditOpenStep DEF FileEditor!remmina_file_editor_new, EditFileMeant, EditFileKnown
<1>2. ASSUME NEW n \in Names, FileEditor!remmina_file_editor_new_copy(n) PROVE EditInv'
  <2> DEFINE e(i) == FileEditor!Generated([FileEditor!Closed EXCEPT !.id = i,
      !.name = CopyName[n], !.key = s1[n].key],
                               TRUE)
  <2>1. PICK i \in FileEditor!NewId, p \in FileEditor!Protocols :
           FileEditor!Opened(e(i), p)
              /\ s5' = [s5 EXCEPT !.excused = @ \/ FileEditor!Meets(e(i))]
    BY <1>2 DEF FileEditor!remmina_file_editor_new_copy
  <2>2. i \in 0 .. MaxIds /\ i # 0 /\ i \notin s4 /\ \A m \in Names : s1[m].id # i
    BY EditNewIdIs
  <2>3. /\ e(i) \in EditorType /\ e(i).id = i /\ e(i).file \in Names /\ ~e(i).fresh
    <3> DEFINE o == [FileEditor!Closed EXCEPT !.id = i, !.name = CopyName[n], !.key = s1[n].key]
    <3>1. CopyName[n] \in Names /\ s1[n].key \in FileEditor!Keys
      BY <1>0 DEF EditorBounds
    <3>2. o \in EditorType /\ o.id = i /\ o.name \in Names /\ ~o.fresh
      BY <2>2, <3>1, EditClosedTyped DEF EditorType
    <3> HIDE DEF o
    <3>3. o.name # FileEditor!Unnamed
      BY <3>2 DEF EditorBounds
    <3> QED BY <3>2, <3>3 DEF FileEditor!Generated, FileEditor!InFileName, EditorType, o
  <2> HIDE DEF e
  <2>4. /\ s5' \in [excused : BOOLEAN, revived : BOOLEAN] /\ s5'.revived = s5.revived
        /\ s5'.excused = (s5.excused \/ FileEditor!Meets(e(i)))
    BY <1>0, <2>1
  <2>5. EditFileMeant(e(i), s1, s4) \/ s5'.excused
    <3>1. 0 \notin s4
      BY DEF EditInv, FileEditor!TypeOK, FileEditor!Ids, EditorBounds
    <3> QED BY <2>3, <2>4, <3>1 DEF EditFileMeant, FileEditor!Meets
  <2>6. EditFileKnown(e(i), s1)
    BY <2>2, <2>3 DEF EditFileKnown
  <2>7. UNCHANGED <<s1, s3, s4, s6>> /\ FileEditor!Opened(e(i), p)
    BY <1>2, <2>1 DEF FileEditor!remmina_file_editor_new_copy
  <2> QED BY <1>0, <2>2, <2>3, <2>4, <2>5, <2>6, <2>7, EditOpenStep
<1>3. ASSUME NEW n \in Names, FileEditor!remmina_file_editor_new_from_filename(n) PROVE EditInv'
  <2> DEFINE e == [FileEditor!Closed EXCEPT !.file = n, !.id = s1[n].id, !.name = n,
      !.key = s1[n].key]
  <2>1. PICK p \in FileEditor!Protocols : FileEditor!Opened(e, p)
    BY <1>3 DEF FileEditor!remmina_file_editor_new_from_filename
  <2>2. e \in EditorType /\ e.id = s1[n].id /\ e.file = n /\ ~e.fresh
    BY <1>0, EditClosedTyped DEF EditorType
  <2>3. s1[n].id # 0 /\ UNCHANGED <<s1, s3, s4, s5, s6>>
    BY <1>3 DEF FileEditor!remmina_file_editor_new_from_filename
  <2> HIDE DEF e
  <2>4. EditFileMeant(e, s1, s4)
    BY <2>2 DEF EditFileMeant
  <2>5. EditFileKnown(e, s1) \/ s5.revived
    BY <2>2, <2>3 DEF EditFileKnown, EditInv, FileEditor!OneFile
  <2> QED BY <1>0, <2>1, <2>2, <2>3, <2>4, <2>5, EditOpenStep
<1>4. ASSUME NEW p \in FileEditor!Protocols,
             FileEditor!protocol_combo_on_changed(p) PROVE EditInv'
  BY <1>0, <1>4, EditWithProtocolDoes, EditStep DEF FileEditor!protocol_combo_on_changed
<1>5. ASSUME NEW k \in FileEditor!Keys, FileEditor!Choose(k) PROVE EditInv'
  <2>1. /\ s2'.fresh = s2.fresh /\ s2'.id = s2.id /\ s2'.file = s2.file
        /\ s2.open /\ EditPointersGood(s2') /\ s2' \in EditorType
    BY <1>0, <1>5 DEF FileEditor!Choose, EditorType, EditInv, EditPointersGood
  <2> QED BY <1>0, <1>5, <2>1, EditStep DEF FileEditor!Choose
<1>6. ASSUME NEW n \in Names, NEW readable \in BOOLEAN, FileEditor!entry_on_changed(n,
             readable) PROVE EditInv'
  BY <1>6, EditEntryStep
<1>7. ASSUME NEW c \in BOOLEAN, NEW readable \in BOOLEAN, NEW written \in BOOLEAN,
             FileEditor!on_save(c, readable, written)
      PROVE  EditInv'
  BY <1>7, EditSaveStep
<1>8. CASE FileEditor!on_connect
  <2>1. s3' \in [file : Names \cup {FileEditor!Unnamed}, id : 0 .. MaxIds,
        key : FileEditor!Keys, saves : BOOLEAN]
    BY <1>0, <1>8 DEF FileEditor!on_connect, EditorType
  <2>2. s6' = s6
    BY <1>8, EditFreedUnused DEF FileEditor!on_connect, FileEditor!Ready, EditInv,
       FileEditor!NoStaleWidget, FileEditor!TypeOK
  <2> QED BY <1>8, <2>1, <2>2, EditClosedTyped, EditStep DEF FileEditor!on_connect
<1>9. CASE FileEditor!on_default
  <2>1. /\ s2'.fresh = s2.fresh /\ s2'.id = s2.id /\ s2'.file = s2.file
        /\ s2.open /\ EditPointersGood(s2') /\ s2' \in EditorType
    BY <1>0, <1>9 DEF FileEditor!on_default, FileEditor!Ready, FileEditor!Updated,
       EditorType, EditInv, EditPointersGood
  <2>2. s6' = s6
    BY <1>9, EditFreedUnused DEF FileEditor!on_default, FileEditor!Ready, EditInv,
       FileEditor!NoStaleWidget, FileEditor!TypeOK
  <2> QED BY <1>0, <1>9, <2>1, <2>2, EditStep DEF FileEditor!on_default
<1>10. CASE FileEditor!on_cancel
  BY <1>0, <1>10, EditClosedTyped, EditStep DEF FileEditor!on_cancel
<1>11. ASSUME NEW n \in Names, FileEditor!rcw_open_from_filename(n) PROVE EditInv'
  BY <1>0, <1>11, EditStep DEF FileEditor!rcw_open_from_filename, EditInv
<1>12. CASE FileEditor!ConnectionSaves
  BY <1>12, EditConnectionStep
<1>13. CASE FileEditor!ConnectionEnds
  <2>1. FileEditor!NoConn \in [file : Names \cup {FileEditor!Unnamed}, id : 0 .. MaxIds,
        key : FileEditor!Keys, saves : BOOLEAN]
    BY DEF FileEditor!NoConn, EditorBounds, FileEditor!Keys
  <2> QED BY <1>0, <1>13, <2>1, EditStep DEF FileEditor!ConnectionEnds, EditInv
<1>14. ASSUME NEW n \in Names, FileEditor!DeleteInList(n) PROVE EditInv'
  BY <1>14, EditDeleteStep
<1>15. CASE UNCHANGED FileEditor!vars
  BY <1>0, <1>15, EditStep DEF FileEditor!vars, EditInv
<1> QED BY <1>1, <1>2, <1>3, <1>4, <1>5, <1>6, <1>7, <1>8, <1>9, <1>10, <1>11, <1>12, <1>13,
     <1>14, <1>15 DEF FileEditor!Next

-----------------------------------------------------------------------------
\* A part of a sequence.
LEMMA Cut ==
    ASSUME NEW S, NEW s \in Seq(S), NEW m \in Nat \ {0}, NEW n \in Nat, n <= Len(s), m <= n + 1
    PROVE  /\ SubSeq(s, m, n) \in Seq(S) /\ Len(SubSeq(s, m, n)) = n - m + 1
           /\ DOMAIN SubSeq(s, m, n) = 1 .. n - m + 1
           /\ \A i \in 1 .. n - m + 1 : SubSeq(s, m, n)[i] = s[m + i - 1]
<1> DEFINE c == SubSeq(s, m, n)
<1>1. m \in Int /\ n \in Int /\ \A i \in m .. n : s[i] \in S
  BY LenProperties
<1>2. /\ c \in Seq(S) /\ Len(c) = IF m <= n THEN n - m + 1 ELSE 0
      /\ \A i \in 1 .. n - m + 1 : c[i] = s[m + i - 1]
  BY <1>1, SubSeqProperties
<1> HIDE DEF c
<1>3. Len(c) = n - m + 1
  BY <1>2
<1>4. DOMAIN c = 1 .. n - m + 1
  BY <1>2, <1>3, LenProperties
<1> QED BY <1>2, <1>3, <1>4 DEF c

\* Two sequences after each other.
LEMMA Joined ==
    ASSUME NEW S, NEW a \in Seq(S), NEW c \in Seq(S)
    PROVE  /\ a \o c \in Seq(S) /\ Len(a \o c) = Len(a) + Len(c)
           /\ DOMAIN (a \o c) = 1 .. Len(a) + Len(c)
           /\ \A i \in 1 .. Len(a) : (a \o c)[i] = a[i]
           /\ \A i \in 1 .. Len(c) : (a \o c)[Len(a) + i] = c[i]
<1> DEFINE t == a \o c
<1>1. Len(a) \in Nat /\ Len(c) \in Nat
  BY LenProperties
<1>2. /\ t \in Seq(S) /\ Len(t) = Len(a) + Len(c)
      /\ \A i \in 1 .. Len(a) + Len(c) : t[i] = IF i <= Len(a) THEN a[i] ELSE c[i - Len(a)]
  BY ConcatProperties
<1> HIDE DEF t
<1>3. DOMAIN t = 1 .. Len(a) + Len(c)
  BY <1>2, LenProperties
<1>4. \A i \in 1 .. Len(a) : t[i] = a[i]
  BY <1>1, <1>2
<1>5. \A i \in 1 .. Len(c) : t[Len(a) + i] = c[i]
  BY <1>1, <1>2
<1> QED BY <1>2, <1>3, <1>4, <1>5 DEF t

-----------------------------------------------------------------------------
(* The preferences (src/src/remmina_pref.c, remmina_pref_dialog.c).        *)
(* The variables: s1 run, s2 mem, s3 disk, s4 scheme, s5 dialog, s6        *)
(* meant, s7 hist.                                                         *)

\* The values that a start would read are those the user chose last.
PrefStoredMeant == Preferences!Or(s3.max) = s6.max /\ Preferences!Or(s3.list) = s6.list

PrefInv ==
    /\ Preferences!TypeOK /\ Preferences!ChoicesKept /\ Preferences!ColorsThere
       /\ Preferences!RecentsOnce
    /\ s3.plugin = s6.plugin
    /\ s5.open => s1
    /\ s1 => s3.there \/ ~s3.rw
    /\ ~s1 /\ ~s7.lost => PrefStoredMeant
    /\ s1 /\ ~s5.open /\ ~s7.lost /\ ~s3.there => PrefStoredMeant
    /\ s1 => s2.color # Preferences!Absent
    /\ s3.color = Preferences!Empty \/ s5.color = Preferences!Empty => s7.unnamed

PrefMemType == [max : Preferences!Values, list : Preferences!Values,
   color : Preferences!Values \cup {Preferences!Empty, Preferences!Absent}]
PrefDiskType == [there : BOOLEAN, rw : BOOLEAN, named : BOOLEAN,
   max : Preferences!Values \cup {Preferences!Absent},
             list : Preferences!Values \cup {Preferences!Absent},
                color : Preferences!Values \cup {Preferences!Absent, Preferences!Empty},
             plugin : Preferences!Values \cup {Preferences!Absent}, recent : Seq(Servers)]

PrefTyped ==
        /\ s1 \in BOOLEAN /\ s2 \in PrefMemType /\ s3 \in PrefDiskType
        /\ s4 \in Preferences!Values \cup {Preferences!Absent}
        /\ s5 \in [open : BOOLEAN, max : Preferences!Values,
           color : Preferences!Values \cup {Preferences!Empty}]
        /\ s6 \in [max : Preferences!Values, list : Preferences!Values,
           plugin : Preferences!Values \cup {Preferences!Absent}]
        /\ s7 \in [lost : BOOLEAN, unnamed : BOOLEAN]

\* The types by name are those of the module.
LEMMA PrefTypeMeans == (Preferences!TypeOK <=> PrefTyped)
   /\ (Preferences!TypeOK' <=> PrefTyped')
BY DEF Preferences!TypeOK, PrefTyped, PrefMemType, PrefDiskType

\* The values of the program are of four kinds.
LEMMA PrefKinds ==
    /\ Preferences!Values = {1, 2}
    /\ Preferences!Default = 2
    /\ Preferences!Absent = 0
    /\ Preferences!Empty = 3
BY DEF Preferences!Values, Preferences!Default, Preferences!Absent, Preferences!Empty

\* A value that is missing in the file is read as the default.
LEMMA PrefOrIs ==
    /\ \A v \in Preferences!Values \cup {Preferences!Absent} : Preferences!Or(v) \in Preferences!Values
    /\ \A v \in Preferences!Values \cup {Preferences!Empty} : Preferences!Or(v) = v
    /\ Preferences!Or(Preferences!Absent) = Preferences!Default
BY DEF Preferences!Or, Preferences!Values, Preferences!Absent, Preferences!Default,
   Preferences!Empty

\* What a save makes of the file.
LEMMA PrefSaveIs ==
    ASSUME NEW d \in PrefDiskType, NEW m \in PrefMemType
    PROVE  /\ Preferences!Save(d, m) \in PrefDiskType
           /\ Preferences!Save(d, m).there = d.there /\ Preferences!Save(d, m).rw = d.rw
              /\ Preferences!Save(d, m).plugin = d.plugin
           /\ Preferences!Save(d, m).recent = d.recent
           /\ d.there /\ d.rw => /\ Preferences!Save(d, m).named
                                 /\ Preferences!Save(d, m).max = m.max
                                    /\ Preferences!Save(d, m).list = m.list
                                 /\ Preferences!Save(d,
                                    m).color = IF m.color = Preferences!Absent
                                    THEN Preferences!Empty ELSE m.color
           /\ ~(d.there /\ d.rw) => Preferences!Save(d, m) = d
BY PrefKinds, ZenonT(30) DEF Preferences!Save, PrefDiskType, PrefMemType

\* What remmina_pref_init reads, and what it leaves in the file.
LEMMA PrefInitDoes ==
    ASSUME NEW d \in PrefDiskType, NEW m \in PrefMemType, Preferences!remmina_pref_init(d, m),
           s4' \in Preferences!Values \cup {Preferences!Absent}
    PROVE  /\ s2' \in PrefMemType /\ s3' \in PrefDiskType
           /\ s2'.max = Preferences!Or(d.max) /\ s2'.list = Preferences!Or(d.list)
           /\ s2'.color = (IF s4' # Preferences!Absent THEN s4' ELSE Preferences!Or(d.color))
           /\ s2'.color # Preferences!Absent
           /\ Preferences!Or(s3'.max) = Preferences!Or(d.max)
              /\ Preferences!Or(s3'.list) = Preferences!Or(d.list)
           /\ s3'.plugin = d.plugin /\ s3'.recent = d.recent
           /\ s3'.rw = d.rw /\ (s3'.there <=> d.there \/ d.rw)
           /\ s3'.color = d.color \/ (s3'.color = IF m.color = Preferences!Absent
              THEN Preferences!Empty ELSE m.color)
           /\ m.color = Preferences!Absent /\ s3'.color = Preferences!Empty
              /\ d.color # Preferences!Empty => d.there /\ ~d.named
<1> DEFINE r == Preferences!Read(d, m)
           e == IF d.named THEN d ELSE Preferences!Save(d, r)
<1>1. Preferences!Or(d.max) \in Preferences!Values
      /\ Preferences!Or(d.list) \in Preferences!Values
  BY PrefOrIs DEF PrefDiskType
<1>2. r \in PrefMemType /\ r.max = Preferences!Or(d.max)
      /\ r.list = Preferences!Or(d.list) /\ r.color = m.color
  BY <1>1 DEF Preferences!Read, PrefMemType
<1>3. (IF s4' # Preferences!Absent THEN s4'
      ELSE Preferences!Or(d.color)) \in Preferences!Values \cup {Preferences!Empty}
  BY PrefOrIs, PrefKinds DEF PrefDiskType
<1>4. s2' = [r EXCEPT !.color = IF s4' # Preferences!Absent THEN s4'
      ELSE Preferences!Or(d.color)]
  BY DEF Preferences!remmina_pref_init, Preferences!LoadColors
<1>5. s3' = [e EXCEPT !.there = @ \/ d.rw]
  BY DEF Preferences!remmina_pref_init
<1> HIDE DEF r
<1>6. /\ e \in PrefDiskType /\ e.there = d.there /\ e.rw = d.rw /\ e.plugin = d.plugin
      /\ e.recent = d.recent
      /\ Preferences!Or(e.max) = Preferences!Or(d.max)
         /\ Preferences!Or(e.list) = Preferences!Or(d.list)
      /\ e.color = d.color \/ (e.color = IF m.color = Preferences!Absent
         THEN Preferences!Empty ELSE m.color)
      /\ e.color # d.color => d.there /\ ~d.named
  BY <1>1, <1>2, PrefSaveIs, PrefOrIs
<1> HIDE DEF e
<1>7. s2' \in PrefMemType /\ s2'.max = r.max /\ s2'.list = r.list
      /\ s2'.color = (IF s4' # Preferences!Absent THEN s4' ELSE Preferences!Or(d.color))
  BY <1>2, <1>3, <1>4 DEF PrefMemType
<1>8. /\ s3' \in PrefDiskType /\ s3'.max = e.max /\ s3'.list = e.list /\ s3'.color = e.color
      /\ s3'.plugin = e.plugin /\ s3'.recent = e.recent /\ s3'.rw = e.rw
      /\ (s3'.there <=> e.there \/ d.rw)
  BY <1>5, <1>6 DEF PrefDiskType
<1>9. s2'.color # Preferences!Absent
  BY <1>3, <1>7, PrefKinds
<1> QED BY <1>2, <1>6, <1>7, <1>8, <1>9

\* Where the first one is found.
LEMMA PrefFirstFound ==
    ASSUME NEW list \in Seq(Servers), NEW s \in Servers, \E i \in 1 .. Len(list) : list[i] = s
    PROVE  LET k == Preferences!SelectInSeq(list, LAMBDA v : v = s)
           IN  k \in 1 .. Len(list) /\ list[k] = s
<1> DEFINE I == {i \in 1 .. Len(list) : list[i] = s}
<1>1. I # {} /\ I \subseteq Nat
  BY LenProperties
<1>2. \E i \in I : \A j \in I : i <= j
  BY <1>1, LeastOf
<1>3. Preferences!Min(I) \in I
  BY <1>2 DEF Preferences!Min
<1>4. Preferences!SelectInSeq(list, LAMBDA v : v = s) = Preferences!Min(I)
  BY <1>1 DEF Preferences!SelectInSeq
<1> QED BY <1>3, <1>4

\* A list without repetitions stays so when a server is put at its end.
LEMMA PrefRecentOnce ==
    ASSUME NEW list \in Seq(Servers), NEW s \in Servers,
           \A i, j \in DOMAIN list : list[i] = list[j] => i = j
    PROVE  /\ Preferences!Recent(list, s) \in Seq(Servers)
           /\ \A i, j \in DOMAIN Preferences!Recent(list, s) :
                 Preferences!Recent(list, s)[i] = Preferences!Recent(list, s)[j] => i = j
<1> DEFINE others == Preferences!RemoveFirst(list, s)
           n == Len(others) + 1 - Preferences!recent_maximum
           kept == IF n > 0 THEN SubSeq(others, n + 1, Len(others)) ELSE others
<1>1. /\ others \in Seq(Servers)
      /\ \A i, j \in DOMAIN others : others[i] = others[j] => i = j
      /\ \A i \in DOMAIN others : others[i] # s
  <2>1. CASE \E i \in 1 .. Len(list) : list[i] = s
    <3> DEFINE k == Preferences!SelectInSeq(list, LAMBDA v : v = s)
               a == SubSeq(list, 1, k - 1)
               c == SubSeq(list, k + 1, Len(list))
    <3>1. k \in 1 .. Len(list) /\ list[k] = s
      BY <2>1, PrefFirstFound
    <3>2. others = a \o c
      BY <2>1 DEF Preferences!RemoveFirst, Preferences!RemoveAt
    <3> HIDE DEF k
    <3>3. /\ a \in Seq(Servers) /\ Len(a) = k - 1 /\ \A i \in 1 .. k - 1 : a[i] = list[i]
      <4>1. Len(list) \in Nat /\ k - 1 \in Nat /\ k - 1 <= Len(list)
        BY <3>1, LenProperties
      <4> QED BY <4>1, Cut
    <3>4. /\ c \in Seq(Servers) /\ Len(c) = Len(list) - k
          /\ \A i \in 1 .. Len(list) - k : c[i] = list[k + i]
      <4>1. Len(list) \in Nat /\ k + 1 \in Nat \ {0} /\ k + 1 <= Len(list) + 1 /\ k \in Nat
        BY <3>1, LenProperties
      <4>2. /\ c \in Seq(Servers) /\ Len(c) = Len(list) - (k + 1) + 1
            /\ \A i \in 1 .. Len(list) - (k + 1) + 1 : c[i] = list[(k + 1) + i - 1]
        BY <4>1, Cut
      <4> HIDE DEF c
      <4> QED BY <4>1, <4>2
    <3> HIDE DEF a, c, others
    <3>5. /\ others \in Seq(Servers) /\ DOMAIN others = 1 .. (k - 1) + (Len(list) - k)
          /\ \A i \in 1 .. k - 1 : others[i] = list[i]
          /\ \A i \in 1 .. Len(list) - k : others[(k - 1) + i] = list[k + i]
      BY <3>2, <3>3, <3>4, Joined, SMTT(30)
    <3>6. Len(list) \in Nat /\ DOMAIN list = 1 .. Len(list)
      BY LenProperties
    <3>7. DOMAIN others = 1 .. Len(list) - 1
      BY <3>1, <3>5, <3>6
    <3>8. \A i \in DOMAIN others : others[i] = list[IF i < k THEN i ELSE i + 1]
      <4>1. TAKE i \in DOMAIN others
      <4>2. CASE i < k
        <5>1. i \in 1 .. k - 1
          BY <3>1, <3>6, <3>7, <4>2
        <5> QED BY <3>5, <4>2, <5>1
      <4>3. CASE ~(i < k)
        <5>1. i - (k - 1) \in 1 .. Len(list) - k
          BY <3>1, <3>6, <3>7, <4>3
        <5>2. (k - 1) + (i - (k - 1)) = i /\ k + (i - (k - 1)) = i + 1
          BY <3>1, <3>6, <3>7
        <5> QED BY <3>5, <4>3, <5>1, <5>2
      <4> QED BY <4>2, <4>3
    <3>9. ASSUME NEW i \in DOMAIN others
          PROVE  (IF i < k THEN i ELSE i + 1) \in DOMAIN list \ {k}
      BY <3>1, <3>6, <3>7
    <3>10. \A i \in DOMAIN others : others[i] # s
      BY <3>1, <3>6, <3>8, <3>9
    <3>11. \A i, j \in DOMAIN others : others[i] = others[j] => i = j
      <4>1. TAKE i, j \in DOMAIN others
      <4>2. HAVE others[i] = others[j]
      <4>3. (IF i < k THEN i ELSE i + 1) = (IF j < k THEN j ELSE j + 1)
        BY <3>8, <3>9, <4>2
      <4> QED BY <3>1, <3>6, <3>7, <4>3
    <3> QED BY <3>5, <3>10, <3>11
  <2>2. CASE ~\E i \in 1 .. Len(list) : list[i] = s
    BY <2>2, LenProperties DEF Preferences!RemoveFirst
  <2> QED BY <2>1, <2>2
<1> HIDE DEF others
<1>2. /\ kept \in Seq(Servers)
      /\ \A i, j \in DOMAIN kept : kept[i] = kept[j] => i = j
      /\ \A i \in DOMAIN kept : kept[i] # s
  <2> DEFINE c == SubSeq(others, n + 1, Len(others))
  <2>0. Preferences!recent_maximum \in Nat
    BY DEF Preferences!recent_maximum
  <2>1. n \in Int /\ n <= Len(others) + 1 /\ Len(others) \in Nat
    BY <1>1, <2>0, LenProperties
  <2>2. CASE n > 0 /\ n <= Len(others)
    <3>3. kept = c
      BY <2>2
    <3> HIDE DEF n
    <3>1. n + 1 \in Nat \ {0} /\ n + 1 <= Len(others) + 1 /\ Len(others) <= Len(others)
      BY <2>1, <2>2
    <3>2. /\ c \in Seq(Servers) /\ DOMAIN c = 1 .. Len(others) - (n + 1) + 1
          /\ \A i \in 1 .. Len(others) - (n + 1) + 1 : c[i] = others[(n + 1) + i - 1]
      <4> others \in Seq(Servers)
        BY <1>1
      <4> QED BY <2>1, <3>1, Cut
    <3>4. DOMAIN others = 1 .. Len(others)
      BY <1>1, LenProperties
    <3> HIDE DEF c, kept
    <3>5. DOMAIN c = 1 .. Len(others) - n /\ \A i \in DOMAIN c : c[i] = others[n + i]
      BY <2>1, <2>2, <3>2
    <3>6. \A i \in DOMAIN c : n + i \in DOMAIN others
      BY <2>1, <2>2, <3>4, <3>5
    <3>7. \A i \in DOMAIN c : c[i] # s
      BY <1>1, <3>5, <3>6
    <3>8. \A i, j \in DOMAIN c : c[i] = c[j] => i = j
      <4>1. TAKE i, j \in DOMAIN c
      <4>2. HAVE c[i] = c[j]
      <4>3. n + i = n + j
        BY <1>1, <3>5, <3>6, <4>2
      <4> QED BY <2>1, <3>5, <4>3
    <3> QED BY <3>2, <3>3, <3>7, <3>8
  <2>3. CASE n > Len(others) /\ n > 0
    <3>1. n + 1 \in Int /\ Len(others) \in Int /\ Len(others) < n + 1
      BY <2>1, <2>3
    <3>2. c = <<>>
      BY <3>1, SubSeqEmpty
    <3>3. kept = <<>>
      BY <2>3, <3>2
    <3>4. <<>> \in Seq(Servers) /\ DOMAIN <<>> = {}
      BY EmptySeq
    <3> HIDE DEF kept
    <3> QED BY <3>3, <3>4
  <2>4. CASE ~(n > 0)
    <3>1. kept = others
      BY <2>4
    <3> HIDE DEF kept
    <3> QED BY <1>1, <3>1
  <2>5. (n > 0 /\ n <= Len(others)) \/ (n > Len(others) /\ n > 0) \/ ~(n > 0)
    BY <2>1
  <2> QED BY <2>2, <2>3, <2>4, <2>5
<1>3. Preferences!Recent(list, s) = Append(kept, s)
  BY DEF Preferences!Recent, others
<1> HIDE DEF kept
<1>4. Len(kept) \in Nat /\ DOMAIN kept = 1 .. Len(kept)
  BY <1>2, LenProperties
<1> DEFINE t == Append(kept, s)
<1>5. /\ t \in Seq(Servers) /\ Len(t) = Len(kept) + 1
      /\ \A i \in 1 .. Len(kept) : t[i] = kept[i]
      /\ t[Len(kept) + 1] = s
  BY <1>2, AppendProperties
<1> HIDE DEF t
<1>6. DOMAIN t = 1 .. Len(kept) + 1
  BY <1>5, LenProperties
<1>7. \A i, j \in DOMAIN t : t[i] = t[j] => i = j
  BY <1>2, <1>4, <1>5, <1>6
<1> QED BY <1>3, <1>5, <1>7 DEF t

\* It holds before the first run.
LEMMA PrefInitInv == ASSUME Preferences!Init PROVE PrefInv
<1>1. s3 \in PrefDiskType /\ s2 \in PrefMemType /\ DOMAIN s3.recent = {}
  BY PrefKinds, EmptySeq DEF Preferences!Init, PrefDiskType, PrefMemType
<1>2. Preferences!TypeOK
  BY <1>1, PrefKinds DEF Preferences!Init, Preferences!TypeOK, PrefMemType, PrefDiskType,
     Preferences!Closed
<1> QED BY <1>1, <1>2, PrefKinds, PrefOrIs DEF Preferences!Init, PrefInv,
   Preferences!ChoicesKept, Preferences!ColorsThere, Preferences!RecentsOnce,
   PrefStoredMeant, Preferences!Closed

\* Every step keeps it.
LEMMA PrefStepInv == ASSUME PrefInv, [Preferences!Next]_(Preferences!vars) PROVE PrefInv'
<1>0. /\ s1 \in BOOLEAN /\ s2 \in PrefMemType /\ s3 \in PrefDiskType
      /\ s4 \in Preferences!Values \cup {Preferences!Absent}
      /\ s5 \in [open : BOOLEAN, max : Preferences!Values,
         color : Preferences!Values \cup {Preferences!Empty}]
      /\ s6 \in [max : Preferences!Values, list : Preferences!Values,
         plugin : Preferences!Values \cup {Preferences!Absent}]
      /\ s7 \in [lost : BOOLEAN, unnamed : BOOLEAN]
  BY PrefTypeMeans DEF PrefInv, PrefTyped
<1>1. ASSUME NEW rw \in BOOLEAN, Preferences!Start(rw) PROVE PrefInv'
  <2> DEFINE d == [s3 EXCEPT !.rw = rw]
             m == [s2 EXCEPT !.color = Preferences!Absent]
  <2>1. /\ d \in PrefDiskType /\ d.rw = rw /\ d.there = s3.there /\ d.named = s3.named
        /\ d.max = s3.max /\ d.list = s3.list /\ d.color = s3.color
        /\ d.plugin = s3.plugin /\ d.recent = s3.recent
        /\ m \in PrefMemType /\ m.color = Preferences!Absent
    BY <1>0 DEF PrefDiskType, PrefMemType
  <2>2. /\ ~s1 /\ s1' = TRUE /\ Preferences!remmina_pref_init(d, m) /\ UNCHANGED <<s4, s5, s6>>
        /\ s7' = [s7 EXCEPT !.unnamed = @ \/ (s3.there /\ ~s3.named)]
    BY <1>1 DEF Preferences!Start
  <2> HIDE DEF d, m
  <2>3. /\ s7' \in [lost : BOOLEAN, unnamed : BOOLEAN]
        /\ s7'.lost = s7.lost
        /\ s7'.unnamed = (s7.unnamed \/ (s3.there /\ ~s3.named))
    BY <1>0, <2>2
  <2>4. /\ s2' \in PrefMemType /\ s3' \in PrefDiskType
        /\ s2'.max = Preferences!Or(d.max) /\ s2'.list = Preferences!Or(d.list)
        /\ s2'.color = (IF s4' # Preferences!Absent THEN s4' ELSE Preferences!Or(d.color))
        /\ s2'.color # Preferences!Absent
        /\ Preferences!Or(s3'.max) = Preferences!Or(d.max)
           /\ Preferences!Or(s3'.list) = Preferences!Or(d.list)
        /\ s3'.plugin = d.plugin /\ s3'.recent = d.recent
        /\ s3'.rw = d.rw /\ (s3'.there <=> d.there \/ d.rw)
        /\ m.color = Preferences!Absent /\ s3'.color = Preferences!Empty
           /\ d.color # Preferences!Empty => d.there /\ ~d.named
    BY <1>0, <2>1, <2>2, PrefInitDoes
  <2>5. Preferences!TypeOK'
    BY <1>0, <2>2, <2>3, <2>4, PrefTypeMeans DEF PrefTyped
  <2>6. ~s7'.lost => PrefStoredMeant' /\ s2'.max = s6'.max /\ s2'.list = s6'.list
    BY <2>1, <2>2, <2>3, <2>4 DEF PrefInv, PrefStoredMeant
  <2>7. (s3.color = Preferences!Empty \/ s5.color = Preferences!Empty => s7.unnamed)'
    BY <2>1, <2>2, <2>3, <2>4 DEF PrefInv
  <2>8. s2'.color = Preferences!Empty => s7'.unnamed
    BY <1>0, <2>1, <2>2, <2>3, <2>4, PrefOrIs, PrefKinds DEF PrefInv, PrefDiskType
  <2> QED BY <1>0, <2>1, <2>2, <2>3, <2>4, <2>5, <2>6, <2>7, <2>8 DEF PrefInv,
     Preferences!ChoicesKept, Preferences!ColorsThere, Preferences!RecentsOnce, PrefDiskType
<1>2. ASSUME NEW saves \in BOOLEAN, Preferences!Quit(saves) PROVE PrefInv'
  <2>1. /\ s1 /\ ~s5.open /\ s1' = FALSE
        /\ s3' = IF saves THEN Preferences!Save(s3, s2) ELSE s3
        /\ s7' = [s7 EXCEPT !.lost = @ \/ (Preferences!Unsaved /\ (~saves \/ ~s3.rw))]
        /\ UNCHANGED <<s2, s4, s5, s6>>
    BY <1>2 DEF Preferences!Quit
  <2>2. /\ s7' \in [lost : BOOLEAN, unnamed : BOOLEAN] /\ s7'.unnamed = s7.unnamed
        /\ s7'.lost = (s7.lost \/ (Preferences!Unsaved /\ (~saves \/ ~s3.rw)))
    BY <1>0, <2>1
  <2>3. /\ s3' \in PrefDiskType /\ s3'.plugin = s3.plugin /\ s3'.recent = s3.recent
        /\ saves /\ s3.there /\ s3.rw =>
              /\ s3'.max = s2.max /\ s3'.list = s2.list
              /\ s3'.color = IF s2.color = Preferences!Absent THEN Preferences!Empty
                 ELSE s2.color
        /\ ~(saves /\ s3.there /\ s3.rw) => s3' = s3
    BY <1>0, <2>1, PrefSaveIs
  <2>4. ~s7'.lost => PrefStoredMeant'
    <3> SUFFICES ASSUME ~s7'.lost PROVE PrefStoredMeant'
      OBVIOUS
    <3>1. s2.max = s6.max /\ s2.list = s6.list
      BY <2>1, <2>2 DEF PrefInv, Preferences!ChoicesKept
    <3>2. CASE saves /\ s3.there /\ s3.rw
      BY <1>0, <2>1, <2>3, <3>1, <3>2, PrefOrIs DEF PrefStoredMeant, PrefMemType
    <3>3. CASE s3.there /\ ~(saves /\ s3.rw)
      BY <2>1, <2>2, <2>3, <3>1, <3>3 DEF PrefStoredMeant, Preferences!Unsaved
    <3>4. CASE ~s3.there
      BY <2>1, <2>2, <2>3, <3>4 DEF PrefStoredMeant, PrefInv
    <3> QED BY <3>2, <3>3, <3>4
  <2>5. Preferences!TypeOK'
    BY <1>0, <2>1, <2>2, <2>3, PrefTypeMeans DEF PrefTyped
  <2>6. (s3.color = Preferences!Empty \/ s5.color = Preferences!Empty => s7.unnamed)'
    BY <2>1, <2>2, <2>3 DEF PrefInv, Preferences!ColorsThere
  <2> QED BY <2>1, <2>2, <2>3, <2>4, <2>5, <2>6 DEF PrefInv, Preferences!ChoicesKept,
     Preferences!ColorsThere, Preferences!RecentsOnce
<1>3. CASE Preferences!remmina_pref_save
  <2>1. /\ s1 /\ s3' = Preferences!Save(s3, s2)
        /\ UNCHANGED <<s1, s2, s4, s5, s6, s7>>
    BY <1>3 DEF Preferences!remmina_pref_save
  <2>2. /\ s3' \in PrefDiskType
        /\ s3'.there = s3.there /\ s3'.rw = s3.rw /\ s3'.plugin = s3.plugin
        /\ s3'.recent = s3.recent
        /\ s3.there
           /\ s3.rw => s3'.color = IF s2.color = Preferences!Absent
           THEN Preferences!Empty ELSE s2.color
        /\ ~(s3.there /\ s3.rw) => s3' = s3
    BY <1>0, <2>1, PrefSaveIs
  <2>3. Preferences!TypeOK'
    BY <1>0, <2>1, <2>2, PrefTypeMeans DEF PrefTyped
  <2> QED BY <2>1, <2>2, <2>3 DEF PrefInv, Preferences!ChoicesKept,
     Preferences!ColorsThere, Preferences!RecentsOnce, PrefStoredMeant
<1>4. ASSUME NEW v \in Preferences!Values, Preferences!remmina_pref_set_value(v) PROVE PrefInv'
  <2>1. CASE s3.there /\ s3.rw
    <3>1. /\ s3' = [s3 EXCEPT !.plugin = v] /\ s6' = [s6 EXCEPT !.plugin = v]
          /\ UNCHANGED <<s1, s2, s4, s5, s7>>
      BY <1>4, <2>1 DEF Preferences!remmina_pref_set_value
    <3>2. /\ s3' \in PrefDiskType /\ s3'.plugin = v /\ s3'.there = s3.there
          /\ s3'.rw = s3.rw /\ s3'.max = s3.max /\ s3'.list = s3.list
          /\ s3'.color = s3.color /\ s3'.recent = s3.recent
          /\ s6' \in [max : Preferences!Values, list : Preferences!Values,
             plugin : Preferences!Values \cup {Preferences!Absent}]
          /\ s6'.plugin = v /\ s6'.max = s6.max /\ s6'.list = s6.list
      BY <1>0, <3>1 DEF PrefDiskType
    <3>3. Preferences!TypeOK'
      BY <1>0, <3>1, <3>2, PrefTypeMeans DEF PrefTyped
    <3> QED BY <3>1, <3>2, <3>3 DEF PrefInv, Preferences!ChoicesKept,
       Preferences!ColorsThere, Preferences!RecentsOnce, PrefStoredMeant
  <2>2. CASE ~(s3.there /\ s3.rw)
    <3>1. UNCHANGED <<s1, s2, s4, s5, s7, s3, s6>>
      BY <1>4, <2>2 DEF Preferences!remmina_pref_set_value
    <3>2. Preferences!TypeOK'
      BY <1>0, <3>1, PrefTypeMeans DEF PrefTyped
    <3> QED BY <3>1, <3>2 DEF PrefInv, Preferences!ChoicesKept, Preferences!ColorsThere,
       Preferences!RecentsOnce, PrefStoredMeant
  <2> QED BY <2>1, <2>2
<1>5. ASSUME NEW s \in Servers, Preferences!remmina_pref_add_recent(s) PROVE PrefInv'
  <2>1. /\ s1 /\ UNCHANGED <<s1, s2, s4, s5, s6, s7>>
        /\ s3' = IF s3.rw
           THEN [s3 EXCEPT !.there = TRUE, !.recent = Preferences!Recent(@, s)] ELSE s3
    BY <1>5 DEF Preferences!remmina_pref_add_recent
  <2>2. s2.max \in Nat /\ s3.recent \in Seq(Servers)
    BY <1>0, PrefKinds DEF PrefMemType, PrefDiskType
  <2>3. /\ Preferences!Recent(s3.recent, s) \in Seq(Servers)
        /\ \A i, j \in DOMAIN Preferences!Recent(s3.recent, s) :
                 Preferences!Recent(s3.recent, s)[i] = Preferences!Recent(s3.recent,
                    s)[j] => i = j
    BY <2>2, PrefRecentOnce DEF PrefInv, Preferences!RecentsOnce
  <2>4. /\ s3' \in PrefDiskType /\ s3'.plugin = s3.plugin /\ s3'.rw = s3.rw
        /\ s3'.max = s3.max /\ s3'.list = s3.list /\ s3'.color = s3.color
        /\ s3'.recent \in {s3.recent, Preferences!Recent(s3.recent, s)}
        /\ (s3'.there = s3.there \/ s3'.there = TRUE)
    BY <1>0, <2>1, <2>3 DEF PrefDiskType
  <2>5. Preferences!TypeOK'
    BY <1>0, <2>1, <2>4, PrefTypeMeans DEF PrefTyped
  <2>6. Preferences!RecentsOnce'
    BY <2>3, <2>4 DEF PrefInv, Preferences!RecentsOnce
  <2> QED BY <2>1, <2>4, <2>5, <2>6 DEF PrefInv, Preferences!ChoicesKept,
     Preferences!ColorsThere, PrefStoredMeant
<1>6. CASE Preferences!remmina_pref_clear_recent
  <2>1. /\ s1 /\ UNCHANGED <<s1, s2, s4, s5, s6, s7>>
        /\ s3' = [s3 EXCEPT !.recent = <<>>]
    BY <1>6 DEF Preferences!remmina_pref_clear_recent
  <2>2. /\ s3' \in PrefDiskType /\ s3'.plugin = s3.plugin /\ s3'.rw = s3.rw
        /\ s3'.max = s3.max /\ s3'.list = s3.list /\ s3'.color = s3.color
        /\ s3'.there = s3.there /\ DOMAIN s3'.recent = {}
    <3>1. <<>> \in Seq(Servers) /\ DOMAIN <<>> = {}
      BY EmptySeq
    <3> QED BY <1>0, <2>1, <3>1 DEF PrefDiskType
  <2>3. Preferences!TypeOK'
    BY <1>0, <2>1, <2>2, PrefTypeMeans DEF PrefTyped
  <2>4. Preferences!RecentsOnce'
    BY <2>2 DEF Preferences!RecentsOnce
  <2> QED BY <2>1, <2>2, <2>3, <2>4 DEF PrefInv, Preferences!ChoicesKept,
     Preferences!ColorsThere, PrefStoredMeant
<1>7. CASE Preferences!remmina_pref_dialog_new
  <2>1. /\ s1 /\ ~s5.open /\ s5' = Preferences!Widgets(s2)
        /\ UNCHANGED <<s1, s2, s3, s4, s6, s7>>
    BY <1>7 DEF Preferences!remmina_pref_dialog_new
  <2>2. /\ s5' \in [open : BOOLEAN, max : Preferences!Values,
           color : Preferences!Values \cup {Preferences!Empty}]
        /\ s5'.open /\ s5'.color = s2.color
    BY <1>0, <2>1 DEF Preferences!Widgets, PrefMemType, PrefInv
  <2>3. Preferences!TypeOK'
    BY <1>0, <2>1, <2>2, PrefTypeMeans DEF PrefTyped
  <2> QED BY <2>1, <2>2, <2>3 DEF PrefInv, Preferences!ChoicesKept,
     Preferences!ColorsThere, Preferences!RecentsOnce, PrefStoredMeant
<1>8. ASSUME NEW v \in Preferences!Values, NEW w \in Preferences!Values,
             Preferences!Edit(v, w) PROVE PrefInv'
  <2>1. /\ s5.open /\ s5' = [s5 EXCEPT !.max = v, !.color = w]
        /\ UNCHANGED <<s1, s2, s3, s4, s6, s7>>
    BY <1>8 DEF Preferences!Edit
  <2>2. /\ s5' \in [open : BOOLEAN, max : Preferences!Values,
           color : Preferences!Values \cup {Preferences!Empty}]
        /\ s5'.open /\ s5'.color = w /\ w # Preferences!Empty
    <3>1. w # Preferences!Empty
      BY PrefKinds
    <3> QED BY <1>0, <2>1, <3>1
  <2>3. Preferences!TypeOK'
    BY <1>0, <2>1, <2>2, PrefTypeMeans DEF PrefTyped
  <2> QED BY <2>1, <2>2, <2>3 DEF PrefInv, Preferences!ChoicesKept,
     Preferences!ColorsThere, Preferences!RecentsOnce, PrefStoredMeant
<1>9. ASSUME NEW v \in Preferences!Values, Preferences!EditList(v) PROVE PrefInv'
  <2>1. /\ s5.open /\ s2' = [s2 EXCEPT !.list = v] /\ s6' = [s6 EXCEPT !.list = v]
        /\ UNCHANGED <<s1, s3, s4, s5, s7>>
    BY <1>9 DEF Preferences!EditList
  <2>2. /\ s2' \in PrefMemType /\ s2'.list = v /\ s2'.max = s2.max /\ s2'.color = s2.color
        /\ s6' \in [max : Preferences!Values, list : Preferences!Values,
           plugin : Preferences!Values \cup {Preferences!Absent}]
        /\ s6'.plugin = s6.plugin /\ s6'.max = s6.max /\ s6'.list = v
    BY <1>0, <2>1 DEF PrefMemType
  <2>3. Preferences!TypeOK'
    BY <1>0, <2>1, <2>2, PrefTypeMeans DEF PrefTyped
  <2> QED BY <2>1, <2>2, <2>3 DEF PrefInv, Preferences!ChoicesKept,
     Preferences!ColorsThere, Preferences!RecentsOnce
<1>10. ASSUME NEW v \in Preferences!Values \cup {Preferences!Absent},
              Preferences!remmina_pref_on_color_scheme(v) PROVE PrefInv'
  <2>1. /\ s5.open /\ s4' = v /\ Preferences!remmina_pref_init(s3, s2)
        /\ s5' = Preferences!Widgets(s2')
        /\ s7' = [s7 EXCEPT !.lost = @ \/ s2.list # s2'.list \/ s2.max # s2'.max]
        /\ UNCHANGED <<s1, s6>>
    BY <1>10 DEF Preferences!remmina_pref_on_color_scheme
  <2>2. /\ s7' \in [lost : BOOLEAN, unnamed : BOOLEAN] /\ s7'.unnamed = s7.unnamed
        /\ s7'.lost = (s7.lost \/ s2.list # s2'.list \/ s2.max # s2'.max)
    BY <1>0, <2>1
  <2>3. /\ s2' \in PrefMemType /\ s3' \in PrefDiskType
        /\ s2'.color = (IF s4' # Preferences!Absent THEN s4' ELSE Preferences!Or(s3.color))
        /\ s2'.color # Preferences!Absent
        /\ s3'.plugin = s3.plugin /\ s3'.recent = s3.recent
        /\ s3'.rw = s3.rw /\ (s3'.there <=> s3.there \/ s3.rw)
        /\ s3'.color = s3.color
              \/ (s3'.color = IF s2.color = Preferences!Absent THEN Preferences!Empty
                 ELSE s2.color)
    BY <1>0, <2>1, PrefInitDoes
  <2>4. /\ s5' \in [open : BOOLEAN, max : Preferences!Values,
           color : Preferences!Values \cup {Preferences!Empty}]
        /\ s5'.open /\ s5'.color = s2'.color
    BY <2>1, <2>3 DEF Preferences!Widgets, PrefMemType
  <2>5. Preferences!TypeOK'
    BY <1>0, <2>1, <2>2, <2>3, <2>4, PrefTypeMeans DEF PrefTyped
  <2>6. s1 /\ (s2.color = Preferences!Empty => s7.unnamed) /\ s2.color # Preferences!Absent
        /\ (s3.color = Preferences!Empty => s7.unnamed)
    BY <2>1 DEF PrefInv, Preferences!ColorsThere
  <2>7. s2'.color = Preferences!Empty => s7'.unnamed
    BY <1>0, <2>1, <2>2, <2>3, <2>6, PrefOrIs, PrefKinds DEF PrefDiskType
  <2>8. s3'.color = Preferences!Empty => s7'.unnamed
    BY <2>2, <2>3, <2>6
  <2> QED BY <2>1, <2>2, <2>3, <2>4, <2>5, <2>6, <2>7, <2>8 DEF PrefInv,
     Preferences!ChoicesKept, Preferences!ColorsThere, Preferences!RecentsOnce
<1>11. CASE Preferences!remmina_pref_on_dialog_destroy
  <2> DEFINE m == [s2 EXCEPT !.max = s5.max, !.color = s5.color]
             d == Preferences!Save(s3, m)
  <2>1. /\ m \in PrefMemType /\ m.max = s5.max /\ m.list = s2.list /\ m.color = s5.color
        /\ s5.color # Preferences!Absent
    <3>1. Preferences!Absent \notin Preferences!Values \cup {Preferences!Empty}
      BY PrefKinds
    <3> QED BY <1>0, <3>1 DEF PrefMemType
  <2>2. /\ s5.open /\ s5' = Preferences!Closed /\ UNCHANGED <<s4, s1>>
        /\ Preferences!remmina_pref_init(d, m)
        /\ s6' = [s6 EXCEPT !.max = s5.max]
        /\ s7' = [s7 EXCEPT !.lost = @ \/ s2'.max # m.max \/ s2'.list # m.list]
    BY <1>11 DEF Preferences!remmina_pref_on_dialog_destroy
  <2> HIDE DEF m
  <2>3. /\ d \in PrefDiskType
        /\ d.there = s3.there /\ d.rw = s3.rw /\ d.plugin = s3.plugin
        /\ d.recent = s3.recent
        /\ d.color \in {s3.color, m.color}
    BY <1>0, <2>1, PrefSaveIs
  <2> HIDE DEF d
  <2>4. /\ s7' \in [lost : BOOLEAN, unnamed : BOOLEAN] /\ s7'.unnamed = s7.unnamed
        /\ s7'.lost = (s7.lost \/ s2'.max # m.max \/ s2'.list # m.list)
        /\ s6' \in [max : Preferences!Values, list : Preferences!Values,
           plugin : Preferences!Values \cup {Preferences!Absent}]
        /\ s6'.plugin = s6.plugin /\ s6'.max = s5.max /\ s6'.list = s6.list
    BY <1>0, <2>2
  <2>5. /\ s2' \in PrefMemType /\ s3' \in PrefDiskType
        /\ s2'.max = Preferences!Or(d.max) /\ s2'.list = Preferences!Or(d.list)
        /\ s2'.color = (IF s4' # Preferences!Absent THEN s4' ELSE Preferences!Or(d.color))
        /\ s2'.color # Preferences!Absent
        /\ Preferences!Or(s3'.max) = Preferences!Or(d.max)
           /\ Preferences!Or(s3'.list) = Preferences!Or(d.list)
        /\ s3'.plugin = d.plugin /\ s3'.recent = d.recent
        /\ s3'.rw = d.rw /\ (s3'.there <=> d.there \/ d.rw)
        /\ s3'.color = d.color \/ (s3'.color = IF m.color = Preferences!Absent
           THEN Preferences!Empty ELSE m.color)
    BY <1>0, <2>1, <2>2, <2>3, PrefInitDoes
  <2>6. /\ s5' \in [open : BOOLEAN, max : Preferences!Values,
           color : Preferences!Values \cup {Preferences!Empty}]
        /\ ~s5'.open /\ s5'.color # Preferences!Empty
    BY <2>2, PrefKinds DEF Preferences!Closed
  <2>7. Preferences!TypeOK'
    BY <1>0, <2>2, <2>4, <2>5, <2>6, PrefTypeMeans DEF PrefTyped
  <2>8. s1 /\ (s3.color = Preferences!Empty \/ s5.color = Preferences!Empty => s7.unnamed)
    BY <2>2 DEF PrefInv
  <2>9. s2'.color = Preferences!Empty => s7'.unnamed
    BY <1>0, <2>1, <2>2, <2>3, <2>4, <2>5, <2>8, PrefOrIs, PrefKinds DEF PrefDiskType
  <2>10. s3'.color = Preferences!Empty => s7'.unnamed
    BY <2>1, <2>3, <2>4, <2>5, <2>8
  <2>11. ~s7'.lost => s2'.max = s6'.max /\ s2'.list = s6'.list /\ PrefStoredMeant'
    BY <2>1, <2>2, <2>4, <2>5, <2>8 DEF PrefInv, Preferences!ChoicesKept, PrefStoredMeant
  <2> QED BY <2>2, <2>3, <2>4, <2>5, <2>6, <2>7, <2>8, <2>9, <2>10, <2>11 DEF PrefInv,
     Preferences!ChoicesKept, Preferences!ColorsThere, Preferences!RecentsOnce
<1>12. CASE UNCHANGED Preferences!vars
  <2>1. Preferences!TypeOK'
    BY <1>0, <1>12, PrefTypeMeans DEF PrefTyped, Preferences!vars
  <2> QED BY <1>12, <2>1 DEF Preferences!vars, PrefInv, Preferences!ChoicesKept,
     Preferences!ColorsThere, Preferences!RecentsOnce, PrefStoredMeant
<1> QED BY <1>1, <1>2, <1>3, <1>4, <1>5, <1>6, <1>7, <1>8, <1>9, <1>10, <1>11,
   <1>12 DEF Preferences!Next

\* What it says of the preferences.
LEMMA PrefInvMeans ==
    ASSUME PrefInv
    PROVE  Preferences!TypeOK /\ Preferences!ChoicesKept /\ Preferences!PluginValuesKept
           /\ Preferences!ColorsThere /\ Preferences!RecentsOnce
BY DEF PrefInv, Preferences!PluginValuesKept

-----------------------------------------------------------------------------
(* The components together.                                                *)

ComponentInv ==
    /\ component = "MessagePanels" => PanelsInv
    /\ component = "MainWindow" => MainInv
    /\ component = "AppLife" => AppInv
    /\ component = "TrayIcon" => TrayInv
    /\ component = "Discovery" => DiscInv
    /\ component = "Plugins" => PlugInv

\* It holds whatever the behaviour is about.
LEMMA ComponentInitInv == ASSUME ComponentInit PROVE ComponentInv
<1> USE ComponentBounds DEF ComponentBounds, MessagePanels!None, PanelsBounds, AppBounds,
   DiscBounds, PlugBounds
<1>1. component = "MessagePanels" => PanelsInv
  BY PanelsInitInv DEF ComponentInit
<1>2. component = "MainWindow" => MainInv
  BY MainInitInv DEF ComponentInit
<1>3. component = "AppLife" => AppInv
  BY AppInitInv DEF ComponentInit
<1>4. component = "TrayIcon" => TrayInv
  BY TrayInitInv DEF ComponentInit
<1>5. component = "Discovery" => DiscInv
  BY DiscInitInv DEF ComponentInit
<1>6. component = "Plugins" => PlugInv
  BY PlugInitInv DEF ComponentInit
<1> QED BY <1>1, <1>2, <1>3, <1>4, <1>5, <1>6 DEF ComponentInv

\* Every step of a component keeps its invariant, and says nothing of the others.
LEMMA ComponentStepInv ==
    ASSUME ComponentInv, [ComponentNext]_ComponentVars
    PROVE  ComponentInv'
<1> USE ComponentBounds DEF ComponentBounds, MessagePanels!None, PanelsBounds, AppBounds,
   DiscBounds, PlugBounds
<1>0. component' = component
  BY DEF ComponentNext, ComponentVars
<1>1. ASSUME component = "MessagePanels" PROVE PanelsInv'
  <2>1. [MessagePanels!Next]_(MessagePanels!vars)
    BY <1>1 DEF ComponentNext, ComponentVars, MessagePanels!vars, MessagePanels!tab,
       MessagePanels!main, MessagePanels!sub
  <2>2. PanelsInv
    BY <1>1 DEF ComponentInv
  <2> QED BY <2>1, <2>2, PanelsStepInv
<1>2. ASSUME component = "MainWindow" PROVE MainInv'
  <2>1. [MainWindow!Next]_(MainWindow!vars)
    BY <1>2 DEF ComponentNext, ComponentVars, MainWindow!vars
  <2>2. MainInv
    BY <1>2 DEF ComponentInv
  <2> QED BY <2>1, <2>2, MainStepInv
<1>3. ASSUME component = "AppLife" PROVE AppInv'
  <2>1. [AppLife!Next]_(AppLife!vars)
    BY <1>3 DEF ComponentNext, ComponentVars, AppLife!vars
  <2>2. AppInv
    BY <1>3 DEF ComponentInv
  <2> QED BY <2>1, <2>2, AppStepInv
<1>4. ASSUME component = "TrayIcon" PROVE TrayInv'
  <2>1. [TrayIcon!Next]_(TrayIcon!vars)
    BY <1>4 DEF ComponentNext, ComponentVars, TrayIcon!vars
  <2>2. TrayInv
    BY <1>4 DEF ComponentInv
  <2> QED BY <2>1, <2>2, TrayStepInv
<1>5. ASSUME component = "Discovery" PROVE DiscInv'
  <2>1. [Discovery!Next]_(Discovery!vars)
    BY <1>5 DEF ComponentNext, ComponentVars, Discovery!vars
  <2>2. DiscInv
    BY <1>5 DEF ComponentInv
  <2> QED BY <2>1, <2>2, DiscStepInv
<1>6. ASSUME component = "Plugins" PROVE PlugInv'
  <2>1. [Plugins!Next]_(Plugins!vars)
    BY <1>6 DEF ComponentNext, ComponentVars, Plugins!vars
  <2>2. PlugInv
    BY <1>6 DEF ComponentInv
  <2> QED BY <2>1, <2>2, PlugStepInv
<1> QED BY <1>0, <1>1, <1>2, <1>3, <1>4, <1>5, <1>6 DEF ComponentInv

\* The invariants of the components hold throughout the run.
THEOREM ComponentInvariance == ComponentSpec => []ComponentInv
BY ComponentInitInv, ComponentStepInv, PTL DEF ComponentSpec

\* A page that holds panels shows exactly one of them, none is there twice, and the panel of a
\* dialog is there as long as the nested loop or the thread of a plugin waits for its answer,
\* whatever panels come and go and wherever the tab moves (rcw.c, remmina_protocol_widget.c).
THEOREM PanelsStayRight == ComponentSpec => []PanelsRight
<1>1. ComponentInv => PanelsRight
  BY PanelsInvMeans DEF ComponentInv, PanelsRight
<1> QED BY <1>1, ComponentInvariance, PTL

\* The windows, the icon, the services, the plugins and the list of profiles know of one
\* another what is there (remmina_exec.c, rcw.c, remmina_icon.c, remmina_avahi.c,
\* remmina_plugin_manager.c, remmina_main.c).
THEOREM AppStaysSound == ComponentSpec => []AppSound
<1>1. AppInv => AppLife!Reachable /\ AppLife!AskedToClose /\ AppLife!ExitFaults
  BY AppInvMeans
<1>2. TrayInv => TrayIcon!IconShown /\ TrayIcon!AutostartMeant
  BY DEF TrayInv
<1>3. DiscInv => Discovery!TableTrue /\ Discovery!OffShowsNothing
  BY DiscInvMeans
<1>4. PlugInv => /\ Plugins!RegisteredOnce /\ Plugins!SecretFirst
                 /\ Plugins!PluginFaults /\ Plugins!DownloadTold
  <2>1. PlugBounds
    BY ComponentBounds DEF ComponentBounds, PlugBounds
  <2> QED BY <2>1, PlugInvMeans
<1>5. MainInv => /\ MainWindow!DeletesNamed /\ MainWindow!RowsMeant
                 /\ MainWindow!LoadFaults /\ MainWindow!AsksFirst
  BY MainInvMeans
<1>6. ComponentInv => AppSound
  BY <1>1, <1>2, <1>3, <1>4, <1>5 DEF ComponentInv, AppSound
<1> QED BY <1>6, ComponentInvariance, PTL
===============================================================================
