--------------------------- MODULE Handlers_proofs ----------------------------
(***************************************************************************)
(* What holds of the components of MCHandlers for every value of their     *)
(* constants: for each an inductive invariant, in the variables s1, s2,    *)
(* ... of the run, that implies the properties of its module; then the     *)
(* theorems about the run.                                                 *)
(***************************************************************************)
EXTENDS MCHandlers, FiniteSetTheorems, SequenceTheorems, WellFoundedInduction, TLAPS

\* A set of numbers has a least one: the choice of the first entry is never in vain.
LEMMA LeastOf ==
    ASSUME NEW S, S \subseteq Nat, S # {}
    PROVE  \E i \in S : \A j \in S : i <= j
<1> DEFINE R == OpToRel(<, Nat)
<1>1. IsWellFoundedOn(R, Nat)
  BY NatLessThanWellFounded
<1>2. \A x, y \in Nat : y < x => <<y, x>> \in R
  BY DEF OpToRel
<1> HIDE DEF R
<1>3. PICK x \in S : \A y \in S : ~ (<<y, x>> \in R)
  BY <1>1, WFMin
<1>4. ASSUME NEW y \in S PROVE x <= y
  <2>1. x \in Nat /\ y \in Nat
    OBVIOUS
  <2>2. ~ (y < x)
    BY <1>2, <1>3, <2>1
  <2> QED BY <2>1, <2>2
<1> QED BY <1>4

\* g_ptr_array_remove_index_fast: the last element takes the place of the one removed.
FastRemoved(s, i) == [j \in 1 .. Len(s) - 1 |-> IF j = i THEN s[Len(s)] ELSE s[j]]

\* Of the other elements none is lost.
LEMMA LastTakesPlace ==
    ASSUME NEW S, NEW s \in Seq(S), NEW i \in 1 .. Len(s)
    PROVE  /\ FastRemoved(s, i) \in Seq(S) /\ Len(FastRemoved(s, i)) = Len(s) - 1
           /\ \A j \in 1 .. Len(s) - 1 : \E k \in 1 .. Len(s) : FastRemoved(s, i)[j] = s[k]
           /\ \A k \in 1 .. Len(s) :
                 k # i => \E j \in 1 .. Len(s) - 1 : FastRemoved(s, i)[j] = s[k]
<1> DEFINE n == Len(s)
           r == FastRemoved(s, i)
<1>1. n \in Nat /\ n >= 1
  OBVIOUS
<1>2. r = [j \in 1 .. n - 1 |-> IF j = i THEN s[n] ELSE s[j]]
  BY DEF FastRemoved
<1>3. \A j \in 1 .. n - 1 : j \in 1 .. n /\ n \in 1 .. n /\ s[j] \in S /\ s[n] \in S
  BY <1>1
<1>4. \A j \in 1 .. n - 1 : r[j] \in S
  BY <1>2, <1>3
<1>5. r \in Seq(S) /\ Len(r) = n - 1
  BY <1>1, <1>2, <1>4
<1>6. \A j \in 1 .. n - 1 : \E k \in 1 .. n : r[j] = s[k]
  BY <1>1, <1>2
<1>7. ASSUME NEW k \in 1 .. n, k # i
      PROVE  \E j \in 1 .. n - 1 : r[j] = s[k]
  <2>1. CASE k = n
    BY <1>1, <1>2, <1>7, <2>1
  <2>2. CASE k # n
    BY <1>1, <1>2, <1>7, <2>2
  <2> QED BY <2>1, <2>2
<1> QED BY <1>5, <1>6, <1>7

\* What a queue holds, and what it holds at most once.
Has(s, x) == \E i \in DOMAIN s : s[i] = x
Once(s, x) == \A i, j \in DOMAIN s : s[i] = x /\ s[j] = x => i = j

\* One element more at the end.
LEMMA AppendHas ==
    ASSUME NEW S, NEW s \in Seq(S), NEW y \in S
    PROVE  /\ Append(s, y) \in Seq(S)
           /\ \A x : Has(Append(s, y), x) <=> Has(s, x) \/ x = y
           /\ \A x : Once(s, x) /\ (x = y => ~Has(s, x)) => Once(Append(s, y), x)
<1> DEFINE t == Append(s, y)
<1>1. /\ t \in Seq(S) /\ Len(t) = Len(s) + 1 /\ Len(s) \in Nat
      /\ \A i \in 1 .. Len(s) : t[i] = s[i]
      /\ t[Len(s) + 1] = y
      /\ DOMAIN s = 1 .. Len(s) /\ DOMAIN t = 1 .. Len(t)
  OBVIOUS
<1> HIDE DEF t
<1>2. ASSUME NEW x PROVE Has(t, x) <=> Has(s, x) \/ x = y
  <2>1. Has(s, x) => Has(t, x)
    BY <1>1 DEF Has
  <2>2. x = y => Has(t, x)
    <3>1. Len(s) + 1 \in DOMAIN t
      BY <1>1
    <3> QED BY <1>1, <3>1 DEF Has
  <2>3. ASSUME NEW i \in DOMAIN t, t[i] = x, x # y PROVE Has(s, x)
    <3>1. i \in DOMAIN s /\ s[i] = x
      BY <1>1, <2>3
    <3> QED BY <3>1 DEF Has
  <2> QED BY <2>1, <2>2, <2>3 DEF Has
<1>3. ASSUME NEW x, Once(s, x), x = y => ~Has(s, x) PROVE Once(t, x)
  <2>1. ASSUME NEW i \in DOMAIN t, NEW j \in DOMAIN t, t[i] = x, t[j] = x PROVE i = j
    <3>1. CASE i \in DOMAIN s /\ j \in DOMAIN s
      BY <1>1, <1>3, <2>1, <3>1 DEF Once
    <3>2. CASE i \notin DOMAIN s /\ j \notin DOMAIN s
      BY <1>1, <2>1, <3>2
    <3>3. ASSUME NEW k \in DOMAIN s, NEW l \in DOMAIN t, l \notin DOMAIN s, t[k] = x, t[l] = x
          PROVE  FALSE
      <4>1. x = y /\ s[k] = x
        BY <1>1, <3>3
      <4> QED BY <1>3, <4>1 DEF Has
    <3> QED BY <2>1, <3>1, <3>2, <3>3
  <2> QED BY <2>1 DEF Once
<1> QED BY <1>1, <1>2, <1>3 DEF t

\* The first is taken away.
LEMMA TailHas ==
    ASSUME NEW S, NEW s \in Seq(S), s # <<>>
    PROVE  /\ Tail(s) \in Seq(S) /\ Head(s) \in S /\ Has(s, Head(s))
           /\ \A x : Has(Tail(s), x) => Has(s, x)
           /\ \A x : Has(s, x) /\ x # Head(s) => Has(Tail(s), x)
           /\ \A x : Once(s, x) => Once(Tail(s), x)
           /\ Once(s, Head(s)) => ~Has(Tail(s), Head(s))
<1> DEFINE t == Tail(s)
<1>1. /\ t \in Seq(S) /\ Len(t) = Len(s) - 1 /\ Len(s) \in Nat /\ Len(s) >= 1
      /\ \A i \in 1 .. Len(t) : t[i] = s[i + 1]
      /\ Head(s) = s[1] /\ s[1] \in S
      /\ DOMAIN s = 1 .. Len(s) /\ DOMAIN t = 1 .. Len(t)
  OBVIOUS
<1> HIDE DEF t
<1>2. /\ 1 \in DOMAIN s
      /\ \A i \in DOMAIN t : i + 1 \in DOMAIN s /\ i + 1 # 1 /\ t[i] = s[i + 1]
      /\ \A i \in DOMAIN s : i # 1 => i - 1 \in DOMAIN t /\ t[i - 1] = s[i]
  BY <1>1
<1>3. Has(s, Head(s))
  BY <1>1, <1>2 DEF Has
<1>4. ASSUME NEW x, Has(t, x) PROVE Has(s, x)
  BY <1>2, <1>4 DEF Has
<1>5. ASSUME NEW x, Has(s, x), x # Head(s) PROVE Has(t, x)
  <2>1. PICK i \in DOMAIN s : s[i] = x
    BY <1>5 DEF Has
  <2>2. i # 1
    BY <1>1, <1>5, <2>1
  <2> QED BY <1>2, <2>1, <2>2 DEF Has
<1>6. ASSUME NEW x, Once(s, x) PROVE Once(t, x)
  <2>1. ASSUME NEW i \in DOMAIN t, NEW j \in DOMAIN t, t[i] = x, t[j] = x PROVE i = j
    <3>1. i + 1 = j + 1
      BY <1>2, <1>6, <2>1 DEF Once
    <3>2. i \in Nat /\ j \in Nat
      BY <1>1
    <3> QED BY <3>1, <3>2
  <2> QED BY <2>1 DEF Once
<1>7. ASSUME Once(s, Head(s)) PROVE ~Has(t, Head(s))
  BY <1>1, <1>2, <1>7 DEF Has, Once
<1> QED BY <1>1, <1>3, <1>4, <1>5, <1>6, <1>7 DEF t

-----------------------------------------------------------------------------
(* The keys and buttons of a VNC session (src/plugins/vnc/vnc_plugin.c).   *)
(* The variables: s1 keymap, s2 viewonly, s3 pressed_keys, s4              *)
(* button_mask, s5 scroll, s6 server, s7 user.                             *)

\* What is listed was sent, that is, has passed the keymap.
ViMapped ==
    \A i \in 1 .. Len(s3) : \E v \in Keyvals : s3[i].keyval = s1[v]

ViMaskHeld == s4 \subseteq s7.held \cup s7.unseen

ViInv == VncInput!TypeOK /\ ViMapped /\ VncInput!KeysListed /\ ViMaskHeld
   /\ VncInput!ButtonsHeld

\* The entry that is found is one of the list, and of that key.
LEMMA ViFound ==
    ASSUME VncInput!TypeOK, NEW code, VncInput!FirstOf(code) # 0
    PROVE  VncInput!FirstOf(code) \in 1 .. Len(s3)
<1> DEFINE at == {i \in 1 .. Len(s3) : s3[i].keycode = code}
<1>1. at # {} /\ at \subseteq Nat
  BY DEF VncInput!FirstOf
<1>2. \E i \in at : \A j \in at : i <= j
  BY <1>1, LeastOf
<1>3. VncInput!FirstOf(code) = CHOOSE i \in at : \A j \in at : i <= j
  BY <1>1 DEF VncInput!FirstOf
<1>4. VncInput!FirstOf(code) \in at
  BY <1>2, <1>3
<1> QED BY <1>4

\* What leaves the list is at most the entry that is found.
LEMMA ViReleased ==
    ASSUME ViInv, NEW code \in Keycodes, VncInput!release_key(code)
    PROVE  /\ s3' \in Seq([keyval : Keyvals, keycode : Keycodes])
           /\ Len(s3') <= Len(s3)
           /\ \A j \in 1 .. Len(s3') : \E k \in 1 .. Len(s3) :
                 s3'[j] = s3[k]
           /\ \A k \in 1 .. Len(s3) :
                 k # VncInput!FirstOf(code) =>
                    \E j \in 1 .. Len(s3') : s3'[j] = s3[k]
<1>0. s3 \in Seq([keyval : Keyvals, keycode : Keycodes])
  BY DEF ViInv, VncInput!TypeOK
<1>1. CASE VncInput!FirstOf(code) = 0
  BY <1>0, <1>1 DEF VncInput!release_key
<1>2. CASE VncInput!FirstOf(code) # 0
  <2>1. VncInput!FirstOf(code) \in 1 .. Len(s3)
    BY <1>2, ViFound DEF ViInv
  <2>2. s3' = FastRemoved(s3, VncInput!FirstOf(code))
    BY <1>2 DEF VncInput!release_key, VncInput!RemoveFast, FastRemoved
  <2>3. Len(s3) \in Nat
    BY <1>0
  <2> DEFINE f == VncInput!FirstOf(code)
  <2> HIDE DEF f
  <2>4. /\ FastRemoved(s3, f) \in Seq([keyval : Keyvals, keycode : Keycodes])
        /\ Len(FastRemoved(s3, f)) = Len(s3) - 1
        /\ \A j \in 1 .. Len(s3) - 1 : \E k \in 1 .. Len(s3) :
              FastRemoved(s3, f)[j] = s3[k]
        /\ \A k \in 1 .. Len(s3) :
              k # f => \E j \in 1 .. Len(s3) - 1 :
                          FastRemoved(s3, f)[j] = s3[k]
    BY <1>0, <2>1, LastTakesPlace DEF f
  <2> QED BY <2>2, <2>3, <2>4 DEF f
<1> QED BY <1>1, <1>2

\* It holds when the session starts.
LEMMA ViInitInv == ASSUME MaxPressed \in Nat, VncInput!Init PROVE ViInv
<1>1. /\ s3 \in Seq([keyval : Keyvals, keycode : Keycodes]) /\ Len(s3) = 0
      /\ s6.keys = {} /\ s6.mask = {} /\ s4 = {}
  BY DEF VncInput!Init
<1>2. s5 \in [x : -1 .. 1, y : -1 .. 1]
  BY DEF VncInput!Init
<1>3. Len(s3) <= MaxPressed
  BY <1>1
<1>4. VncInput!TypeOK
  BY <1>1, <1>2, <1>3 DEF VncInput!Init, VncInput!TypeOK
<1> QED
  BY <1>1, <1>4 DEF ViInv, ViMapped, VncInput!KeysListed, ViMaskHeld, VncInput!ButtonsHeld


\* A key, pressed or let go.
LEMMA ViKeyStep ==
    ASSUME MaxPressed \in Nat, ViInv,
           NEW c \in Keycodes, NEW v \in Keyvals, VncInput!KeyPress(c, v)
              \/ VncInput!KeyRelease(c, v) 
    PROVE  /\ s3' \in Seq([keyval : Keyvals, keycode : Keycodes])
           /\ Len(s3') <= MaxPressed
           /\ \E ks \in SUBSET Keyvals : s6' = [s6 EXCEPT !.keys = ks]
           /\ ViMapped' /\ VncInput!KeysListed'
<1>0. /\ s3 \in Seq([keyval : Keyvals, keycode : Keycodes])
      /\ Len(s3) \in Nat /\ Len(s3) <= MaxPressed
      /\ s1 \in [Keyvals -> Keyvals] /\ s6.keys \subseteq Keyvals
      /\ s6 \in [keys : SUBSET Keyvals, mask : SUBSET (VncButtons \cup VncInput!WheelButtons)]
      /\ \A i \in 1 .. Len(s3) : \E w \in Keyvals : s3[i].keyval = s1[w]
      /\ VncInput!Idempotent => s6.keys \subseteq {s3[i].keyval : i \in 1 .. Len(s3)}
  BY DEF ViInv, VncInput!TypeOK, ViMapped, VncInput!KeysListed, VncInput!Listed
<1>1. CASE VncInput!KeyPress(c, v)
  <2> DEFINE e == [keyval |-> s1[v], keycode |-> c]
  <2>1. /\ s3' = Append(s3, e) /\ s1' = s1
        /\ Len(s3) < MaxPressed
        /\ s6' = [s6 EXCEPT !.keys = s6.keys \cup {s1[v]}]
    BY <1>1 DEF VncInput!KeyPress, VncInput!SendKey, VncInput!keymap_get_keyval
  <2>2. e \in [keyval : Keyvals, keycode : Keycodes] /\ e.keyval = s1[v]
    BY <1>0
  <2> HIDE DEF e
  <2>3. /\ s3' \in Seq([keyval : Keyvals, keycode : Keycodes])
        /\ Len(s3') = Len(s3) + 1
        /\ \A i \in 1 .. Len(s3) : s3'[i] = s3[i]
        /\ s3'[Len(s3) + 1] = e
    BY <1>0, <2>1, <2>2
  <2>4. s6.keys \cup {s1[v]} \in SUBSET Keyvals
    BY <1>0
  <2>5. ViMapped'
    BY <1>0, <2>1, <2>2, <2>3 DEF ViMapped
  <2>6. s6'.keys = s6.keys \cup {s1[v]}
    BY <1>0, <2>1
  <2>7. ASSUME VncInput!Idempotent', NEW k \in s6'.keys
        PROVE  \E i \in 1 .. Len(s3') : k = s3'[i].keyval
    <3>0. VncInput!Idempotent
      BY <2>7, <2>1 DEF VncInput!Idempotent
    <3>1. CASE k = s1[v]
      BY <1>0, <2>2, <2>3, <3>1
    <3>2. CASE k \in s6.keys
      BY <1>0, <2>3, <3>0, <3>2
    <3> QED BY <2>6, <2>7, <3>1, <3>2
  <2>8. Len(s3') <= MaxPressed
    BY <1>0, <2>1, <2>3
  <2>9. VncInput!KeysListed'
    BY <2>7 DEF VncInput!KeysListed, VncInput!Listed
  <2> QED BY <2>1, <2>3, <2>4, <2>5, <2>8, <2>9
<1>2. CASE VncInput!KeyRelease(c, v)
  <2> DEFINE rel == VncInput!ReleasedKeyval(c, v)
  <2>1. /\ s1' = s1 /\ s6' = [s6 EXCEPT !.keys = s6.keys \ {rel}]
        /\ VncInput!release_key(c)
    BY <1>2 DEF VncInput!KeyRelease, VncInput!SendKey
  <2>2. /\ s3' \in Seq([keyval : Keyvals, keycode : Keycodes])
        /\ Len(s3') <= Len(s3)
        /\ \A j \in 1 .. Len(s3') : \E k \in 1 .. Len(s3) :
                 s3'[j] = s3[k]
        /\ \A k \in 1 .. Len(s3) :
                 k # VncInput!FirstOf(c) =>
                    \E j \in 1 .. Len(s3') : s3'[j] = s3[k]
    BY <2>1, ViReleased
  <2>3. ASSUME NEW j \in 1 .. Len(s3')
        PROVE  \E w \in Keyvals : s3'[j].keyval = s1'[w]
    BY <1>0, <2>1, <2>2
  <2>4. s6'.keys = s6.keys \ {rel}
    BY <1>0, <2>1
  <2>5. VncInput!Idempotent /\ VncInput!FirstOf(c) # 0 => rel = s3[VncInput!FirstOf(c)].keyval
    <3>1. SUFFICES ASSUME VncInput!Idempotent, VncInput!FirstOf(c) # 0
                   PROVE  rel = s3[VncInput!FirstOf(c)].keyval
      OBVIOUS
    <3>2. VncInput!FirstOf(c) \in 1 .. Len(s3)
      BY <3>1, ViFound DEF ViInv
    <3>3. rel = s1[s3[VncInput!FirstOf(c)].keyval]
      BY <3>1 DEF VncInput!ReleasedKeyval, VncInput!keymap_get_keyval
    <3>4. PICK w \in Keyvals : s3[VncInput!FirstOf(c)].keyval = s1[w]
      BY <1>0, <3>2
    <3> QED BY <3>1, <3>3, <3>4 DEF VncInput!Idempotent
  <2>6. ASSUME VncInput!Idempotent', NEW k \in s6'.keys
        PROVE  \E i \in 1 .. Len(s3') : k = s3'[i].keyval
    <3>0. VncInput!Idempotent
      BY <2>6, <2>1 DEF VncInput!Idempotent
    <3>1. k \in s6.keys /\ k # rel
      BY <2>4, <2>6
    <3>2. PICK i \in 1 .. Len(s3) : k = s3[i].keyval
      BY <1>0, <3>0, <3>1
    <3>3. i # VncInput!FirstOf(c)
      BY <2>5, <3>0, <3>1, <3>2
    <3> QED BY <2>2, <3>2, <3>3
  <2>7. s6.keys \ {rel} \in SUBSET Keyvals
    BY <1>0
  <2>8. Len(s3') <= MaxPressed
    BY <1>0, <2>2
  <2>9. ViMapped' /\ VncInput!KeysListed'
    BY <2>3, <2>6 DEF ViMapped, VncInput!KeysListed, VncInput!Listed
  <2> QED BY <2>1, <2>2, <2>7, <2>8, <2>9
<1> QED BY <1>1, <1>2

\* Whatever leaves the list, the keymap and the keys at the server alone.
ViKeysStay == UNCHANGED <<s3, s1>> /\ s6'.keys = s6.keys

\* What leaves the keys alone keeps what is known of them.
LEMMA ViKeysKept ==
    ASSUME ViInv, ViKeysStay
    PROVE  ViMapped' /\ VncInput!KeysListed'
BY DEF ViInv, ViKeysStay, ViMapped, VncInput!KeysListed, VncInput!Idempotent,
   VncInput!Listed

\* Every event keeps the invariant.
LEMMA ViStepInv ==
    ASSUME MaxPressed \in Nat, ViInv, [VncInput!Next]_(VncInput!vars)
    PROVE  ViInv'
<1>0. /\ VncInput!TypeOK /\ ViMapped /\ VncInput!KeysListed /\ ViMaskHeld
         /\ VncInput!ButtonsHeld
      /\ s6 \in [keys : SUBSET Keyvals, mask : SUBSET (VncButtons \cup VncInput!WheelButtons)]
      /\ s7 \in [held : SUBSET VncButtons, unseen : SUBSET VncButtons]
  BY DEF ViInv, VncInput!TypeOK
<1>1. CASE \E c \in Keycodes, v \in Keyvals : VncInput!KeyPress(c, v)
           \/ VncInput!KeyRelease(c, v)
  <2>1. PICK c \in Keycodes, v \in Keyvals : VncInput!KeyPress(c, v)
        \/ VncInput!KeyRelease(c, v)
    BY <1>1
  <2>2. UNCHANGED <<s1, s2, s4, s7>> /\ s5' = [x |-> 0, y |-> 0]
    BY <2>1 DEF VncInput!KeyPress, VncInput!KeyRelease
  <2>3. PICK ks \in SUBSET Keyvals : s6' = [s6 EXCEPT !.keys = ks]
    BY <2>1, ViKeyStep
  <2>4. /\ s6' \in [keys : SUBSET Keyvals,
           mask : SUBSET (VncButtons \cup VncInput!WheelButtons)]
        /\ s6'.mask = s6.mask
    BY <1>0, <2>3
  <2>5. s5' \in [x : -1 .. 1, y : -1 .. 1]
    BY <2>2
  <2>6. /\ s3' \in Seq([keyval : Keyvals, keycode : Keycodes])
        /\ Len(s3') <= MaxPressed /\ ViMapped' /\ VncInput!KeysListed'
    BY <2>1, ViKeyStep
  <2> QED BY <1>0, <2>2, <2>4, <2>5, <2>6 DEF ViInv, VncInput!TypeOK, ViMaskHeld,
     VncInput!ButtonsHeld
<1>2. CASE VncInput!Unfocus
  <2>1. /\ s6' = [s6 EXCEPT !.keys = s6.keys \ VncInput!Listed]
        /\ s3' = <<>> /\ UNCHANGED <<s1, s2, s4, s5, s7>>
    BY <1>2 DEF VncInput!Unfocus, VncInput!Listed
  <2>2. /\ s6'.keys = s6.keys \ VncInput!Listed /\ s6'.mask = s6.mask
        /\ s6' \in [keys : SUBSET Keyvals,
           mask : SUBSET (VncButtons \cup VncInput!WheelButtons)]
    BY <1>0, <2>1
  <2>3. ViMapped' /\ (VncInput!Idempotent' => s6'.keys = {}) /\ Len(s3') = 0
    BY <1>0, <2>1, <2>2 DEF ViMapped, VncInput!KeysListed, VncInput!Idempotent
  <2> QED BY <1>0, <2>1, <2>2, <2>3 DEF ViInv, VncInput!TypeOK, VncInput!KeysListed,
     ViMaskHeld, VncInput!ButtonsHeld
<1>3. CASE VncInput!Motion
  <2>1. s6' = [s6 EXCEPT !.mask = s4]
        /\ UNCHANGED <<s1, s2, s3, s4, s5, s7>>
    BY <1>3 DEF VncInput!Motion, VncInput!SendPointer
  <2>2. /\ s6'.keys = s6.keys /\ s6'.mask = s4
        /\ s6' \in [keys : SUBSET Keyvals,
           mask : SUBSET (VncButtons \cup VncInput!WheelButtons)]
    BY <1>0, <2>1 DEF VncInput!TypeOK
  <2> QED BY <1>0, <2>1, <2>2, ViKeysKept DEF ViKeysStay, ViInv, VncInput!TypeOK,
     ViMaskHeld, VncInput!ButtonsHeld
<1>4. CASE VncInput!ToggleViewonly
  <2>1. UNCHANGED <<s1, s3, s4, s5, s6, s7>> /\ s2' \in BOOLEAN
    BY <1>4 DEF VncInput!ToggleViewonly
  <2> QED BY <1>0, <2>1, ViKeysKept DEF ViKeysStay, ViInv, VncInput!TypeOK, ViMaskHeld,
     VncInput!ButtonsHeld
<1>5. CASE \E b \in VncButtons, down \in BOOLEAN : VncInput!Button(b, down)
  <2>1. PICK b \in VncButtons, down \in BOOLEAN : VncInput!Button(b, down)
    BY <1>5
  <2>2. /\ UNCHANGED <<s1, s2, s3, s5>>
        /\ s7'.held = IF down THEN s7.held \cup {b} ELSE s7.held \ {b}
        /\ s7'.unseen = IF s2 THEN s7.unseen \cup {b} ELSE s7.unseen \ {b}
    BY <2>1 DEF VncInput!Button
  <2>3. s7' \in [held : SUBSET VncButtons, unseen : SUBSET VncButtons]
    BY <1>0, <2>1 DEF VncInput!Button
  <2>4. CASE s2
    BY <1>0, <2>1, <2>2, <2>3, <2>4, ViKeysKept DEF VncInput!Button, ViKeysStay, ViInv,
       VncInput!TypeOK, ViMaskHeld, VncInput!ButtonsHeld
  <2>5. CASE ~s2
    <3>1. /\ s4' = (IF down THEN s4 \cup {b} ELSE s4 \ {b})
          /\ s6' = [s6 EXCEPT !.mask = s4']
      BY <2>1, <2>5 DEF VncInput!Button, VncInput!SendPointer
    <3>2. s4' \subseteq VncButtons /\ s4' \subseteq s7'.held \cup s7'.unseen
      BY <1>0, <2>2, <2>5, <3>1 DEF VncInput!TypeOK, ViMaskHeld
    <3>3. /\ s6'.keys = s6.keys /\ s6'.mask = s4'
          /\ s6' \in [keys : SUBSET Keyvals,
             mask : SUBSET (VncButtons \cup VncInput!WheelButtons)]
      BY <1>0, <3>1, <3>2
    <3> QED
      BY <1>0, <2>2, <2>3, <3>2, <3>3, ViKeysKept DEF ViKeysStay, ViInv, VncInput!TypeOK,
         ViMaskHeld, VncInput!ButtonsHeld
  <2> QED BY <2>4, <2>5
<1>6. CASE \/ \E b \in VncInput!WheelButtons : VncInput!Scroll(b)
           \/ \E dx, dy \in -1 .. 2 : VncInput!SmoothScroll(dx, dy)
  <2>1. /\ UNCHANGED <<s1, s2, s3, s4, s7>>
        /\ s6' = s6 \/ s6' = [s6 EXCEPT !.mask = s4]
    BY <1>6 DEF VncInput!Scroll, VncInput!SmoothScroll, VncInput!Click
  <2>2. s5' \in [x : -1 .. 1, y : -1 .. 1]
    <3>1. CASE \E b \in VncInput!WheelButtons : VncInput!Scroll(b)
      BY <1>0, <3>1 DEF VncInput!Scroll, VncInput!TypeOK
    <3>2. CASE \E dx, dy \in -1 .. 2 : VncInput!SmoothScroll(dx, dy)
      BY <1>0, <3>2 DEF VncInput!SmoothScroll, VncInput!Accumulated, VncInput!TypeOK
    <3> QED BY <1>6, <3>1, <3>2
  <2>3. /\ s6'.keys = s6.keys /\ s6'.mask \in {s6.mask, s4}
        /\ s6' \in [keys : SUBSET Keyvals,
           mask : SUBSET (VncButtons \cup VncInput!WheelButtons)]
    BY <1>0, <2>1 DEF VncInput!TypeOK
  <2> QED BY <1>0, <2>1, <2>2, <2>3, ViKeysKept DEF ViKeysStay, ViInv, VncInput!TypeOK,
     ViMaskHeld, VncInput!ButtonsHeld
<1>7. CASE UNCHANGED VncInput!vars
  BY <1>0, <1>7, ViKeysKept DEF VncInput!vars, ViKeysStay, ViInv, VncInput!TypeOK,
     ViMaskHeld, VncInput!ButtonsHeld
<1> QED BY <1>1, <1>2, <1>3, <1>4, <1>5, <1>6, <1>7 DEF VncInput!Next

-----------------------------------------------------------------------------
(* The keys and buttons of an RDP session (src/plugins/rdp/rdp_event.c).   *)
(* The variables: s1 rfi, s2 pressed_keys, s3 server, s4 user, s5 junk.    *)

RiInv == RdpInput!TypeOK /\ RdpInput!KeysListed /\ RdpInput!ButtonsHeld

\* What on_key does to the list.
LEMMA RiListing ==
    ASSUME MaxPressed \in Nat, RdpInput!TypeOK, NEW key \in RdpInput!Keys, NEW up \in BOOLEAN,
           up \/ Len(s2) < MaxPressed, RdpInput!keypress_list_add(key, up)
    PROVE  /\ s2' \in Seq(RdpInput!Keys) /\ Len(s2') <= MaxPressed
           /\ s5' \in BOOLEAN /\ (s5 => s5')
           /\ ~up /\ key.code # 0 => \E i \in 1 .. Len(s2') : s2'[i] = key
           /\ ~up => \A k \in 1 .. Len(s2) :
                        \E j \in 1 .. Len(s2') : s2'[j] = s2[k]
           /\ up /\ ~s5' => \A k \in 1 .. Len(s2) :
                 \/ \E j \in 1 .. Len(s2') : s2'[j] = s2[k]
                 \/ s2[k].code = key.code /\ s2[k].type = key.type
<1>0. /\ s2 \in Seq(RdpInput!Keys) /\ Len(s2) \in Nat
      /\ Len(s2) <= MaxPressed /\ s5 \in BOOLEAN
  BY DEF RdpInput!TypeOK
<1>1. CASE UNCHANGED <<s2, s5>> /\ (~up => key.code = 0)
  <2>1. \A k \in 1 .. Len(s2) :
           \E j \in 1 .. Len(s2') : s2'[j] = s2[k]
    BY <1>1
  <2> QED BY <1>0, <1>1, <2>1
<1>2. CASE up /\ RdpInput!Matching(key) # {} /\ RdpInput!release_key(key)
  <2> DEFINE i == CHOOSE i \in RdpInput!Matching(key) : \A j \in RdpInput!Matching(key) : i <= j
  <2>1. RdpInput!Matching(key) \subseteq Nat
    BY DEF RdpInput!Matching
  <2>2. i \in RdpInput!Matching(key)
    BY <1>2, <2>1, LeastOf
  <2>3. /\ s2' = FastRemoved(s2, i)
        /\ s5' = (s5 \/ s2[i].type # key.type)
    BY <1>2 DEF RdpInput!release_key, RdpInput!RemoveFast, FastRemoved
  <2>4. i \in 1 .. Len(s2) /\ s2[i].code = key.code
    BY <2>2 DEF RdpInput!Matching
  <2> HIDE DEF i
  <2>5. /\ FastRemoved(s2, i) \in Seq(RdpInput!Keys)
        /\ Len(FastRemoved(s2, i)) = Len(s2) - 1
        /\ \A k \in 1 .. Len(s2) :
              k # i => \E j \in 1 .. Len(s2) - 1 :
                          FastRemoved(s2, i)[j] = s2[k]
    BY <1>0, <2>4, LastTakesPlace
  <2>6. s2' \in Seq(RdpInput!Keys) /\ Len(s2') <= MaxPressed
    BY <1>0, <2>3, <2>5
  <2>7. s5' \in BOOLEAN /\ (s5 => s5')
    BY <1>0, <2>3
  <2>8. ASSUME ~s5', NEW k \in 1 .. Len(s2)
        PROVE  \/ \E j \in 1 .. Len(s2') : s2'[j] = s2[k]
               \/ s2[k].code = key.code /\ s2[k].type = key.type
    <3>1. CASE k = i
      BY <2>3, <2>4, <2>8, <3>1
    <3>2. CASE k # i
      BY <2>3, <2>5, <3>2
    <3> QED BY <3>1, <3>2
  <2> QED BY <1>2, <2>6, <2>7, <2>8
<1>3. CASE ~up /\ key.code # 0 /\ s2' = Append(s2, key) /\ UNCHANGED s5
  <2>1. /\ s2' \in Seq(RdpInput!Keys) /\ Len(s2') = Len(s2) + 1
        /\ s2'[Len(s2) + 1] = key
        /\ \A k \in 1 .. Len(s2) : s2'[k] = s2[k]
    BY <1>0, <1>3
  <2>2. Len(s2') <= MaxPressed
    BY <1>0, <1>3, <2>1
  <2>3. \E i \in 1 .. Len(s2') : s2'[i] = key
    BY <1>0, <2>1
  <2>4. \A k \in 1 .. Len(s2) :
                        \E j \in 1 .. Len(s2') : s2'[j] = s2[k]
    BY <1>0, <2>1
  <2> QED BY <1>0, <1>3, <2>1, <2>2, <2>3, <2>4
<1> QED
  BY <1>1, <1>2, <1>3 DEF RdpInput!keypress_list_add, RdpInput!release_key

\* It holds when the session starts.
LEMMA RiInitInv == ASSUME MaxPressed \in Nat, RdpInput!Init PROVE RiInv
<1>1. /\ s2 \in Seq(RdpInput!Keys) /\ Len(s2) = 0
      /\ s3.codes = {} /\ s3.buttons = {}
  BY DEF RdpInput!Init
<1>2. Len(s2) <= MaxPressed
  BY <1>1
<1>3. RdpInput!TypeOK
  BY <1>1, <1>2 DEF RdpInput!Init, RdpInput!TypeOK
<1> QED BY <1>1, <1>3 DEF RiInv, RdpInput!KeysListed, RdpInput!ButtonsHeld

\* A key, pressed or let go, keeps it.
LEMMA RiKeyStep ==
    ASSUME MaxPressed \in Nat, RiInv, NEW up \in BOOLEAN, RdpInput!on_key(up)
    PROVE  RiInv'
<1>0. /\ s3 \in [codes : SUBSET Codes, chars : SUBSET Chars, buttons : SUBSET RdpButtons]
      /\ s5 \/ s3.codes \subseteq RdpInput!ListedCodes
      /\ s2 \in Seq(RdpInput!Keys)
  BY DEF RiInv, RdpInput!TypeOK, RdpInput!KeysListed
<1>1. PICK key \in RdpInput!Keys :
         /\ \/ key.type = "code" /\ key.code # 0
            \/ key.type = "char" /\ key.char # 0 /\ s1.client_keymap
         /\ RdpInput!PushKey(key, up) /\ RdpInput!keypress_list_add(key, up)
  BY DEF RdpInput!on_key
<1>2. (up \/ Len(s2) < MaxPressed) /\ UNCHANGED <<s1, s4>>
  BY DEF RdpInput!on_key
<1>3. /\ s2' \in Seq(RdpInput!Keys) /\ Len(s2') <= MaxPressed
      /\ s5' \in BOOLEAN /\ (s5 => s5')
      /\ ~up /\ key.code # 0 => \E i \in 1 .. Len(s2') : s2'[i] = key
      /\ ~up => \A k \in 1 .. Len(s2) :
                   \E j \in 1 .. Len(s2') : s2'[j] = s2[k]
      /\ up /\ ~s5' => \A k \in 1 .. Len(s2) :
            \/ \E j \in 1 .. Len(s2') : s2'[j] = s2[k]
            \/ s2[k].code = key.code /\ s2[k].type = key.type
  BY <1>1, <1>2, RiListing DEF RiInv
<1>4. /\ s3' \in [codes : SUBSET Codes, chars : SUBSET Chars, buttons : SUBSET RdpButtons]
      /\ s3'.buttons = s3.buttons
      /\ s3'.codes = IF key.type = "code"
                         THEN IF up THEN s3.codes \ {key.code} ELSE s3.codes \cup {key.code}
                         ELSE s3.codes
      /\ key.type \in {"code", "char"}
  BY <1>0, <1>1 DEF RdpInput!PushKey, RdpInput!Keys
<1>5. ASSUME ~s5', NEW c \in s3'.codes
      PROVE  \E i \in 1 .. Len(s2') : s2'[i].type = "code" /\ s2'[i].code = c
  <2>1. CASE c \in s3.codes
    <3>1. PICK k \in 1 .. Len(s2) : s2[k].type = "code" /\ s2[k].code = c
      BY <1>0, <1>3, <1>5, <2>1 DEF RdpInput!ListedCodes
    <3>2. CASE \E j \in 1 .. Len(s2') : s2'[j] = s2[k]
      BY <3>1, <3>2
    <3>3. CASE s2[k].code = key.code /\ s2[k].type = key.type /\ up
      BY <1>4, <1>5, <3>1, <3>3
    <3> QED BY <1>3, <1>5, <3>2, <3>3
  <2>2. CASE c \notin s3.codes
    <3>1. key.type = "code" /\ ~up /\ c = key.code /\ key.code # 0
      BY <1>1, <1>4, <1>5, <2>2
    <3> QED BY <1>3, <3>1
  <2> QED BY <2>1, <2>2
<1>6. RdpInput!KeysListed'
  BY <1>5 DEF RdpInput!KeysListed, RdpInput!ListedCodes
<1>7. RdpInput!TypeOK' /\ RdpInput!ButtonsHeld'
  BY <1>2, <1>3, <1>4 DEF RiInv, RdpInput!TypeOK, RdpInput!ButtonsHeld
<1> QED BY <1>6, <1>7 DEF RiInv

\* Every event keeps the invariant.
LEMMA RiStepInv ==
    ASSUME MaxPressed \in Nat, RiInv, [RdpInput!Next]_(RdpInput!vars)
    PROVE  RiInv'
<1>0. /\ RdpInput!TypeOK /\ RdpInput!KeysListed /\ RdpInput!ButtonsHeld
      /\ s1 \in [connected : BOOLEAN, reconnecting : BOOLEAN, client_keymap : BOOLEAN,
                  viewonly : BOOLEAN]
      /\ s3 \in [codes : SUBSET Codes, chars : SUBSET Chars, buttons : SUBSET RdpButtons]
      /\ s4 \in [held : SUBSET RdpButtons, unseen : SUBSET RdpButtons]
  BY DEF RiInv, RdpInput!TypeOK
<1>1. CASE RdpInput!Connect \/ RdpInput!Reconnecting \/ RdpInput!ToggleViewonly
  <2>1. UNCHANGED <<s2, s3, s4, s5>>
    BY <1>1 DEF RdpInput!Connect, RdpInput!Reconnecting, RdpInput!ToggleViewonly
  <2>2. s1' \in [connected : BOOLEAN, reconnecting : BOOLEAN, client_keymap : BOOLEAN,
                  viewonly : BOOLEAN]
    BY <1>0, <1>1 DEF RdpInput!Connect, RdpInput!Reconnecting, RdpInput!ToggleViewonly
  <2> QED BY <1>0, <2>1, <2>2 DEF RiInv, RdpInput!TypeOK, RdpInput!KeysListed,
     RdpInput!ListedCodes, RdpInput!ButtonsHeld
<1>2. CASE \E up \in BOOLEAN : RdpInput!on_key(up)
  BY <1>2, RiKeyStep
<1>3. CASE RdpInput!Unfocus
  <2>1. /\ s2' = <<>> /\ UNCHANGED <<s1, s4, s5>>
        /\ \E cs : s3' = [s3 EXCEPT !.codes = s3.codes \ RdpInput!ListedCodes,
                                            !.chars = s3.chars \ cs]
    BY <1>3 DEF RdpInput!Unfocus, RdpInput!ListedCodes
  <2>2. /\ s3' \in [codes : SUBSET Codes, chars : SUBSET Chars, buttons : SUBSET RdpButtons]
        /\ s3'.codes = s3.codes \ RdpInput!ListedCodes /\ s3'.buttons = s3.buttons
    BY <1>0, <2>1
  <2>3. s2' \in Seq(RdpInput!Keys) /\ Len(s2') <= MaxPressed
    BY <2>1
  <2>4. s5' \/ s3'.codes = {}
    BY <1>0, <2>1, <2>2 DEF RdpInput!KeysListed
  <2> QED BY <1>0, <2>1, <2>2, <2>3, <2>4 DEF RiInv, RdpInput!TypeOK, RdpInput!KeysListed,
     RdpInput!ButtonsHeld
<1>4. CASE RdpInput!FocusIn(CHOOSE c \in Codes : TRUE)
  <2>1. PICK tab : RdpInput!FocusIn(tab)
    BY <1>4
  <2>2. UNCHANGED <<s1, s2, s4, s5>> /\ s3' = [s3 EXCEPT !.codes = s3.codes \ {tab}]
    BY <2>1 DEF RdpInput!FocusIn
  <2>3. /\ s3' \in [codes : SUBSET Codes, chars : SUBSET Chars, buttons : SUBSET RdpButtons]
        /\ s3'.codes = s3.codes \ {tab} /\ s3'.buttons = s3.buttons
    BY <1>0, <2>2
  <2> QED BY <1>0, <2>2, <2>3 DEF RiInv, RdpInput!TypeOK, RdpInput!KeysListed,
     RdpInput!ListedCodes, RdpInput!ButtonsHeld
<1>5. CASE \E b \in RdpButtons, down \in BOOLEAN : RdpInput!Button(b, down)
  <2>1. PICK b \in RdpButtons, down \in BOOLEAN : RdpInput!Button(b, down)
    BY <1>5
  <2> DEFINE seen == ~s1.viewonly /\ RdpInput!Ready
  <2>2. /\ UNCHANGED <<s1, s2, s5>>
        /\ s4' = [held |-> IF down THEN s4.held \cup {b} ELSE s4.held \ {b},
                    unseen |-> IF seen THEN s4.unseen \ {b} ELSE s4.unseen \cup {b}]
        /\ s3' = IF ~seen THEN s3
                     ELSE [s3 EXCEPT !.buttons = IF down THEN s3.buttons \cup {b}
                                                     ELSE s3.buttons \ {b}]
    BY <2>1 DEF RdpInput!Button
  <2>3. seen \in BOOLEAN
    BY <1>0 DEF RdpInput!Ready
  <2> HIDE DEF seen
  <2>4. s4' \in [held : SUBSET RdpButtons, unseen : SUBSET RdpButtons]
    BY <1>0, <2>2, <2>3
  <2>5. /\ s3' \in [codes : SUBSET Codes, chars : SUBSET Chars, buttons : SUBSET RdpButtons]
        /\ s3'.codes = s3.codes
        /\ s3'.buttons \subseteq s4'.held \cup s4'.unseen
    BY <1>0, <2>2, <2>3 DEF RdpInput!ButtonsHeld
  <2> QED BY <1>0, <2>2, <2>4, <2>5 DEF RiInv, RdpInput!TypeOK, RdpInput!KeysListed,
     RdpInput!ListedCodes, RdpInput!ButtonsHeld
<1>6. CASE UNCHANGED RdpInput!vars
  BY <1>0, <1>6 DEF RdpInput!vars, RiInv, RdpInput!TypeOK, RdpInput!KeysListed,
     RdpInput!ListedCodes, RdpInput!ButtonsHeld
<1> QED BY <1>1, <1>2, <1>3, <1>4, <1>5, <1>6 DEF RdpInput!Next

-----------------------------------------------------------------------------
(* The host key (src/src/rcw.c).                                           *)
(* The variables: s1 win, s2 tab, s3 down, s4 last, s5 server, s6          *)
(* viewonly, s7 grab, s8 ending, s9 alone, s10 odd, s11 surprise.          *)

\* While the host key is held: it was pressed here alone, and is active and unused; or with
\* another key, and is used; or elsewhere.
HkHostInv ==
    HostKey!Host \in s3 =>
        /\ s9 = "yes" => s1.activated /\ ~s1.used
        /\ s9 = "no" => s1.used

\* A session that is only viewed holds no key but those it is known to hold.
HkViewInv == \A t \in s6 \ s8 : s5[t] \subseteq s10[t]

HkInv ==
    /\ HostKey!TypeOK /\ s10 \in [HeldTabs -> SUBSET HostKey!Keys]
    /\ HostKey!HostKeyStays /\ HostKey!HeldOrOdd /\ HkViewInv /\ HkHostInv
       /\ HostKey!GrabAsAsked

\* It holds of a window that was just opened.
LEMMA HkInitInv == ASSUME HostKey!Init PROVE HkInv
BY DEF HostKey!Init, HkInv, HostKey!TypeOK, HostKey!HostKeyStays, HostKey!HeldOrOdd,
   HkViewInv, HkHostInv, HostKey!GrabAsAsked, HostKey!Keys, HostKey!Host, HostKey!None

\* What holds of the keys of the tabs.
HkKeysInv ==
    /\ s5 \in [HeldTabs -> SUBSET HostKey!Keys] /\ s10 \in [HeldTabs -> SUBSET HostKey!Keys]
    /\ \A t \in HeldTabs : s10[t] \subseteq s5[t]
    /\ s2 \in HeldTabs /\ s6 \subseteq HeldTabs /\ s8 \subseteq HeldTabs
       /\ s3 \subseteq HostKey!Keys
    /\ HostKey!HostKeyStays /\ HostKey!HeldOrOdd /\ HkViewInv

\* A shortcut with the host key held.
LEMMA HkShortcutStep ==
    ASSUME HkInv, NEW k \in HostKey!Keys, HostKey!Live, HostKey!Shortcut(k), s3' = s3
           \/ (k = HostKey!Host /\ s3' = s3 \ {HostKey!Host})
           \/ s3' = s3 \cup {k}
    PROVE  /\ HkKeysInv' /\ s7' \subseteq HeldTabs
              /\ s1' \in [activated : BOOLEAN, used : BOOLEAN]
           /\ s1'.used /\ ~s1'.activated /\ (k = HostKey!Host <=> s7' # s7)
<1>0. /\ s5 \in [HeldTabs -> SUBSET HostKey!Keys] /\ s10 \in [HeldTabs -> SUBSET HostKey!Keys]
      /\ s2 \in HeldTabs /\ s5' = s5 /\ s2 \notin s8
      /\ \A t \in HeldTabs : s10[t] \subseteq s5[t]
  BY DEF HkInv, HostKey!TypeOK, HostKey!Shortcut, HostKey!Live
<1>1. s1' \in [activated : BOOLEAN, used : BOOLEAN] /\ s1'.used /\ ~s1'.activated
  BY DEF HostKey!Shortcut, HostKey!Moved
<1>2. s7' \subseteq HeldTabs /\ (k = HostKey!Host <=> s7' # s7)
  BY <1>0 DEF HostKey!Shortcut, HostKey!Toggled, HkInv, HostKey!TypeOK
<1>3. s2' \in HeldTabs /\ s8 \subseteq s8' /\ s8' \subseteq HeldTabs
      /\ s6' \subseteq HeldTabs /\ s3' \subseteq HostKey!Keys
  BY <1>0 DEF HostKey!Shortcut, HostKey!ToNextTab, HostKey!Toggled, HkInv, HostKey!TypeOK
<1>4. /\ s10' \in [HeldTabs -> SUBSET HostKey!Keys]
      /\ \A t \in HeldTabs : s10[t] \subseteq s10'[t] /\ s10'[t] \subseteq s5'[t]
      /\ s2' # s2 \/ k = "viewonly" => s10'[s2] = s5[s2]
  BY <1>0 DEF HostKey!Shortcut, HostKey!ToNextTab, HostKey!Host
<1>5. HostKey!HostKeyStays'
  BY <1>0 DEF HkInv, HostKey!HostKeyStays
<1>6. HostKey!HeldOrOdd'
  <2>1. SUFFICES ASSUME NEW t \in HeldTabs \ s8', NEW x \in s5[t], x \notin s10'[t]
                 PROVE  t = s2' /\ x \in s3'
    BY <1>0 DEF HostKey!HeldOrOdd
  <2>2. t = s2 /\ x \in s3
    BY <1>3, <1>4, <2>1 DEF HkInv, HostKey!HeldOrOdd
  <2>3. s2' = s2
    BY <1>4, <2>1, <2>2
  <2>4. x # HostKey!Host
    BY <1>0, <2>1 DEF HkInv, HostKey!HostKeyStays
  <2> QED BY <2>2, <2>3, <2>4
<1>7. HkViewInv'
  <2>1. SUFFICES ASSUME NEW t \in s6' \ s8' PROVE s5[t] \subseteq s10'[t]
    BY <1>0 DEF HkViewInv
  <2>2. CASE t \in s6
    BY <1>3, <1>4, <2>1, <2>2 DEF HkInv, HkViewInv
  <2>3. CASE t \notin s6
    <3>1. k = "viewonly" /\ t = s2
      BY <2>1, <2>3 DEF HostKey!Shortcut, HostKey!Toggled
    <3> QED BY <1>4, <3>1
  <2> QED BY <2>2, <2>3
<1> QED BY <1>0, <1>1, <1>2, <1>3, <1>4, <1>5, <1>6, <1>7 DEF HkKeysInv

\* A key that is pressed and is no shortcut.
LEMMA HkPressedStep ==
    ASSUME HkInv, NEW k \in HostKey!Keys, HostKey!Live, HostKey!Pressed(k), s3' = s3 \cup {k}
    PROVE  /\ HkKeysInv' /\ s7' \subseteq HeldTabs
              /\ s1' \in [activated : BOOLEAN, used : BOOLEAN]
           /\ s9' \in {"yes", "no", "elsewhere"} /\ HkHostInv' /\ s11' = s11
<1>0. /\ s5 \in [HeldTabs -> SUBSET HostKey!Keys] /\ s10 \in [HeldTabs -> SUBSET HostKey!Keys]
      /\ s2 \in HeldTabs /\ s2 \notin s8 /\ s11' = s11
      /\ \A t \in HeldTabs : s10[t] \subseteq s5[t]
      /\ s1 \in [activated : BOOLEAN, used : BOOLEAN] /\ s9 \in {"yes", "no", "elsewhere"}
  BY DEF HkInv, HostKey!TypeOK, HostKey!Pressed, HostKey!Live
<1>1. CASE k = HostKey!Host
  <2>1. /\ s1' = [activated |-> TRUE, used |-> FALSE] /\ s9' = "yes"
        /\ UNCHANGED <<s2, s5, s6, s7, s8, s10>>
    BY <1>1 DEF HostKey!Pressed
  <2>2. HkKeysInv'
    BY <1>0, <2>1 DEF HkKeysInv, HkInv, HostKey!TypeOK, HostKey!HostKeyStays,
       HostKey!HeldOrOdd, HkViewInv
  <2> QED BY <1>0, <2>1, <2>2 DEF HkHostInv, HkInv, HostKey!TypeOK
<1>2. CASE k # HostKey!Host /\ s1.activated
  <2>1. HostKey!Shortcut(k) /\ s9' = IF s9 = "elsewhere" THEN s9 ELSE "no"
    BY <1>2 DEF HostKey!Pressed
  <2>2. /\ HkKeysInv' /\ s7' \subseteq HeldTabs /\ s1' \in [activated : BOOLEAN, used : BOOLEAN]
        /\ s1'.used
    BY <2>1, HkShortcutStep
  <2> QED BY <1>0, <2>1, <2>2 DEF HkHostInv
<1>3. CASE k # HostKey!Host /\ ~s1.activated
  <2>1. /\ s5' = HostKey!Sent(k) /\ UNCHANGED <<s1, s2, s6, s7, s8, s10>>
        /\ s9' = IF s9 = "elsewhere" THEN s9 ELSE "no"
    BY <1>3 DEF HostKey!Pressed
  <2>2. /\ s5' \in [HeldTabs -> SUBSET HostKey!Keys]
        /\ \A t \in HeldTabs : s5[t] \subseteq s5'[t]
        /\ \A t \in HeldTabs : s5'[t] \subseteq s5[t] \cup (IF t = s2
           /\ s2 \notin s6 THEN {k} ELSE {})
    BY <1>0, <2>1 DEF HostKey!Sent
  <2>3. HostKey!HostKeyStays'
    BY <1>3, <2>2 DEF HkInv, HostKey!HostKeyStays
  <2>4. HostKey!HeldOrOdd' /\ HkViewInv'
    BY <2>1, <2>2 DEF HkInv, HostKey!TypeOK, HostKey!HeldOrOdd, HkViewInv
  <2>5. HkHostInv'
    BY <1>0, <1>3, <2>1 DEF HkInv, HkHostInv
  <2>6. HkKeysInv'
    BY <1>0, <2>1, <2>2, <2>3, <2>4 DEF HkKeysInv, HkInv, HostKey!TypeOK
  <2> QED BY <1>0, <2>1, <2>5, <2>6 DEF HkInv, HostKey!TypeOK
<1> QED BY <1>1, <1>2, <1>3

\* A key that is let go.
LEMMA HkReleaseStep ==
    ASSUME HkInv, NEW k \in HostKey!Keys, HostKey!KeyRelease(k)
    PROVE  HkInv'
<1>0. /\ s5 \in [HeldTabs -> SUBSET HostKey!Keys] /\ s10 \in [HeldTabs -> SUBSET HostKey!Keys]
      /\ s2 \in HeldTabs /\ s2 \notin s8 /\ HostKey!Live /\ s11 = FALSE
      /\ \A t \in HeldTabs : s10[t] \subseteq s5[t]
      /\ s1 \in [activated : BOOLEAN, used : BOOLEAN] /\ s9 \in {"yes", "no", "elsewhere"}
      /\ k \in s3 /\ s3' = s3 \ {k} /\ s4' \in HostKey!Keys \cup {HostKey!None}
         /\ s3' \subseteq HostKey!Keys
  BY DEF HkInv, HostKey!TypeOK, HostKey!KeyRelease, HostKey!Live, HostKey!GrabAsAsked
<1>1. CASE k = HostKey!Host /\ s1.used
  <2>1. /\ s1' = [s1 EXCEPT !.activated = FALSE] /\ s9' = "no"
        /\ UNCHANGED <<s2, s5, s6, s7, s8, s10>>
    BY <1>1 DEF HostKey!KeyRelease, HostKey!HostReleased
  <2>2. s11' = FALSE
    BY <1>0, <1>1, <2>1 DEF HostKey!KeyRelease, HkInv, HkHostInv
  <2>3. HostKey!HeldOrOdd'
    BY <1>0, <1>1, <2>1 DEF HkInv, HostKey!HeldOrOdd, HostKey!HostKeyStays
  <2>4. HostKey!HostKeyStays' /\ HkViewInv' /\ HkHostInv'
    BY <1>0, <1>1, <2>1 DEF HkInv, HostKey!HostKeyStays, HkViewInv, HkHostInv
  <2> QED BY <1>0, <2>1, <2>2, <2>3, <2>4 DEF HkInv, HostKey!TypeOK, HostKey!GrabAsAsked
<1>2. CASE k = HostKey!Host /\ ~s1.used
  <2>1. HostKey!Shortcut(k) /\ s9' = "no"
    BY <1>2 DEF HostKey!KeyRelease, HostKey!HostReleased
  <2>2. /\ HkKeysInv' /\ s7' \subseteq HeldTabs /\ s1' \in [activated : BOOLEAN, used : BOOLEAN]
        /\ s7' # s7
    BY <1>0, <1>2, <2>1, HkShortcutStep
  <2>3. s11' = FALSE
    BY <1>0, <1>2, <2>2 DEF HostKey!KeyRelease, HkInv, HkHostInv
  <2> QED BY <1>0, <1>2, <2>1, <2>2, <2>3 DEF HkInv, HkKeysInv, HostKey!TypeOK,
     HostKey!GrabAsAsked, HkHostInv
<1>3. CASE k # HostKey!Host
  <2>1. HostKey!OtherReleased(k) /\ s9' = s9 /\ s11' = FALSE
        /\ UNCHANGED <<s1, s2, s6, s7, s8>>
    BY <1>0, <1>3 DEF HostKey!KeyRelease, HostKey!OtherReleased
  <2>2. HkHostInv'
    BY <1>0, <2>1 DEF HkInv, HkHostInv
  <2>3. CASE s1.activated
    <3>1. s10' = [s10 EXCEPT ![s2] = s10[s2] \cup (s5[s2] \cap {k})] /\ s5' = s5
      BY <2>1, <2>3 DEF HostKey!OtherReleased
    <3>2. /\ s10' \in [HeldTabs -> SUBSET HostKey!Keys]
          /\ \A t \in HeldTabs : s10[t] \subseteq s10'[t] /\ s10'[t] \subseteq s5'[t]
          /\ s5[s2] \cap {k} \subseteq s10'[s2]
      BY <1>0, <3>1
    <3>3. HostKey!HeldOrOdd' /\ HostKey!HostKeyStays' /\ HkViewInv'
      BY <1>0, <2>1, <3>1, <3>2 DEF HkInv, HostKey!TypeOK, HostKey!HeldOrOdd,
         HostKey!HostKeyStays, HkViewInv
    <3> QED BY <1>0, <2>1, <2>2, <3>1, <3>2, <3>3 DEF HkInv, HostKey!TypeOK,
       HostKey!GrabAsAsked
  <2>4. CASE ~s1.activated
    <3>1. s10' = [s10 EXCEPT ![s2] = s10[s2] \cap s5'[s2]] /\ s5' = HostKey!Lifted(k)
      BY <2>1, <2>4 DEF HostKey!OtherReleased
    <3>2. /\ s5' \in [HeldTabs -> SUBSET HostKey!Keys]
          /\ \A t \in HeldTabs : t # s2 => s5'[t] = s5[t]
          /\ s5'[s2] = IF s2 \in s6 THEN s5[s2] ELSE s5[s2] \ {k}
      BY <1>0, <3>1 DEF HostKey!Lifted
    <3>3. /\ s10' \in [HeldTabs -> SUBSET HostKey!Keys]
          /\ \A t \in HeldTabs : t # s2 => s10'[t] = s10[t]
          /\ s10'[s2] = s10[s2] \cap s5'[s2]
      BY <1>0, <3>1, <3>2
    <3>4. \A t \in HeldTabs : s10'[t] \subseteq s5'[t]
      BY <1>0, <3>2, <3>3
    <3>5. HkViewInv'
      BY <1>0, <2>1, <3>2, <3>3 DEF HkInv, HostKey!TypeOK, HkViewInv
    <3>6. HostKey!HeldOrOdd'
      <4>1. SUFFICES ASSUME NEW t \in HeldTabs \ s8, NEW x \in s5'[t], x \notin s10'[t]
                     PROVE  t = s2 /\ x \in s3'
        BY <2>1 DEF HostKey!HeldOrOdd
      <4>2. t = s2
        BY <3>2, <3>3, <4>1 DEF HkInv, HostKey!HeldOrOdd
      <4>3. x \in s5[s2] /\ x \notin s10[s2]
        BY <3>2, <3>3, <4>1, <4>2
      <4>4. s2 \notin s6
        BY <1>0, <4>3 DEF HkInv, HkViewInv
      <4>5. x \in s3 /\ x # k
        BY <1>0, <3>2, <4>1, <4>2, <4>3, <4>4 DEF HkInv, HostKey!HeldOrOdd
      <4> QED BY <1>0, <4>2, <4>5
    <3>7. HostKey!HostKeyStays'
      BY <3>2 DEF HkInv, HostKey!HostKeyStays
    <3> QED BY <1>0, <2>1, <2>2, <3>2, <3>3, <3>4, <3>5, <3>6, <3>7 DEF HkInv,
       HostKey!TypeOK, HostKey!GrabAsAsked
  <2> QED BY <2>3, <2>4
<1> QED BY <1>0, <1>1, <1>2, <1>3

\* Every event keeps the invariant.
LEMMA HkStepInv ==
    ASSUME HkInv, [HostKey!Next]_(HostKey!vars)
    PROVE  HkInv'
<1>1. CASE \E k \in HostKey!Keys : HostKey!KeyPress(k)
  <2>1. PICK k \in HostKey!Keys : HostKey!KeyPress(k)
    BY <1>1
  <2>2. HostKey!Live /\ HostKey!Pressed(k) /\ s3' = s3 \cup {k} /\ s4' = k
    BY <2>1 DEF HostKey!KeyPress
  <2>3. /\ HkKeysInv' /\ s7' \subseteq HeldTabs /\ s1' \in [activated : BOOLEAN, used : BOOLEAN]
        /\ s9' \in {"yes", "no", "elsewhere"} /\ HkHostInv' /\ s11' = s11
    BY <2>2, HkPressedStep
  <2> QED BY <2>2, <2>3 DEF HkInv, HostKey!TypeOK, HkKeysInv, HostKey!GrabAsAsked
<1>2. CASE \E k \in HostKey!Keys : HostKey!KeyRelease(k)
  BY <1>2, HkReleaseStep
<1>3. CASE HostKey!KeyRepeat
  <2>1. /\ HostKey!Live /\ s4 \in HostKey!Keys /\ HostKey!Pressed(s4)
           /\ s3' = s3 \cup {s4} /\ s4' = s4
        /\ s4 \in HostKey!Keys \cup {HostKey!None}
    BY <1>3 DEF HostKey!KeyRepeat, HkInv, HostKey!TypeOK
  <2>2. /\ HkKeysInv' /\ s7' \subseteq HeldTabs /\ s1' \in [activated : BOOLEAN, used : BOOLEAN]
        /\ s9' \in {"yes", "no", "elsewhere"} /\ HkHostInv' /\ s11' = s11
    BY <2>1, HkPressedStep
  <2> QED BY <2>1, <2>2 DEF HkInv, HostKey!TypeOK, HkKeysInv, HostKey!GrabAsAsked
<1>4. CASE HostKey!FocusOut
  <2>0. /\ s5 \in [HeldTabs -> SUBSET HostKey!Keys]
           /\ s10 \in [HeldTabs -> SUBSET HostKey!Keys] /\ s2 \in HeldTabs
        /\ \A t \in HeldTabs : s10[t] \subseteq s5[t]
        /\ s1 \in [activated : BOOLEAN, used : BOOLEAN]
    BY DEF HkInv, HostKey!TypeOK
  <2>1. /\ UNCHANGED <<s2, s6, s7, s8, s11>> /\ s4' = HostKey!None
        /\ s1' = [s1 EXCEPT !.activated = FALSE]
        /\ s5' = [s5 EXCEPT ![s2] = {}] /\ s10' = [s10 EXCEPT ![s2] = {}]
    BY <1>4 DEF HostKey!FocusOut
  <2>2. /\ s9' \in {"no", "elsewhere"} /\ (HostKey!Host \in s3' => s9' = "elsewhere")
        /\ s3' \subseteq HostKey!Keys
    BY <1>4 DEF HostKey!FocusOut, HostKey!Keys
  <2>3. /\ s5' \in [HeldTabs -> SUBSET HostKey!Keys]
           /\ s10' \in [HeldTabs -> SUBSET HostKey!Keys]
        /\ \A t \in HeldTabs : t # s2 => s5'[t] = s5[t] /\ s10'[t] = s10[t]
        /\ s5'[s2] = {} /\ s10'[s2] = {}
    BY <2>0, <2>1
  <2>4. HostKey!HostKeyStays' /\ HostKey!HeldOrOdd' /\ HkViewInv'
    BY <2>1, <2>3 DEF HkInv, HostKey!TypeOK, HostKey!HostKeyStays, HostKey!HeldOrOdd,
       HkViewInv
  <2>5. HkHostInv'
    BY <2>2 DEF HkHostInv
  <2>6. \A t \in HeldTabs : s10'[t] \subseteq s5'[t]
    BY <2>0, <2>3
  <2> QED BY <2>0, <2>1, <2>2, <2>3, <2>4, <2>5, <2>6 DEF HkInv, HostKey!TypeOK,
     HostKey!GrabAsAsked
<1>5. CASE HostKey!TabEnds
  <2>1. /\ s2 \in s8 /\ s2' \in HeldTabs
        /\ UNCHANGED <<s1, s3, s4, s5, s6, s7, s8, s9, s10, s11>>
    BY <1>5 DEF HostKey!TabEnds, HostKey!Live
  <2>2. HostKey!HeldOrOdd'
    BY <2>1 DEF HkInv, HostKey!HeldOrOdd
  <2> QED BY <2>1, <2>2 DEF HkInv, HostKey!TypeOK, HostKey!HostKeyStays, HkViewInv,
     HkHostInv, HostKey!GrabAsAsked
<1>6. CASE UNCHANGED HostKey!vars
  BY <1>6 DEF HostKey!vars, HkInv, HostKey!TypeOK, HostKey!HostKeyStays, HostKey!HeldOrOdd,
     HkViewInv, HkHostInv, HostKey!GrabAsAsked
<1> QED BY <1>1, <1>2, <1>3, <1>4, <1>5, <1>6 DEF HostKey!Next

-----------------------------------------------------------------------------
(* The authentication (src/src/remmina_ssh.c).                             *)
(* The variables: s1 pc, s2 ssh, s3 pwd, s4 host, s5 server, s6 hist.      *)

\* What comes back from a call of remmina_ssh_auth
LoginAnswers == {"null", "success", "partial", "fatal", "retry", "again", "empty"}
LoginTypes == {"password", "passphrase", "krb", "kbdint"}

LoginSshFields ==
    [auth : SshAuth!Auths, type : LoginTypes, user : BOOLEAN, cert : BOOLEAN, session : BOOLEAN,
       authenticated : BOOLEAN,
     tunnel : BOOLEAN, multi : BOOLEAN, partial : BOOLEAN, forked : BOOLEAN, attempt : 0 .. 3,
     ret : SshAuth!Results]
LoginPasswords == [saved : BOOLEAN, current : BOOLEAN, ssh : BOOLEAN]
LoginRounds == Seq(SUBSET SshAuth!Methods)
LoginCalls == [ssh : LoginSshFields, left : LoginRounds, failed : Nat, pwd : LoginPasswords]

\* The fields of the session that a call leaves as they are
LoginSameLoop(s, t) ==
    /\ t.type = s.type /\ t.user = s.user /\ t.cert = s.cert /\ t.session = s.session /\ t.tunnel = s.tunnel
    /\ t.partial = s.partial /\ t.forked = s.forked /\ t.attempt = s.attempt

\* What a call may do, from the state c to the state d
LoginFollows(c, d) ==
    /\ d \in LoginCalls /\ LoginSameLoop(c.ssh, d.ssh)
    /\ d.ssh.auth = c.ssh.auth \/ Len(c.left) > 1
    /\ d.ssh.multi = c.ssh.multi \/ (d.ssh.multi /\ Len(c.left) > 1)
    /\ Len(d.left) <= Len(c.left)
    /\ d.failed \in {c.failed, c.failed + 1}
    /\ d.ssh.authenticated =>
          \/ d.ssh.ret = "success" /\ d.left = <<>>
          \/ c.ssh.authenticated /\ d.left = c.left
    /\ d.ssh.ret \in LoginAnswers
    /\ d.ssh.ret = "success" => d.left = <<>>
    /\ d.ssh.ret = "partial" => d.ssh.multi /\ Len(c.left) > 1

\* A call that only changes the answer
LEMMA LoginAnswered ==
    ASSUME NEW c \in LoginCalls, NEW r \in LoginAnswers, NEW d, d = [c EXCEPT !.ssh.ret = r],
           r = "success" => c.ssh.authenticated /\ c.left = <<>>, r # "partial"
    PROVE  LoginFollows(c, d) /\ d.failed = c.failed /\ d.ssh.auth = c.ssh.auth
<1>1. c.ssh \in LoginSshFields /\ c.left \in LoginRounds /\ c.failed \in Nat
      /\ c.pwd \in LoginPasswords /\ r \in SshAuth!Results
  BY DEF LoginCalls, LoginAnswers, SshAuth!Results
<1>2. /\ d.ssh = [c.ssh EXCEPT !.ret = r] /\ d.left = c.left /\ d.failed = c.failed
      /\ d.pwd = c.pwd
         /\ d = [ssh |-> d.ssh, left |-> d.left, failed |-> d.failed, pwd |-> d.pwd]
  BY DEF LoginCalls
<1>3. /\ d.ssh \in LoginSshFields /\ LoginSameLoop(c.ssh, d.ssh)
         /\ d.ssh.auth = c.ssh.auth /\ d.ssh.ret = r
      /\ d.ssh.authenticated = c.ssh.authenticated /\ d.ssh.multi = c.ssh.multi
  BY <1>1, <1>2 DEF LoginSshFields, LoginSameLoop
<1>4. d \in LoginCalls
  BY <1>1, <1>2, <1>3 DEF LoginCalls
<1>5. Len(d.left) <= Len(c.left)
  BY <1>1, <1>2 DEF LoginRounds
<1> QED BY <1>1, <1>2, <1>3, <1>4, <1>5 DEF LoginFollows

\* A method that is tried once or again.
LEMMA LoginUserauthFollows ==
    ASSUME NEW c \in LoginCalls, NEW method, NEW refused \in {"retry", "again"},
           NEW again \in {"retry", "again"},
           NEW d \in SshAuth!Userauth(c, method, refused, again),
           c.ssh.authenticated => c.left = <<>>
    PROVE  /\ LoginFollows(c, d) /\ d.ssh.auth = c.ssh.auth
           /\ method # "password" => d.failed = c.failed
           /\ d.ssh.authenticated => d.ssh.ret = "success" /\ method \in SshAuth!Offers(c.left)
<1>1. c.ssh \in LoginSshFields /\ c.left \in LoginRounds /\ c.failed \in Nat
      /\ c.pwd \in LoginPasswords
      /\ Len(c.left) \in Nat /\ c.ssh.multi \in BOOLEAN
  BY DEF LoginCalls, LoginRounds, LoginSshFields
<1>2. CASE \/ d = [c EXCEPT !.ssh.ret = refused, !.ssh.authenticated = FALSE,
                            !.failed = IF method = "password" THEN c.failed + 1 ELSE c.failed]
           \/ d = [c EXCEPT !.ssh.ret = again, !.ssh.authenticated = FALSE]
  <2>1. PICK r \in {"retry", "again"} : d.ssh = [c.ssh EXCEPT !.ret = r,
        !.authenticated = FALSE]
    BY <1>2 DEF LoginCalls
  <2>2. /\ d.left = c.left /\ d.pwd = c.pwd /\ d.failed \in {c.failed, c.failed + 1}
        /\ method # "password" => d.failed = c.failed
        /\ d = [ssh |-> d.ssh, left |-> d.left, failed |-> d.failed, pwd |-> d.pwd]
    BY <1>2 DEF LoginCalls
  <2>3. /\ d.ssh \in LoginSshFields /\ LoginSameLoop(c.ssh, d.ssh)
           /\ d.ssh.auth = c.ssh.auth /\ d.ssh.ret = r
        /\ d.ssh.authenticated = FALSE /\ d.ssh.multi = c.ssh.multi
    BY <1>1, <2>1 DEF LoginSshFields, LoginSameLoop, SshAuth!Results
  <2>4. d \in LoginCalls
    BY <1>1, <2>2, <2>3 DEF LoginCalls
  <2> QED BY <1>1, <2>2, <2>3, <2>4 DEF LoginFollows, LoginAnswers
<1>3. CASE /\ method \in SshAuth!Offers(c.left) /\ Len(c.left) = 1
           /\ d = [c EXCEPT !.left = <<>>, !.ssh.ret = "success", !.ssh.authenticated = TRUE]
  <2>1. /\ d.ssh = [c.ssh EXCEPT !.ret = "success", !.authenticated = TRUE]
        /\ d.left = <<>> /\ d.pwd = c.pwd /\ d.failed = c.failed
        /\ d = [ssh |-> d.ssh, left |-> d.left, failed |-> d.failed, pwd |-> d.pwd]
    BY <1>3 DEF LoginCalls
  <2>2. /\ d.ssh \in LoginSshFields /\ LoginSameLoop(c.ssh, d.ssh) /\ d.ssh.auth = c.ssh.auth
        /\ d.ssh.ret = "success" /\ d.ssh.authenticated = TRUE /\ d.ssh.multi = c.ssh.multi
    BY <1>1, <2>1 DEF LoginSshFields, LoginSameLoop, SshAuth!Results
  <2>3. d.left \in LoginRounds /\ Len(d.left) = 0
    BY <2>1 DEF LoginRounds
  <2>4. d \in LoginCalls
    BY <1>1, <2>1, <2>2, <2>3 DEF LoginCalls
  <2> QED BY <1>1, <1>3, <2>1, <2>2, <2>3, <2>4 DEF LoginFollows, LoginAnswers
<1>4. CASE /\ method \in SshAuth!Offers(c.left) /\ Len(c.left) # 1
           /\ d = [c EXCEPT !.left = Tail(c.left), !.ssh.ret = "partial", !.ssh.multi = TRUE,
                            !.pwd.ssh = FALSE]
  <2>0. c.left # <<>>
    BY <1>4 DEF SshAuth!Offers
  <2>1. Len(c.left) > 1
    <3>1. Len(c.left) # 0
      BY <1>1, <2>0 DEF LoginRounds
    <3>2. Len(c.left) # 1 /\ Len(c.left) \in Nat
      BY <1>1, <1>4
    <3>3. \A n \in Nat : n # 0 /\ n # 1 => n > 1
      OBVIOUS
    <3> QED BY <3>1, <3>2, <3>3
  <2>2. /\ d.ssh = [c.ssh EXCEPT !.ret = "partial", !.multi = TRUE]
        /\ d.left = Tail(c.left) /\ d.pwd = [c.pwd EXCEPT !.ssh = FALSE] /\ d.failed = c.failed
        /\ d = [ssh |-> d.ssh, left |-> d.left, failed |-> d.failed, pwd |-> d.pwd]
    BY <1>4 DEF LoginCalls
  <2>3. /\ d.ssh \in LoginSshFields /\ LoginSameLoop(c.ssh, d.ssh) /\ d.ssh.auth = c.ssh.auth
        /\ d.ssh.ret = "partial" /\ d.ssh.authenticated = c.ssh.authenticated
           /\ d.ssh.multi = TRUE
    BY <1>1, <2>2 DEF LoginSshFields, LoginSameLoop, SshAuth!Results
  <2>4. d.left \in LoginRounds /\ Len(d.left) = Len(c.left) - 1
    BY <1>1, <2>0, <2>2 DEF LoginRounds
  <2>6. d.pwd \in LoginPasswords
    BY <1>1, <2>2 DEF LoginPasswords
  <2>5. d \in LoginCalls
    BY <1>1, <2>2, <2>3, <2>4, <2>6 DEF LoginCalls
  <2> QED BY <1>1, <1>4, <2>0, <2>1, <2>2, <2>3, <2>4, <2>5 DEF LoginFollows, LoginAnswers
<1> QED BY <1>2, <1>3, <1>4 DEF SshAuth!Userauth

\* The method of the profile: at most one password is tried, and only for that method.
LEMMA LoginMethodFollows ==
    ASSUME NEW c \in LoginCalls, c.ssh.authenticated
           => c.left = <<>>, NEW d \in SshAuth!ByMethod(c)
    PROVE  /\ LoginFollows(c, d) /\ d.ssh.auth = c.ssh.auth
           /\ c.ssh.auth # "password" => d.failed = c.failed
<1> DEFINE Good(x, y) == /\ LoginFollows(x, y) /\ y.ssh.auth = x.ssh.auth
                         /\ (y.ssh.authenticated => y.left = <<>>)
           offered == SshAuth!Offers(c.left)
<1>0. /\ c.ssh.auth \in SshAuth!Auths /\ c.ssh.authenticated \in BOOLEAN /\ c.failed \in Nat
      /\ c.left \in LoginRounds
  BY DEF LoginCalls, LoginSshFields
<1>1. ASSUME NEW x \in LoginCalls, x.ssh.authenticated
             => x.left = <<>>, NEW y \in SshAuth!auth_interactive(x)
      PROVE  Good(x, y) /\ y.failed = x.failed
  <2>1. CASE x.ssh.authenticated
    <3>1. y = [x EXCEPT !.ssh.ret = "success"]
      BY <1>1, <2>1 DEF SshAuth!auth_interactive
    <3>2. LoginFollows(x, y) /\ y.failed = x.failed /\ y.ssh.auth = x.ssh.auth
      BY <1>1, <2>1, <3>1, LoginAnswered DEF LoginAnswers
    <3> QED BY <1>1, <3>2 DEF LoginFollows
  <2>2. CASE ~x.ssh.authenticated
    <3>1. y \in SshAuth!Userauth(x, "kbdint", "retry", "retry")
      BY <1>1, <2>2 DEF SshAuth!auth_interactive
    <3>2. /\ LoginFollows(x, y) /\ y.ssh.auth = x.ssh.auth /\ y.failed = x.failed
      BY <1>1, <3>1, LoginUserauthFollows
    <3> QED BY <1>1, <3>2 DEF LoginFollows
  <2> QED BY <2>1, <2>2
<1>2. ASSUME NEW r \in LoginAnswers, r # "success", r # "partial", NEW y,
             y = [c EXCEPT !.ssh.ret = r]
      PROVE  Good(c, y) /\ y.failed = c.failed
  <2>1. LoginFollows(c, y) /\ y.failed = c.failed /\ y.ssh.auth = c.ssh.auth
    BY <1>2, LoginAnswered
  <2> QED BY <2>1 DEF LoginFollows
<1>3. CASE c.ssh.auth = "password"
  <2> DEFINE first == IF "password" \in offered THEN SshAuth!auth_password(c)
                      ELSE {[c EXCEPT !.ssh.ret = "null"]}
  <2>1. CASE c.ssh.authenticated
    <3>1. d = [c EXCEPT !.ssh.ret = "success"]
      BY <1>3, <2>1 DEF SshAuth!ByMethod
    <3> QED BY <2>1, <3>1, <1>3, LoginAnswered DEF LoginAnswers
  <2>2. CASE ~c.ssh.authenticated
    <3>1. PICK x \in first : d \in IF ~x.ssh.authenticated /\ "kbdint" \in offered
                                   THEN SshAuth!auth_interactive(x) ELSE {x}
      BY <1>3, <2>2 DEF SshAuth!ByMethod
    <3>2. Good(c, x)
      <4>1. CASE "password" \notin offered
        <5>1. x = [c EXCEPT !.ssh.ret = "null"]
          BY <3>1, <4>1
        <5> QED BY <1>2, <5>1 DEF LoginAnswers
      <4>2. CASE "password" \in offered /\ ~c.pwd.ssh
        <5>1. x = [c EXCEPT !.ssh.ret = "retry"]
          BY <3>1, <4>2 DEF SshAuth!auth_password
        <5> QED BY <1>2, <5>1 DEF LoginAnswers
      <4>3. CASE "password" \in offered /\ c.pwd.ssh
        <5>1. x \in SshAuth!Userauth(c, "password", "retry", "again")
          BY <3>1, <4>3 DEF SshAuth!auth_password
        <5>2. LoginFollows(c, x) /\ x.ssh.auth = c.ssh.auth
          BY <5>1, LoginUserauthFollows
        <5> QED BY <5>2 DEF LoginFollows
      <4> QED BY <4>1, <4>2, <4>3
    <3>3. CASE d = x
      BY <1>3, <3>2, <3>3
    <3>4. CASE ~x.ssh.authenticated /\ d \in SshAuth!auth_interactive(x)
      <4>1. x \in LoginCalls /\ (x.ssh.authenticated => x.left = <<>>)
        BY <3>2 DEF LoginFollows
      <4>2. Good(x, d) /\ d.failed = x.failed
        BY <1>1, <3>4, <4>1
      <4>3. Len(d.left) \in Nat /\ Len(x.left) \in Nat /\ Len(c.left) \in Nat
        BY <1>0, <3>2, <4>2 DEF LoginFollows, LoginCalls, LoginRounds
      <4>4. LoginSameLoop(c.ssh, d.ssh)
        BY <3>2, <4>2 DEF LoginFollows, LoginSameLoop
      <4>5. d.ssh.multi = c.ssh.multi \/ (d.ssh.multi /\ Len(c.left) > 1)
        BY <3>2, <4>2, <4>3 DEF LoginFollows
      <4>6. d.ssh.authenticated =>
              \/ d.ssh.ret = "success" /\ d.left = <<>>
              \/ c.ssh.authenticated /\ d.left = c.left
        BY <3>4, <4>2 DEF LoginFollows
      <4> QED BY <1>3, <3>2, <4>2, <4>3, <4>4, <4>5, <4>6 DEF LoginFollows
    <3> QED BY <3>1, <3>3, <3>4
  <2> QED BY <1>0, <2>1, <2>2
<1>4. CASE c.ssh.auth = "kbdint"
  <2>1. d \in SshAuth!auth_interactive(c) \/ d = [c EXCEPT !.ssh.ret = "fatal"]
    BY <1>4 DEF SshAuth!ByMethod
  <2> QED BY <1>1, <1>2, <2>1 DEF LoginAnswers
<1>5. CASE c.ssh.auth = "publickey"
  <2>1. \/ d \in SshAuth!auth_pubkey(c)
        \/ d = [c EXCEPT !.ssh.ret = "fatal"]
    BY <1>5 DEF SshAuth!ByMethod
  <2>2. \/ c.ssh.authenticated /\ d = [c EXCEPT !.ssh.ret = "success"]
        \/ \E r \in {"fatal", "empty", "retry"} : d = [c EXCEPT !.ssh.ret = r]
        \/ d \in SshAuth!Userauth(c, "publickey", "retry", "retry")
    BY <2>1 DEF SshAuth!auth_pubkey
  <2>3. CASE c.ssh.authenticated /\ d = [c EXCEPT !.ssh.ret = "success"]
    BY <2>3, LoginAnswered DEF LoginAnswers
  <2>4. CASE \E r \in {"fatal", "empty", "retry"} : d = [c EXCEPT !.ssh.ret = r]
    BY <1>2, <2>4 DEF LoginAnswers
  <2>5. CASE d \in SshAuth!Userauth(c, "publickey", "retry", "retry")
    BY <2>5, LoginUserauthFollows
  <2> QED BY <2>2, <2>3, <2>4, <2>5
<1>6. CASE c.ssh.auth = "agent"
  <2>1. d \in SshAuth!Userauth(c, "publickey", "retry", "retry")
    BY <1>6 DEF SshAuth!ByMethod
  <2> QED BY <2>1, LoginUserauthFollows
<1>7. CASE c.ssh.auth = "auto"
  <2>1. PICK x \in SshAuth!Userauth(c, "publickey", "retry", "retry") :
           IF "publickey" \in offered THEN d = x ELSE d = [x EXCEPT !.ssh.ret = "fatal"]
    BY <1>7 DEF SshAuth!ByMethod
  <2>2. /\ LoginFollows(c, x) /\ x.ssh.auth = c.ssh.auth /\ x.failed = c.failed
        /\ x.ssh.authenticated => x.ssh.ret = "success"
           /\ "publickey" \in SshAuth!Offers(c.left)
    BY <2>1, LoginUserauthFollows
  <2>3. CASE "publickey" \in offered
    BY <2>1, <2>2, <2>3
  <2>4. CASE "publickey" \notin offered
    <3>1. d = [x EXCEPT !.ssh.ret = "fatal"] /\ x \in LoginCalls /\ ~x.ssh.authenticated
      BY <2>1, <2>2, <2>4 DEF LoginFollows
    <3>2. LoginFollows(x, d) /\ d.failed = x.failed /\ d.ssh.auth = x.ssh.auth
      BY <3>1, LoginAnswered DEF LoginAnswers
    <3>3. /\ d.ssh.ret = "fatal" /\ d.left = x.left /\ d.ssh.multi = x.ssh.multi
      BY <3>1 DEF LoginCalls, LoginSshFields
    <3>4. LoginSameLoop(c.ssh, d.ssh) /\ d.ssh.authenticated \in BOOLEAN
      BY <2>2, <3>2 DEF LoginFollows, LoginSameLoop, LoginCalls, LoginSshFields
    <3>5. ~d.ssh.authenticated
      BY <3>1 DEF LoginCalls, LoginSshFields
    <3> QED BY <2>2, <3>2, <3>3, <3>4, <3>5 DEF LoginFollows
  <2> QED BY <2>3, <2>4
<1>8. CASE c.ssh.auth = "gssapi"
  <2>1. d \in SshAuth!Userauth(c, "gssapi", "retry", "retry")
        \/ d = [c EXCEPT !.ssh.ret = "fatal"]
    BY <1>8 DEF SshAuth!ByMethod
  <2> QED BY <1>2, <2>1, LoginUserauthFollows DEF LoginAnswers
<1> QED BY <1>0, <1>3, <1>4, <1>5, <1>6, <1>7, <1>8 DEF SshAuth!Auths

\* After a part of the authentication the method may change.
LEMMA LoginNextFollows ==
    ASSUME NEW c \in LoginCalls, NEW d, LoginFollows(c, d), d.ssh.auth = c.ssh.auth, NEW e,
           e = SshAuth!NextMethod(d)
    PROVE  LoginFollows(c, e) /\ e.failed = d.failed
           /\ (Len(c.left) <= 1 => e.ssh.auth = c.ssh.auth)
<1>1. CASE d.ssh.ret # "partial"
  BY <1>1 DEF SshAuth!NextMethod
<1>2. CASE d.ssh.ret = "partial"
  <2>0. /\ d \in LoginCalls /\ d.ssh.multi /\ Len(c.left) > 1 /\ Len(c.left) \in Nat
        /\ d.ssh \in LoginSshFields /\ d.pwd \in LoginPasswords
    BY <1>2 DEF LoginFollows, LoginCalls, LoginRounds
  <2> DEFINE f == [d EXCEPT !.pwd.ssh = FALSE]
             o == SshAuth!Offers(d.left)
  <2>1. \/ e = f
        \/ \E a \in {"password", "publickey", "kbdint"} :
              o = {a} /\ e = [f EXCEPT !.ssh.auth = CHOOSE b \in SshAuth!Methods : o = {b}]
        \/ e = [f EXCEPT !.ssh.ret = "fatal"]
    BY <1>2 DEF SshAuth!NextMethod
  <2>2. \/ e = f
        \/ \E a \in {"password", "publickey", "kbdint"} : e = [f EXCEPT !.ssh.auth = a]
        \/ e = [f EXCEPT !.ssh.ret = "fatal"]
    <3>1. ASSUME NEW a \in {"password", "publickey", "kbdint"}, o = {a}
          PROVE  (CHOOSE b \in SshAuth!Methods : o = {b}) = a
      <4>1. a \in SshAuth!Methods /\ \A b \in SshAuth!Methods : o = {b} => b = a
        BY <3>1 DEF SshAuth!Methods
      <4>2. \E b \in SshAuth!Methods : o = {b}
        BY <3>1, <4>1
      <4> QED BY <4>1, <4>2
    <3> HIDE DEF o
    <3> QED BY <2>1, <3>1
  <2>9. f.pwd \in LoginPasswords
    <3>1. f.pwd = [d.pwd EXCEPT !.ssh = FALSE]
      BY <2>0 DEF LoginCalls
    <3> QED BY <2>0, <3>1 DEF LoginPasswords
  <2>12. f = [ssh |-> d.ssh, left |-> d.left, failed |-> d.failed,
              pwd |-> [d.pwd EXCEPT !.ssh = FALSE]]
    <3>1. \A p : [d EXCEPT !.pwd = p] = [ssh |-> d.ssh, left |-> d.left,
          failed |-> d.failed, pwd |-> p]
      BY <2>0 DEF LoginCalls
    <3>2. f = [d EXCEPT !.pwd = [d.pwd EXCEPT !.ssh = FALSE]]
      OBVIOUS
    <3> QED BY <3>1, <3>2
  <2>3. /\ f.ssh = d.ssh /\ f.left = d.left /\ f.failed = d.failed /\ f.pwd \in LoginPasswords
        /\ f = [ssh |-> f.ssh, left |-> f.left, failed |-> f.failed, pwd |-> f.pwd]
    BY <2>9, <2>12
  <2> HIDE DEF f
  <2>4. /\ e.left = d.left /\ e.failed = d.failed /\ e.pwd = f.pwd
        /\ e = [ssh |-> e.ssh, left |-> e.left, failed |-> e.failed, pwd |-> e.pwd]
        /\ \/ e.ssh = d.ssh
           \/ \E a \in {"password", "publickey", "kbdint"} : e.ssh = [d.ssh EXCEPT !.auth = a]
           \/ e.ssh = [d.ssh EXCEPT !.ret = "fatal"]
    BY <2>2, <2>3
  <2>5. /\ e.ssh \in LoginSshFields /\ LoginSameLoop(d.ssh, e.ssh) /\ e.ssh.multi
        /\ e.ssh.authenticated = d.ssh.authenticated /\ e.ssh.ret \in {"partial", "fatal"}
    BY <1>2, <2>0, <2>4 DEF LoginSshFields, LoginSameLoop, SshAuth!Auths, SshAuth!Results
  <2>6. e \in LoginCalls
    BY <2>0, <2>3, <2>4, <2>5 DEF LoginCalls
  <2>7. LoginSameLoop(c.ssh, e.ssh)
    BY <2>5 DEF LoginFollows, LoginSameLoop
  <2>8. e.ssh.authenticated => c.ssh.authenticated /\ e.left = c.left
    BY <1>2, <2>4, <2>5 DEF LoginFollows
  <2>10. /\ Len(e.left) <= Len(c.left) /\ e.failed \in {c.failed, c.failed + 1}
         /\ e.ssh.ret \in LoginAnswers /\ e.ssh.ret # "success"
    BY <2>4, <2>5 DEF LoginFollows, LoginAnswers
  <2>11. LoginFollows(c, e)
    BY <2>0, <2>5, <2>6, <2>7, <2>8, <2>10 DEF LoginFollows
  <2> QED BY <2>0, <2>4, <2>11
<1> QED BY <1>1, <1>2


LoginTyped ==
    /\ s1 \in {"init", "gui", "ask", "auth", "panel", "open", "closed"}
    /\ s2 \in LoginSshFields /\ s2.attempt <= 2 /\ s3 \in LoginPasswords /\ s4 \in SshAuth!Hosts
    /\ s5 = [chain |-> s5.chain, left |-> s5.left]
    /\ s5.chain \in SshChains /\ s5.chain \in LoginRounds /\ s5.left \in LoginRounds
    /\ Len(s5.left) <= Len(s5.chain)
    /\ s6 \in [accepted : BOOLEAN, failed : Nat, lost : BOOLEAN]

\* Who is authenticated has nothing left to do: because the last method was accepted, or
\* because the server asks for none.
LoginAuthInv ==
    /\ s2.authenticated => s5.left = <<>> /\ (s1 # "open" => s5.chain = <<>>)
    /\ s4 = "ok" /\ s1 \notin {"init", "closed"} => s6.accepted
    /\ SshAuth!SuccessMeansAccepted

\* What the loop knows of the session: it is there, but for the one case; a shared session
\* never asks the user.
LoginLoopInv ==
    /\ s1 \in {"gui", "ask", "panel"} => ~s2.forked
    /\ s2.partial => s2.multi
    /\ ~s2.session /\ s1 \notin {"init", "closed"} =>
          s1 = "gui" /\ s2.partial /\ s2.type = "passphrase"
    /\ s6.lost => s1 = "closed" /\ s2.partial /\ s2.type = "passphrase"

\* Where the server asks for one method, the method stays, and a wrong password is followed by
\* a new connection, or counted.
LoginCountInv ==
    Len(s5.chain) <= 1 =>
        /\ ~s2.multi
        /\ s1 \in {"ask", "auth", "panel"} /\ ~s2.forked => s2.type = SshAuth!TypeOf(s2.auth)
        /\ s6.failed <= (IF s2.tunnel THEN 3 ELSE 1)
        /\ s1 \in {"gui", "ask"} => s6.failed = 0
        /\ s1 \in {"auth", "panel"} /\ s2.auth # "password" => s6.failed = 0
        /\ s1 \in {"auth", "panel"} /\ s2.tunnel => s6.failed <= s2.attempt
        /\ s1 = "auth" /\ ~s2.tunnel => s6.failed = 0

LoginInv == LoginTyped /\ LoginAuthInv /\ LoginLoopInv /\ LoginCountInv

\* A call of remmina_ssh_auth with the variables as they are
LEMMA LoginAuthCall ==
    ASSUME LoginInv, NEW c \in SshAuth!remmina_ssh_auth
    PROVE  \E b \in LoginCalls :
              /\ b.ssh = s2 /\ b.left = s5.left /\ b.failed = s6.failed /\ LoginFollows(b, c)
              /\ c.ssh.ret = "success" => s4 = "ok"
              /\ s2.auth # "password" => c.failed = s6.failed
              /\ Len(s5.left) <= 1 => c.ssh.auth = s2.auth
<1> DEFINE p == [s3 EXCEPT !.ssh = s3.ssh \/ (s3.current /\ ~s2.forked)]
           b == [ssh |-> s2, left |-> s5.left, failed |-> s6.failed, pwd |-> p]
<1>1. /\ s2 \in LoginSshFields /\ s5.left \in LoginRounds /\ s6.failed \in Nat
         /\ s3 \in LoginPasswords
      /\ s2.authenticated => s5.left = <<>>
  BY DEF LoginInv, LoginTyped, LoginAuthInv
<1>2. p \in LoginPasswords
  BY <1>1 DEF LoginPasswords
<1> HIDE DEF p
<1>3. b \in LoginCalls
  BY <1>1, <1>2 DEF LoginCalls
<1>4. CASE s4 = "ok"
  <2>1. PICK d \in SshAuth!ByMethod(b) : c = SshAuth!NextMethod(d)
    BY <1>4 DEF SshAuth!remmina_ssh_auth, SshAuth!KnownHost, p
  <2>2. /\ LoginFollows(b, d) /\ d.ssh.auth = b.ssh.auth
        /\ b.ssh.auth # "password" => d.failed = b.failed
    BY <1>1, <1>3, <2>1, LoginMethodFollows
  <2>3. LoginFollows(b, c) /\ c.failed = d.failed
        /\ (Len(b.left) <= 1 => c.ssh.auth = b.ssh.auth)
    BY <1>3, <2>1, <2>2, LoginNextFollows
  <2> QED BY <1>3, <1>4, <2>2, <2>3
<1>5. CASE s4 # "ok"
  <2>1. c = [b EXCEPT !.ssh.ret = "retry", !.pwd = s3]
    BY <1>5 DEF SshAuth!remmina_ssh_auth, SshAuth!KnownHost, p
  <2> DEFINE e == [b EXCEPT !.pwd = s3]
  <2>2. e = [ssh |-> s2, left |-> s5.left, failed |-> s6.failed, pwd |-> s3]
    OBVIOUS
  <2>3. e \in LoginCalls
    BY <1>1, <2>2 DEF LoginCalls
  <2>4. c = [e EXCEPT !.ssh.ret = "retry"]
    BY <2>1
  <2>6. c.ssh.ret = "retry"
    <3>1. e.ssh = s2 /\ c = [e EXCEPT !.ssh = [s2 EXCEPT !.ret = "retry"]]
      BY <2>2, <2>4
    <3>2. c.ssh = [s2 EXCEPT !.ret = "retry"]
      BY <2>2, <3>1
    <3> QED BY <1>1, <3>2 DEF LoginSshFields
  <2>7. e.ssh = s2 /\ e.left = s5.left /\ e.failed = s6.failed
    BY <2>2
  <2> HIDE DEF e
  <2>8. "retry" \in LoginAnswers /\ "retry" # "success" /\ "retry" # "partial"
    BY DEF LoginAnswers
  <2>5. /\ LoginFollows(e, c) /\ c.failed = e.failed /\ c.ssh.auth = e.ssh.auth
    BY <2>3, <2>4, <2>8, LoginAnswered
  <2> QED BY <2>3, <2>5, <2>6, <2>7
<1> QED BY <1>4, <1>5

\* It holds before the first connection.
LEMMA LoginInitInv == ASSUME SshChains \subseteq LoginRounds, SshAuth!Init PROVE LoginInv
<1>1. s2 \in LoginSshFields /\ s2.attempt = 0 /\ ~s2.authenticated /\ ~s2.multi /\ ~s2.partial
  BY DEF SshAuth!Init, LoginSshFields, LoginTypes, SshAuth!Results
<1>2. LoginTyped
  BY <1>1 DEF SshAuth!Init, LoginTyped, LoginPasswords, LoginRounds
<1>3. s1 = "init" /\ s6.failed = 0 /\ ~s6.lost /\ ~s6.accepted
  BY DEF SshAuth!Init
<1> QED BY <1>1, <1>2, <1>3 DEF LoginInv, LoginAuthInv, LoginLoopInv, LoginCountInv,
   SshAuth!SuccessMeansAccepted

\* The connection, ...
LEMMA LoginConnectStep == ASSUME LoginInv, SshAuth!init_session PROVE LoginInv'
<1>1. CASE s1' = "closed" /\ UNCHANGED <<s2, s5, s6, s3, s4>>
  BY <1>1 DEF SshAuth!init_session, LoginInv, LoginTyped, LoginAuthInv, LoginLoopInv,
     LoginCountInv, SshAuth!SuccessMeansAccepted, SshAuth!TypeOf
<1>2. CASE /\ s1' = IF s2.forked THEN "auth" ELSE "gui"
           /\ \E u \in BOOLEAN :
                 s2' = [s2 EXCEPT !.session = TRUE, !.user = s2.user \/ u,
                                    !.authenticated = s2.authenticated \/ s5.chain = <<>>]
           /\ s5' = [s5 EXCEPT !.left = s5.chain]
           /\ s6' = [s6 EXCEPT !.accepted = s4 = "ok", !.failed = 0]
           /\ UNCHANGED <<s3, s4>>
  <2>1. s1 = "init" /\ s2 \in LoginSshFields
    BY DEF SshAuth!init_session, LoginInv, LoginTyped
  <2>2. /\ s2' \in LoginSshFields /\ s2'.session
        /\ s2'.authenticated = (s2.authenticated \/ s5.chain = <<>>)
        /\ s2'.auth = s2.auth /\ s2'.type = s2.type /\ s2'.tunnel = s2.tunnel
        /\ s2'.multi = s2.multi /\ s2'.partial = s2.partial /\ s2'.forked = s2.forked
        /\ s2'.attempt = s2.attempt
    BY <1>2, <2>1 DEF LoginSshFields
  <2>3. /\ s5' = [chain |-> s5.chain, left |-> s5.chain]
        /\ s6' = [accepted |-> s4 = "ok", failed |-> 0, lost |-> s6.lost]
    BY <1>2 DEF LoginInv, LoginTyped
  <2>4. Len(s5.chain) \in Nat
    BY DEF LoginInv, LoginTyped, LoginRounds
  <2>5. LoginTyped'
    <3>1. s6' \in [accepted : BOOLEAN, failed : Nat, lost : BOOLEAN]
      <4>1. (s4 = "ok") \in BOOLEAN /\ 0 \in Nat /\ s6.lost \in BOOLEAN
        BY DEF LoginInv, LoginTyped
      <4> QED BY <2>3, <4>1
    <3>2. /\ s5'.chain \in SshChains /\ s5'.chain \in LoginRounds /\ s5'.left \in LoginRounds
          /\ Len(s5'.left) <= Len(s5'.chain)
          /\ s5' = [chain |-> s5'.chain, left |-> s5'.left]
      BY <2>3, <2>4 DEF LoginInv, LoginTyped
    <3>3. s2'.attempt <= 2 /\ s3' \in LoginPasswords /\ s4' \in SshAuth!Hosts
          /\ s1' \in {"init", "gui", "ask", "auth", "panel", "open", "closed"}
      BY <1>2, <2>2 DEF LoginInv, LoginTyped
    <3> QED BY <2>2, <3>1, <3>2, <3>3 DEF LoginTyped
  <2>6. LoginAuthInv' /\ LoginLoopInv'
    BY <1>2, <2>1, <2>2, <2>3 DEF LoginInv, LoginAuthInv, LoginLoopInv,
       SshAuth!SuccessMeansAccepted
  <2>7. LoginCountInv'
    BY <1>2, <2>1, <2>2, <2>3 DEF LoginInv, LoginTyped, LoginCountInv, LoginSshFields
  <2> QED BY <2>5, <2>6, <2>7 DEF LoginInv
<1> QED BY <1>1, <1>2 DEF SshAuth!init_session

\* ... the choice of how to go on, ...
LEMMA LoginGuiStep == ASSUME LoginInv, SshAuth!Gui PROVE LoginInv'
<1>0. s1 = "gui" /\ s2 \in LoginSshFields /\ UNCHANGED <<s4, s5>>
  BY DEF SshAuth!Gui, LoginInv, LoginTyped
<1>1. CASE ~s2.session
  <2>1. s1' = "closed" /\ s6' = [s6 EXCEPT !.lost = TRUE] /\ UNCHANGED <<s2, s3, s4, s5>>
    BY <1>1 DEF SshAuth!Gui
  <2>2. /\ s6' \in [accepted : BOOLEAN, failed : Nat, lost : BOOLEAN]
        /\ s6'.failed = s6.failed /\ s6'.accepted = s6.accepted
    BY <2>1 DEF LoginInv, LoginTyped
  <2> QED BY <1>0, <1>1, <2>1, <2>2 DEF LoginInv, LoginTyped, LoginAuthInv, LoginLoopInv,
     LoginCountInv, SshAuth!SuccessMeansAccepted, SshAuth!TypeOf
<1>2. CASE s2.session
  <2>1. /\ s1' \in {"auth", "ask", "closed"} /\ (s1' = "auth" => s4 = "ok")
        /\ s2' = [s2 EXCEPT !.type = SshAuth!TypeOf(s2.auth), !.attempt = 0]
        /\ s3' = [s3 EXCEPT !.current = s3.saved] /\ UNCHANGED <<s6, s4, s5>>
    BY <1>2 DEF SshAuth!Gui, LoginInv, LoginTyped, SshAuth!Hosts
  <2>2. SshAuth!TypeOf(s2.auth) \in LoginTypes
    BY <1>0 DEF LoginSshFields, SshAuth!Auths, SshAuth!TypeOf, LoginTypes
  <2>3. /\ s2' \in LoginSshFields /\ s2'.session /\ s2'.type = SshAuth!TypeOf(s2'.auth)
        /\ s2'.authenticated = s2.authenticated
        /\ s2'.auth = s2.auth /\ s2'.tunnel = s2.tunnel
        /\ s2'.multi = s2.multi /\ s2'.partial = s2.partial /\ s2'.forked = s2.forked
        /\ s2'.attempt = 0
    <3> DEFINE t == SshAuth!TypeOf(s2.auth)
    <3>1. s2' = [s2 EXCEPT !.type = t, !.attempt = 0] /\ t \in LoginTypes /\ 0 \in 0 .. 3
      BY <2>1, <2>2
    <3>3. SshAuth!TypeOf(s2.auth) = t
      OBVIOUS
    <3> HIDE DEF t
    <3>2. /\ s2' \in LoginSshFields /\ s2'.session = s2.session /\ s2'.type = t
          /\ s2'.authenticated = s2.authenticated
          /\ s2'.auth = s2.auth /\ s2'.tunnel = s2.tunnel
          /\ s2'.multi = s2.multi /\ s2'.partial = s2.partial /\ s2'.forked = s2.forked
          /\ s2'.attempt = 0
      BY <1>0, <3>1 DEF LoginSshFields
    <3> QED BY <1>2, <3>2, <3>3
  <2>4. s3' \in LoginPasswords
    BY <2>1 DEF LoginInv, LoginTyped, LoginPasswords
  <2>5. LoginTyped'
    BY <2>1, <2>3, <2>4 DEF LoginInv, LoginTyped
  <2>6. LoginAuthInv' /\ LoginLoopInv'
    BY <1>0, <1>2, <2>1, <2>3 DEF LoginInv, LoginAuthInv, LoginLoopInv,
       SshAuth!SuccessMeansAccepted
  <2>7. LoginCountInv'
    BY <1>0, <2>1, <2>3 DEF LoginInv, LoginTyped, LoginCountInv
  <2> QED BY <2>5, <2>6, <2>7 DEF LoginInv
<1> QED BY <1>1, <1>2

\* ... the question about the host, ...
LEMMA LoginAskStep == ASSUME LoginInv, SshAuth!Ask PROVE LoginInv'
<1>0. s1 = "ask" /\ UNCHANGED <<s2, s3, s5>>
  BY DEF SshAuth!Ask
<1>1. CASE s1' = "closed" /\ UNCHANGED <<s4, s6>>
  BY <1>0, <1>1 DEF LoginInv, LoginTyped, LoginAuthInv, LoginLoopInv, LoginCountInv,
     SshAuth!SuccessMeansAccepted, SshAuth!TypeOf
<1>2. CASE s1' = "auth" /\ s6' = [s6 EXCEPT !.accepted = TRUE] /\ s4' \in {s4, "ok"}
  <2>1. /\ s6' \in [accepted : BOOLEAN, failed : Nat, lost : BOOLEAN] /\ s6'.accepted
        /\ s6'.failed = s6.failed /\ s6'.lost = s6.lost
    BY <1>2 DEF LoginInv, LoginTyped
  <2>2. LoginTyped' /\ LoginAuthInv' /\ LoginLoopInv'
    BY <1>0, <1>2, <2>1 DEF LoginInv, LoginTyped, LoginAuthInv, LoginLoopInv,
       SshAuth!SuccessMeansAccepted, SshAuth!Hosts
  <2>3. s2.attempt \in Nat
    BY DEF LoginInv, LoginTyped, LoginSshFields
  <2>4. LoginCountInv'
    <3>1. SshAuth!TypeOf(s2'.auth) = SshAuth!TypeOf(s2.auth)
      BY <1>0
    <3>2. SUFFICES ASSUME Len(s5.chain) <= 1
                   PROVE  /\ ~s2.multi /\ (~s2.forked => s2.type = SshAuth!TypeOf(s2.auth))
                          /\ s6'.failed = 0
      BY <1>0, <1>2, <2>1, <2>3, <3>1 DEF LoginCountInv
    <3> QED BY <1>0, <2>1, <3>2 DEF LoginInv, LoginCountInv
  <2> QED BY <2>2, <2>4 DEF LoginInv
<1> QED BY <1>1, <1>2 DEF SshAuth!Ask

\* Where the user is asked, the session is there.
LEMMA LoginPanelStep == ASSUME LoginInv, SshAuth!Panel PROVE LoginInv'
<1>0. /\ s1 = "panel" /\ UNCHANGED <<s4, s5, s6>> /\ s2 \in LoginSshFields
         /\ s3 \in LoginPasswords
      /\ ~s2.forked /\ s2.session
  BY DEF SshAuth!Panel, LoginInv, LoginTyped, LoginLoopInv
<1>1. ASSUME UNCHANGED s2, s1' = "auth", s3' \in LoginPasswords, s2.type # "password"
             \/ s2.tunnel \/ s2.multi
      PROVE  LoginInv'
  <2>1. LoginTyped' /\ LoginAuthInv' /\ LoginLoopInv'
    BY <1>0, <1>1 DEF LoginInv, LoginTyped, LoginAuthInv, LoginLoopInv,
       SshAuth!SuccessMeansAccepted
  <2>2. Len(s5.chain) <= 1 /\ ~s2.tunnel => s2.auth # "password"
    BY <1>0, <1>1 DEF LoginInv, LoginCountInv, SshAuth!TypeOf
  <2>3. LoginCountInv'
    BY <1>0, <1>1, <2>2 DEF LoginInv, LoginCountInv, SshAuth!TypeOf
  <2> QED BY <2>1, <2>3 DEF LoginInv
<1>2. ASSUME UNCHANGED <<s2, s3>>, s1' = "closed" PROVE LoginInv'
  BY <1>0, <1>2 DEF LoginInv, LoginTyped, LoginAuthInv, LoginLoopInv, LoginCountInv,
     SshAuth!SuccessMeansAccepted, SshAuth!TypeOf
<1>3. ASSUME s2' = [s2 EXCEPT !.user = TRUE, !.session = FALSE], s3' \in LoginPasswords,
             s1' = IF s2.partial THEN "gui" ELSE "init",
             s2.type = "passphrase" \/ (s2.type = "password" /\ ~s2.multi)
      PROVE  LoginInv'
  <2>1. /\ s2' \in LoginSshFields /\ ~s2'.session /\ s2'.authenticated = s2.authenticated
        /\ s2'.auth = s2.auth /\ s2'.tunnel = s2.tunnel /\ s2'.type = s2.type
        /\ s2'.multi = s2.multi /\ s2'.partial = s2.partial /\ s2'.forked = s2.forked
        /\ s2'.attempt = s2.attempt
    BY <1>0, <1>3 DEF LoginSshFields
  <2>2. LoginTyped' /\ LoginAuthInv'
    BY <1>0, <1>3, <2>1 DEF LoginInv, LoginTyped, LoginAuthInv, SshAuth!SuccessMeansAccepted
  <2>3. LoginLoopInv'
    BY <1>0, <1>3, <2>1 DEF LoginInv, LoginLoopInv
  <2>4. LoginCountInv'
    BY <1>0, <1>3, <2>1 DEF LoginInv, LoginCountInv, LoginLoopInv
  <2> QED BY <2>2, <2>3, <2>4 DEF LoginInv
<1>4. /\ \A s \in BOOLEAN : [s3 EXCEPT !.current = TRUE, !.saved = s] \in LoginPasswords
      /\ \A s \in BOOLEAN : [s3 EXCEPT !.current = TRUE, !.saved = s,
         !.ssh = TRUE] \in LoginPasswords
  BY <1>0 DEF LoginPasswords
<1>5. CASE s2.type \in {"krb", "kbdint"} /\ s1' = "auth" /\ UNCHANGED <<s2, s3>>
  BY <1>0, <1>1, <1>5
<1>6. CASE s2.type \in {"password", "passphrase"} /\ SshAuth!Return("cancel", s2)
           /\ UNCHANGED s3
  BY <1>2, <1>6 DEF SshAuth!Return
<1>7. CASE /\ s2.type = "passphrase" /\ s2.ret = "empty"
           /\ SshAuth!Return("reconnect", [s2 EXCEPT !.user = TRUE])
           /\ \E s \in BOOLEAN : s3' = [s3 EXCEPT !.current = TRUE, !.saved = s]
  <2>1. /\ s2' = [s2 EXCEPT !.user = TRUE, !.session = FALSE]
        /\ s1' = IF s2.partial THEN "gui" ELSE "init"
    BY <1>0, <1>7 DEF SshAuth!Return, LoginSshFields
  <2> QED BY <1>3, <1>4, <1>7, <2>1
<1>8. CASE /\ s2.type = "passphrase" /\ s2.ret # "empty"
           /\ s1' = "auth" /\ UNCHANGED s2
           /\ \E s \in BOOLEAN : s3' = [s3 EXCEPT !.current = TRUE, !.saved = s]
  BY <1>1, <1>4, <1>8
<1>9. CASE /\ s2.type = "password"
           /\ \E s \in BOOLEAN :
                IF ~s2.tunnel /\ ~s2.multi
                THEN /\ SshAuth!Return("reconnect", [s2 EXCEPT !.user = TRUE])
                     /\ s3' = [s3 EXCEPT !.current = TRUE, !.saved = s, !.ssh = TRUE]
                ELSE /\ s1' = "auth" /\ UNCHANGED s2
                     /\ s3' = [s3 EXCEPT !.current = TRUE, !.saved = s]
  <2>1. CASE s2.tunnel \/ s2.multi
    BY <1>1, <1>4, <1>9, <2>1
  <2>2. CASE ~s2.tunnel /\ ~s2.multi
    <3>1. /\ s2' = [s2 EXCEPT !.user = TRUE, !.session = FALSE]
          /\ s1' = IF s2.partial THEN "gui" ELSE "init"
      BY <1>0, <1>9, <2>2 DEF SshAuth!Return, LoginSshFields
    <3> QED BY <1>3, <1>4, <1>9, <2>2, <3>1
  <2> QED BY <2>1, <2>2
<1> QED BY <1>5, <1>6, <1>7, <1>8, <1>9 DEF SshAuth!Panel

\* ... and a call of remmina_ssh_auth keep it.
LEMMA LoginAuthStep == ASSUME LoginInv, SshAuth!Auth PROVE LoginInv'
<1>1. PICK c \in SshAuth!remmina_ssh_auth :
          /\ s3' = c.pwd
          /\ s5' = [s5 EXCEPT !.left = c.left]
          /\ s6' = [s6 EXCEPT !.failed = c.failed]
          /\ IF c.ssh.ret \in {"retry", "empty"} /\ SshAuth!MoreAttempts /\ ~s2.forked
             THEN s1' = "panel" /\ s2' = [c.ssh EXCEPT !.attempt = c.ssh.attempt + 1]
             ELSE SshAuth!Return(c.ssh.ret, c.ssh)
  BY DEF SshAuth!Auth
<1>2. PICK b \in LoginCalls :
              /\ b.ssh = s2 /\ b.left = s5.left /\ b.failed = s6.failed /\ LoginFollows(b, c)
              /\ c.ssh.ret = "success" => s4 = "ok"
              /\ s2.auth # "password" => c.failed = s6.failed
              /\ Len(s5.left) <= 1 => c.ssh.auth = s2.auth
  BY LoginAuthCall
<1>3. /\ s1 = "auth" /\ s4' = s4 /\ s2.session /\ s2 \in LoginSshFields
      /\ s5 = [chain |-> s5.chain, left |-> s5.left]
      /\ Len(s5.left) \in Nat /\ Len(s5.chain) \in Nat /\ Len(s5.left) <= Len(s5.chain)
      /\ s6 \in [accepted : BOOLEAN, failed : Nat, lost : BOOLEAN]
      /\ s2.attempt \in 0 .. 2
  BY DEF SshAuth!Auth, LoginInv, LoginTyped, LoginLoopInv, LoginRounds, LoginSshFields
<1>4. /\ c.ssh \in LoginSshFields /\ c.pwd \in LoginPasswords /\ c.left \in LoginRounds
         /\ c.failed \in Nat
      /\ Len(c.left) <= Len(s5.left) /\ Len(c.left) \in Nat
      /\ LoginSameLoop(s2, c.ssh) /\ c.failed \in {s6.failed, s6.failed + 1}
      /\ c.ssh.ret \in LoginAnswers
      /\ c.ssh.multi = s2.multi \/ (c.ssh.multi /\ Len(s5.left) > 1)
      /\ c.ssh.authenticated =>
            \/ c.ssh.ret = "success" /\ c.left = <<>>
            \/ s2.authenticated /\ c.left = s5.left
      /\ c.ssh.ret = "success" => c.left = <<>>
      /\ c.ssh.ret = "partial" => c.ssh.multi /\ Len(s5.left) > 1
  BY <1>2 DEF LoginFollows, LoginCalls, LoginRounds
<1>5. /\ s5' = [chain |-> s5.chain, left |-> c.left]
      /\ s6' \in [accepted : BOOLEAN, failed : Nat, lost : BOOLEAN]
      /\ s6'.failed = c.failed /\ s6'.accepted = s6.accepted /\ s6'.lost = s6.lost
  BY <1>1, <1>3, <1>4
<1> DEFINE asked == c.ssh.ret \in {"retry", "empty"} /\ s2.attempt < 2 /\ ~s2.forked
<1>6. \/ asked /\ s1' = "panel" /\ s2' = [c.ssh EXCEPT !.attempt = c.ssh.attempt + 1]
      \/ ~asked /\ c.ssh.ret = "success" /\ s1' = "open" /\ s2' = c.ssh
      \/ ~asked /\ c.ssh.ret = "partial" /\ ~s2.forked /\ s1' = "gui"
         /\ s2' = [c.ssh EXCEPT !.partial = TRUE]
      \/ ~asked /\ c.ssh.ret # "success" /\ s1' = "closed" /\ s2' = c.ssh
  BY <1>1, <1>4 DEF SshAuth!MoreAttempts, SshAuth!Return, LoginSameLoop, LoginAnswers
<1>7. /\ s2' \in LoginSshFields /\ s2'.auth = c.ssh.auth /\ s2'.type = s2.type
      /\ s2'.user = s2.user /\ s2'.session /\ s2'.authenticated = c.ssh.authenticated
      /\ s2'.tunnel = s2.tunnel /\ s2'.multi = c.ssh.multi /\ s2'.forked = s2.forked
      /\ s2'.partial = (s2.partial \/ s1' = "gui")
      /\ s2'.attempt = IF s1' = "panel" THEN s2.attempt + 1 ELSE s2.attempt
  <2>1. /\ c.ssh.type = s2.type /\ c.ssh.user = s2.user /\ c.ssh.session = s2.session
        /\ c.ssh.tunnel = s2.tunnel /\ c.ssh.partial = s2.partial /\ c.ssh.forked = s2.forked
        /\ c.ssh.attempt = s2.attempt
    BY <1>4 DEF LoginSameLoop
  <2>2. CASE s1' = "panel"
    <3>1. s2' = [c.ssh EXCEPT !.attempt = s2.attempt + 1] /\ s2.attempt + 1 \in 0 .. 3
      BY <1>3, <1>6, <2>1, <2>2
    <3> QED BY <1>3, <1>4, <2>1, <2>2, <3>1 DEF LoginSshFields
  <2>3. CASE s1' = "gui"
    <3>1. s2' = [c.ssh EXCEPT !.partial = TRUE]
      BY <1>6, <2>3
    <3> QED BY <1>3, <1>4, <2>1, <2>3, <3>1 DEF LoginSshFields
  <2>4. CASE s1' \notin {"panel", "gui"}
    <3>1. s2' = c.ssh
      BY <1>6, <2>4
    <3> QED BY <1>3, <1>4, <2>1, <2>4, <3>1 DEF LoginSshFields
  <2> QED BY <2>2, <2>3, <2>4
<1>8. /\ s1' \in {"panel", "open", "gui", "closed"}
      /\ s1' = "open" <=> c.ssh.ret = "success"
      /\ s1' = "gui" => c.ssh.multi /\ Len(s5.left) > 1 /\ ~s2.forked
      /\ s1' = "panel" => s2.attempt < 2 /\ ~s2.forked
  BY <1>4, <1>6
<1>9. LoginTyped'
  <2>1. s2'.attempt <= 2
    BY <1>3, <1>7, <1>8
  <2>2. Len(c.left) <= Len(s5.chain)
    BY <1>3, <1>4
  <2> QED BY <1>1, <1>3, <1>4, <1>5, <1>7, <1>8, <2>1, <2>2 DEF LoginInv, LoginTyped
<1>10. LoginAuthInv'
  BY <1>2, <1>3, <1>4, <1>5, <1>7, <1>8 DEF LoginInv, LoginAuthInv,
     SshAuth!SuccessMeansAccepted
<1>11. LoginLoopInv'
  BY <1>3, <1>4, <1>5, <1>7, <1>8 DEF LoginInv, LoginLoopInv
<1>12. LoginCountInv'
  <2>1. SUFFICES ASSUME Len(s5.chain) <= 1 PROVE LoginCountInv'
    BY <1>5 DEF LoginCountInv
  <2>2. Len(s5.left) <= 1 /\ c.ssh.auth = s2.auth /\ ~c.ssh.multi
    BY <1>2, <1>3, <1>4, <2>1 DEF LoginInv, LoginCountInv
  <2>3. /\ ~s2.forked => s2.type = SshAuth!TypeOf(s2.auth)
        /\ s2.auth # "password" => s6.failed = 0
        /\ s2.tunnel => s6.failed <= s2.attempt
        /\ ~s2.tunnel => s6.failed = 0
    BY <1>3, <2>1 DEF LoginInv, LoginCountInv
  <2>4. s1' \notin {"gui", "ask", "auth"}
    BY <1>4, <1>8, <2>2
  <2>5. /\ s6'.failed <= (IF s2.tunnel THEN 3 ELSE 1)
        /\ s1' = "panel" /\ s2.tunnel => s6'.failed <= s2'.attempt
        /\ s2.auth # "password" => s6'.failed = 0
    BY <1>2, <1>3, <1>4, <1>5, <1>7, <2>3
  <2>6. s1' = "panel" => s2'.type = SshAuth!TypeOf(s2'.auth)
    BY <1>7, <1>8, <2>2, <2>3
  <2> QED BY <1>7, <2>2, <2>4, <2>5, <2>6 DEF LoginCountInv
<1> QED BY <1>9, <1>10, <1>11, <1>12 DEF LoginInv

\* Every step keeps the invariant.
LEMMA LoginStepInv == ASSUME LoginInv, [SshAuth!Next]_(SshAuth!vars) PROVE LoginInv'
<1>1. CASE UNCHANGED SshAuth!vars
  BY <1>1 DEF SshAuth!vars, LoginInv, LoginTyped, LoginAuthInv, LoginLoopInv,
     LoginCountInv, SshAuth!SuccessMeansAccepted, SshAuth!TypeOf
<1> QED BY <1>1, LoginConnectStep, LoginGuiStep, LoginAskStep, LoginAuthStep,
   LoginPanelStep DEF SshAuth!Next

\* What it says of a login.
LEMMA LoginInvMeans ==
    ASSUME LoginInv PROVE SshAuth!TypeOK /\ SshAuth!SuccessMeansAccepted
           /\ SshAuth!FewAttempts /\ SshAuth!SessionThere
BY DEF LoginInv, LoginTyped, SshAuth!TypeOK, LoginAuthInv, LoginLoopInv, LoginCountInv,
   SshAuth!FewAttempts, SshAuth!SessionThere, LoginSshFields, LoginPasswords, LoginTypes

-----------------------------------------------------------------------------
(* The shell of SSH (src/src/remmina_ssh.c).                               *)
(* The variables: s1 pc, s2 run, s3 shell, s4 data, s5 idle, s6 main, s7   *)
(* gp, s8 hist, s9 fault.                                                  *)

ShellInShell == s6 \in {"shellcancel", "shelljoin", "shellfree"}
ShellQuiet == s6 \in {"loop", "hung"}
ShellEarly == s1 \in {"new", "login", "failed", "tell"}
ShellOpening == s1 \in {"opened", "stored", "wait", "signal", "zero"}
ShellRuns == s2 \in {"setup", "loop", "over", "callback"}

\* How far the login is, and which thread still runs
ShellLoginInv ==
    /\ s1 \in {"login", "failed", "tell"} \/ ShellOpening => s4.thread
    /\ s6 \in {"join", "free"} \/ ShellInShell => s1 \in {"end", "dead"}
    /\ ~ShellQuiet => s1 # "new"
    /\ ShellEarly => s2 = "none" /\ ~s4.shell
    /\ s1 = "opened" => ~s4.shell
    /\ ShellOpening /\ s1 # "opened" => s4.shell
    /\ s1 = "end" /\ s2 # "none" => s4.shell \/ s7.closed
    /\ ShellInShell => s4.shell
    /\ s1 \in {"new", "login", "failed"} => ~s3.freed
    /\ s1 = "dead" => s7.closed \/ s6 \in {"join", "free"} \/ ShellInShell
    /\ s6 \in {"close", "cancel"} => s1 # "dead"
    /\ s3.thread => s2 \in {"setup", "loop", "over", "dead"}

\* Who frees, cancels and locks has left the reason behind.
ShellUseInv ==
    /\ s2 = "callback" \/ s5.exit => s8.ended
    /\ s3.freed /\ (s4.shell \/ ShellOpening) => s8.ended
    /\ s6 = "cancel" /\ ~s4.thread => s8.raced
    /\ s6 = "shellcancel" /\ ~s3.thread => s8.ended \/ s8.refused
    /\ s9 = "freed" => s8.ended
    /\ s9 = "zero" => s8.ended \/ s8.refused \/ s8.raced
    /\ s3.locked => s8.kept
    /\ s6 = "hung" => s8.kept

\* The callback of the shell is still to come.
ShellPending == s5.exit \/ (ShellRuns /\ s3.callback)

\* The end is signalled by the login, by the callback and by one close, never by all of them.
ShellCountInv ==
    /\ s7.closed <=> s7.closes > 0
    /\ s7.closes <= 2 /\ s5.closed <= s7.closes
    /\ ShellEarly => s7.closes = 0
    /\ ~ShellQuiet /\ s2 # "none" => s7.closes = 0
    /\ ~ShellQuiet => s7.closes <= 1
    /\ ShellPending /\ ~s3.freed => s7.closes <= 1
    /\ s2 = "none" => ~s3.callback /\ ~s5.exit
    /\ s5.exit => s2 = "end"
    /\ s6 \in {"join", "free"} /\ ~s4.shell /\ ShellPending => s8.orphan
    /\ ShellInShell => ~s3.callback
    /\ s5.exit => s3.callback \/ s7.closed \/ ShellInShell

\* It is signalled once, but for the two known races.
ShellOnceInv ==
    s7.closes > 0 /\ ~s8.orphan /\ ~s8.raced =>
        s7.closes = 1 /\ ShellQuiet /\ (ShellPending => s3.freed)

\* Who comes to its end has told it, or is still to tell it.
ShellToldInv ==
    /\ s2 = "none" /\ ShellOpening => s7.error
    /\ s2 = "none" /\ s1 = "end" => s7.error \/ s7.closed
    /\ s2 = "end" => s8.refused \/ s5.exit \/ s7.closed \/ ShellInShell
    /\ s2 = "dead" => s8.refused \/ s7.closed \/ ShellInShell
    /\ ShellRuns => s3.callback \/ s7.closed \/ ShellInShell

ShellInv == SshShell!TypeOK /\ ShellLoginInv /\ ShellUseInv /\ ShellCountInv
   /\ ShellOnceInv /\ ShellToldInv

\* The records that make up the state
ShellType == [made : BOOLEAN, freed : BOOLEAN, thread : BOOLEAN, channel : BOOLEAN,
              callback : BOOLEAN, locked : BOOLEAN]
ShellDataType == [thread : BOOLEAN, shell : BOOLEAN, closed : BOOLEAN]
ShellIdleType == [exit : BOOLEAN, opened : BOOLEAN, closed : 0 .. 3]
ShellWidgetType == [error : BOOLEAN, opened : BOOLEAN, closed : BOOLEAN, closes : 0 .. 3,
   gone : BOOLEAN]
ShellHistType == [ended : BOOLEAN, refused : BOOLEAN, orphan : BOOLEAN, raced : BOOLEAN,
   kept : BOOLEAN]

\* It holds before the login.
LEMMA ShellInitInv == ASSUME SshShell!Init PROVE ShellInv
<1>1. SshShell!TypeOK
  BY DEF SshShell!Init, SshShell!TypeOK
<1>2. /\ s1 = "new" /\ s2 = "none" /\ s6 = "loop" /\ s9 = "none"
      /\ ~s3.freed /\ ~s3.callback /\ ~s3.locked /\ ~s4.shell
      /\ ~s3.thread
      /\ ~s5.exit /\ s5.closed = 0 /\ ~s7.closed /\ s7.closes = 0
  BY DEF SshShell!Init
<1> QED BY <1>1, <1>2 DEF ShellInv, ShellLoginInv, ShellUseInv, ShellCountInv,
   ShellOnceInv, ShellToldInv, ShellPending, ShellInShell, ShellQuiet, ShellEarly,
   ShellOpening, ShellRuns

\* What remmina_protocol_widget_signal_connection_closed leaves behind
LEMMA ShellSignalled ==
    ASSUME s7 \in ShellWidgetType, s5 \in ShellIdleType, s7.closes <= 2, s5.closed <= s7.closes,
           NEW q, q = s5 \/ q = [s5 EXCEPT !.exit = FALSE], SshShell!SignalClosed(s7, q)
    PROVE  /\ s7' \in ShellWidgetType /\ s5' \in ShellIdleType
           /\ s7'.closed /\ s7'.closes = s7.closes + 1 /\ s7'.error = s7.error
           /\ s7'.gone = s7.gone /\ s5'.closed = s5.closed + 1 /\ s5'.exit = q.exit
<1>1. q \in ShellIdleType /\ q.closed = s5.closed
  BY DEF ShellIdleType
<1>2. s7.closes + 1 \in 0 .. 3 /\ q.closed + 1 \in 0 .. 3 /\ TRUE \in BOOLEAN
  BY <1>1 DEF ShellWidgetType, ShellIdleType
<1>3. s7' = [s7 EXCEPT !.closed = TRUE, !.closes = s7.closes + 1]
      /\ s5' = [q EXCEPT !.closed = q.closed + 1]
  BY DEF SshShell!SignalClosed
<1>4. s7' \in ShellWidgetType /\ s7'.closed /\ s7'.closes = s7.closes + 1
      /\ s7'.error = s7.error
      /\ s7'.gone = s7.gone
  BY <1>2, <1>3 DEF ShellWidgetType
<1>5. s5' \in ShellIdleType /\ s5'.closed = q.closed + 1 /\ s5'.exit = q.exit
  BY <1>1, <1>2, <1>3 DEF ShellIdleType
<1> QED BY <1>1, <1>4, <1>5

\* The steps that signal the end, field by field
LEMMA ShellTyped ==
    ASSUME ShellInv
    PROVE  /\ s3 \in ShellType /\ s4 \in ShellDataType /\ s5 \in ShellIdleType
              /\ s7 \in ShellWidgetType
           /\ s8 \in ShellHistType /\ s7.closes <= 2 /\ s5.closed <= s7.closes
           /\ s7.closes \in Nat /\ s5.closed \in Nat
BY DEF ShellInv, SshShell!TypeOK, ShellCountInv, ShellType, ShellDataType, ShellIdleType,
   ShellWidgetType, ShellHistType

\* What a failed login, ...
LEMMA ShellFailedDoes ==
    ASSUME ShellInv, SshShell!Failed, s1 = "tell"
    PROVE  /\ s1' = "end" /\ s8'.orphan = s8.orphan
              /\ s8'.raced = (s8.raced \/ SshShell!Closing)
           /\ s7' \in ShellWidgetType /\ s5' \in ShellIdleType /\ s8' \in ShellHistType
           /\ s7'.closed /\ s7'.closes = s7.closes + 1 /\ s7'.error = s7.error
           /\ s5'.closed = s5.closed + 1 /\ s5'.exit = s5.exit
           /\ UNCHANGED <<s2, s4, s6, s9, s3>>
<1>1. SshShell!SignalClosed(s7, s5) /\ s8' = [s8 EXCEPT !.raced = s8.raced \/ SshShell!Closing]
  BY DEF SshShell!Failed
<1>2. SshShell!Closing \in BOOLEAN
  BY DEF SshShell!Closing
<1> QED BY <1>1, <1>2, ShellTyped, ShellSignalled DEF SshShell!Failed, ShellHistType

\* ... the call at the end of a shell ...
LEMMA ShellCallbackDoes ==
    ASSUME ShellInv, SshShell!call_exit_callback, ~s3.freed
    PROVE  /\ s7' \in ShellWidgetType /\ s5' \in ShellIdleType /\ s3' \in ShellType
           /\ s7'.closed /\ s7'.closes = s7.closes + 1 /\ s7'.error = s7.error
           /\ s5'.closed = s5.closed + 1 /\ ~s5'.exit /\ s5.exit
           /\ s3'.freed /\ ~s3'.callback /\ s3'.thread = s3.thread
           /\ s3'.locked = s3.locked /\ s6 = "loop"
           /\ UNCHANGED <<s1, s2, s4, s6, s8, s9>>
<1>1. /\ SshShell!SignalClosed(s7, [s5 EXCEPT !.exit = FALSE])
      /\ s3' = [s3 EXCEPT !.freed = TRUE, !.callback = FALSE]
  BY DEF SshShell!call_exit_callback
<1>2. [s5 EXCEPT !.exit = FALSE].exit = FALSE
  BY ShellTyped DEF ShellIdleType
<1> QED BY <1>1, <1>2, ShellTyped, ShellSignalled DEF SshShell!call_exit_callback,
   SshShell!MainFree, ShellType

\* ... and the freeing of a shell leave behind.
LEMMA ShellFreeDoes ==
    ASSUME ShellInv, SshShell!FreeShell
    PROVE  /\ s7' \in ShellWidgetType /\ s5' \in ShellIdleType /\ s3' \in ShellType
              /\ s4' \in ShellDataType
           /\ s7'.closed /\ s7'.closes = s7.closes + 1 /\ s7'.error = s7.error
           /\ s5'.closed = s5.closed + 1 /\ s5'.exit = s5.exit
           /\ s3'.callback = s3.callback /\ ~s4'.shell
           /\ \/ s6 = "shellfree" /\ s3'.freed
              \/ s6 = "free" /\ ~s4.shell /\ s3'.freed = s3.freed
           /\ s6' = "loop" /\ UNCHANGED <<s1, s2, s8, s9>>
<1>1. SshShell!SignalClosed(s7, s5)
  BY DEF SshShell!FreeShell
<1> QED BY <1>1, ShellTyped, ShellSignalled DEF SshShell!FreeShell, ShellType, ShellDataType

\* Every step keeps the types, ...
LEMMA ShellTypeStep == ASSUME ShellInv, [SshShell!Next]_(SshShell!vars) PROVE SshShell!TypeOK'
<1>0. /\ s3 \in ShellType /\ s4 \in ShellDataType /\ s5 \in ShellIdleType
         /\ s7 \in ShellWidgetType
      /\ s8 \in ShellHistType
  BY DEF ShellInv, SshShell!TypeOK, ShellType, ShellDataType, ShellIdleType,
     ShellWidgetType, ShellHistType
<1>00. s7.closes <= 2 /\ s5.closed <= 2 /\ s7.closes + 1 \in 0 .. 3 /\ s5.closed + 1 \in 0 .. 3
  BY <1>0 DEF ShellInv, ShellCountInv, ShellIdleType, ShellWidgetType
<1>1. CASE SshShell!open_connection
  <2>1. s4' \in ShellDataType
    BY <1>0, <1>00, <1>1 DEF SshShell!open_connection, SshShell!MainFree, ShellDataType
  <2>2. s7' \in ShellWidgetType
    BY <1>0, <1>00, <1>1 DEF SshShell!open_connection, SshShell!MainFree, ShellWidgetType
  <2> QED BY <1>1, <2>1, <2>2 DEF ShellInv, SshShell!TypeOK, SshShell!open_connection,
     SshShell!MainFree, ShellDataType, ShellWidgetType
<1>2. CASE SshShell!Login
  <2>1. s3' \in ShellType
    BY <1>0, <1>00, <1>2 DEF SshShell!Login, ShellType
  <2>2. s7' \in ShellWidgetType
    BY <1>0, <1>00, <1>2 DEF SshShell!Login, ShellWidgetType
  <2> QED BY <1>2, <2>1, <2>2 DEF ShellInv, SshShell!TypeOK, SshShell!Login, ShellType,
     ShellWidgetType
<1>3. CASE SshShell!Failed
  <2>1. CASE s1 = "tell"
    BY <1>3, <2>1, ShellFailedDoes DEF ShellInv, SshShell!TypeOK, ShellIdleType,
       ShellWidgetType, ShellHistType
  <2>2. CASE s1 # "tell"
    <3>1. s3' \in ShellType
      BY <1>0, <1>3, <2>2 DEF SshShell!Failed, ShellType
    <3> QED BY <1>3, <2>2, <3>1 DEF SshShell!Failed, ShellInv, SshShell!TypeOK, ShellType
  <2> QED BY <2>1, <2>2
<1>4. CASE SshShell!Store
  <2>1. s4' \in ShellDataType
    BY <1>0, <1>00, <1>4 DEF SshShell!Store, ShellDataType
  <2> QED BY <1>4, <2>1 DEF ShellInv, SshShell!TypeOK, SshShell!Store, ShellDataType
<1>5. CASE SshShell!Connect
  <2>1. s7' \in ShellWidgetType
    BY <1>0, <1>00, <1>5 DEF SshShell!Connect, SshShell!Closing, ShellWidgetType
  <2>2. s5' \in ShellIdleType
    BY <1>0, <1>00, <1>5 DEF SshShell!Connect, SshShell!Closing, ShellIdleType
  <2>3. s4' \in ShellDataType
    BY <1>0, <1>00, <1>5 DEF SshShell!Connect, SshShell!Closing, ShellDataType
  <2>4. s8' \in ShellHistType
    BY <1>0, <1>00, <1>5 DEF SshShell!Connect, SshShell!Closing, ShellHistType
  <2> QED BY <1>5, <2>1, <2>2, <2>3, <2>4 DEF ShellInv, SshShell!TypeOK, SshShell!Connect,
     SshShell!Closing, ShellWidgetType, ShellIdleType, ShellDataType, ShellHistType
<1>6. CASE SshShell!Setup
  <2>1. s3' \in ShellType
    BY <1>0, <1>6 DEF SshShell!Setup, ShellType
  <2>2. s8' \in ShellHistType
    BY <1>0, <1>6 DEF SshShell!Setup, ShellHistType
  <2>3. s2' \in {"loop", "end", "dead"} /\ UNCHANGED <<s1, s4, s5, s6, s7, s9>>
    BY <1>6 DEF SshShell!Setup
  <2> QED BY <2>1, <2>2, <2>3 DEF ShellInv, SshShell!TypeOK, ShellType, ShellHistType
<1>7. CASE SshShell!ChannelCloses
  <2>1. s3' \in ShellType
    BY <1>0, <1>00, <1>7 DEF SshShell!ChannelCloses, ShellType
  <2> QED BY <1>7, <2>1 DEF ShellInv, SshShell!TypeOK, SshShell!ChannelCloses, ShellType
<1>8. CASE SshShell!ShellEnds
  <2>1. s3' \in ShellType
    BY <1>0, <1>8 DEF SshShell!ShellEnds, ShellType
  <2>2. s8' \in ShellHistType
    BY <1>0, <1>8 DEF SshShell!ShellEnds, ShellHistType
  <2>3. s5' \in ShellIdleType
    <3>1. s5' = s5 \/ s5' = [s5 EXCEPT !.exit = s3.callback]
      BY <1>8 DEF SshShell!ShellEnds
    <3>2. s3.callback \in BOOLEAN
      BY <1>0 DEF ShellType
    <3> QED BY <1>0, <3>1, <3>2 DEF ShellIdleType
  <2>4. s2' \in {"callback", "end", s2} /\ s9' \in {s9, "freed"} /\ UNCHANGED <<s1, s4, s6, s7>>
    BY <1>8 DEF SshShell!ShellEnds
  <2> QED BY <2>1, <2>2, <2>3, <2>4 DEF ShellInv, SshShell!TypeOK, ShellType,
     ShellHistType, ShellIdleType
<1>9. CASE SshShell!call_exit_callback
  <2>1. CASE ~s3.freed
    BY <1>9, <2>1, ShellCallbackDoes DEF ShellInv, SshShell!TypeOK, ShellType,
       ShellIdleType, ShellWidgetType
  <2>2. CASE s3.freed
    BY <1>9, <2>2 DEF SshShell!call_exit_callback, ShellInv, SshShell!TypeOK
  <2> QED BY <2>1, <2>2
<1>10. CASE SshShell!Serve
  <2>1. s5' \in ShellIdleType
    <3>1. \/ s5' = [s5 EXCEPT !.opened = FALSE]
          \/ s5.closed > 0 /\ s5' = [s5 EXCEPT !.closed = s5.closed - 1]
      BY <1>10 DEF SshShell!Serve
    <3>2. s5.closed > 0 => s5.closed - 1 \in 0 .. 3
      BY <1>0 DEF ShellIdleType
    <3> QED BY <1>0, <3>1, <3>2 DEF ShellIdleType
  <2>2. s7' \in ShellWidgetType
    BY <1>0, <1>10 DEF SshShell!Serve, ShellWidgetType
  <2> QED BY <1>10, <2>1, <2>2 DEF ShellInv, SshShell!TypeOK, SshShell!Serve,
     ShellIdleType, ShellWidgetType
<1>11. CASE SshShell!Resize
  <2> QED BY <1>11 DEF ShellInv, SshShell!TypeOK, SshShell!Resize, SshShell!MainFree
<1>12. CASE SshShell!close_connection
  <2>1. s4' \in ShellDataType
    BY <1>0, <1>00, <1>12 DEF SshShell!close_connection, SshShell!MainFree, ShellDataType
  <2> QED BY <1>12, <2>1 DEF ShellInv, SshShell!TypeOK, SshShell!close_connection,
     SshShell!MainFree, ShellDataType
<1>13. CASE SshShell!Cancel
  <2>1. s8' \in ShellHistType
    BY <1>0, <1>00, <1>13 DEF SshShell!Cancel, ShellHistType
  <2> QED BY <1>13, <2>1 DEF ShellInv, SshShell!TypeOK, SshShell!Cancel, ShellHistType
<1>14. CASE SshShell!shell_free
  <2>1. s3' \in ShellType
    BY <1>0, <1>00, <1>14 DEF SshShell!shell_free, ShellType
  <2> QED BY <1>14, <2>1 DEF ShellInv, SshShell!TypeOK, SshShell!shell_free, ShellType
<1>15. CASE SshShell!CancelShell
  <2> QED BY <1>15 DEF ShellInv, SshShell!TypeOK, SshShell!CancelShell
<1>16. CASE SshShell!FreeShell
  BY <1>16, ShellFreeDoes DEF ShellInv, SshShell!TypeOK, ShellType, ShellDataType,
     ShellIdleType, ShellWidgetType
<1>17. CASE UNCHANGED SshShell!vars
  BY <1>17 DEF SshShell!vars, ShellInv, SshShell!TypeOK, ShellUseInv, ShellCountInv,
     ShellLoginInv, ShellInShell, ShellQuiet, ShellEarly, ShellOpening, ShellRuns
<1> QED BY <1>1, <1>2, <1>3, <1>4, <1>5, <1>6, <1>7, <1>8, <1>9, <1>10, <1>11, <1>12,
   <1>13, <1>14, <1>15, <1>16, <1>17 DEF SshShell!Next

\* ... what is known of the login and the threads, ...
LEMMA ShellLoginStep == ASSUME ShellInv, [SshShell!Next]_(SshShell!vars) PROVE ShellLoginInv'
<1>1. CASE SshShell!open_connection
  BY <1>1 DEF ShellInv, SshShell!open_connection, SshShell!MainFree, ShellLoginInv,
     SshShell!TypeOK, ShellInShell, ShellQuiet, ShellEarly, ShellOpening, ShellRuns
<1>2. CASE SshShell!Login
  BY <1>2 DEF ShellInv, SshShell!Login, ShellLoginInv, SshShell!TypeOK, ShellInShell,
     ShellQuiet, ShellEarly, ShellOpening, ShellRuns
<1>3. CASE SshShell!Failed
  BY <1>3 DEF ShellInv, SshShell!Failed, SshShell!SignalClosed, SshShell!Closing,
     ShellLoginInv, SshShell!TypeOK, ShellInShell, ShellQuiet, ShellEarly, ShellOpening,
     ShellRuns
<1>4. CASE SshShell!Store
  BY <1>4 DEF ShellInv, SshShell!Store, ShellLoginInv, SshShell!TypeOK, ShellInShell,
     ShellQuiet, ShellEarly, ShellOpening, ShellRuns
<1>5. CASE SshShell!Connect
  BY <1>5 DEF ShellInv, SshShell!Connect, SshShell!Closing, ShellLoginInv, SshShell!TypeOK,
     ShellInShell, ShellQuiet, ShellEarly, ShellOpening, ShellRuns
<1>6. CASE SshShell!Setup
  BY <1>6 DEF ShellInv, SshShell!Setup, ShellLoginInv, SshShell!TypeOK, ShellInShell,
     ShellQuiet, ShellEarly, ShellOpening, ShellRuns
<1>7. CASE SshShell!ChannelCloses
  BY <1>7 DEF ShellInv, SshShell!ChannelCloses, ShellLoginInv, SshShell!TypeOK,
     ShellInShell, ShellQuiet, ShellEarly, ShellOpening, ShellRuns
<1>8. CASE SshShell!ShellEnds
  BY <1>8 DEF ShellInv, SshShell!ShellEnds, ShellLoginInv, SshShell!TypeOK, ShellInShell,
     ShellQuiet, ShellEarly, ShellOpening, ShellRuns
<1>9. CASE SshShell!call_exit_callback
  <2>1. CASE ~s3.freed
    <3>1. s2 = "end"
      BY <1>9, <2>1, ShellCallbackDoes DEF ShellInv, ShellCountInv
    <3> QED BY <1>9, <2>1, <3>1, ShellCallbackDoes DEF ShellInv, ShellLoginInv,
       ShellInShell, ShellQuiet, ShellEarly, ShellOpening, ShellRuns
  <2>2. CASE s3.freed
    BY <1>9, <2>2 DEF SshShell!call_exit_callback, ShellInv, ShellLoginInv, ShellInShell,
       ShellQuiet, ShellEarly, ShellOpening, ShellRuns
  <2> QED BY <2>1, <2>2
<1>10. CASE SshShell!Serve
  BY <1>10 DEF ShellInv, SshShell!Serve, SshShell!MainFree, ShellLoginInv, SshShell!TypeOK,
     ShellInShell, ShellQuiet, ShellEarly, ShellOpening, ShellRuns
<1>11. CASE SshShell!Resize
  BY <1>11 DEF ShellInv, SshShell!Resize, SshShell!MainFree, ShellLoginInv,
     SshShell!TypeOK, ShellInShell, ShellQuiet, ShellEarly, ShellOpening, ShellRuns
<1>12. CASE SshShell!close_connection
  BY <1>12 DEF ShellInv, SshShell!close_connection, SshShell!MainFree, ShellLoginInv,
     SshShell!TypeOK, ShellInShell, ShellQuiet, ShellEarly, ShellOpening, ShellRuns
<1>13. CASE SshShell!Cancel
  BY <1>13 DEF ShellInv, SshShell!Cancel, ShellLoginInv, SshShell!TypeOK, ShellInShell,
     ShellQuiet, ShellEarly, ShellOpening, ShellRuns
<1>14. CASE SshShell!shell_free
  BY <1>14 DEF ShellInv, SshShell!shell_free, ShellLoginInv, SshShell!TypeOK, ShellInShell,
     ShellQuiet, ShellEarly, ShellOpening, ShellRuns
<1>15. CASE SshShell!CancelShell
  BY <1>15 DEF ShellInv, SshShell!CancelShell, ShellLoginInv, SshShell!TypeOK,
     ShellInShell, ShellQuiet, ShellEarly, ShellOpening, ShellRuns
<1>16. CASE SshShell!FreeShell
  BY <1>16 DEF ShellInv, SshShell!FreeShell, SshShell!SignalClosed, ShellLoginInv,
     SshShell!TypeOK, ShellInShell, ShellQuiet, ShellEarly, ShellOpening, ShellRuns
<1>17. CASE UNCHANGED SshShell!vars
  BY <1>17 DEF SshShell!vars, ShellInv, ShellLoginInv, SshShell!TypeOK, ShellInShell,
     ShellQuiet, ShellEarly, ShellOpening, ShellRuns
<1> QED BY <1>1, <1>2, <1>3, <1>4, <1>5, <1>6, <1>7, <1>8, <1>9, <1>10, <1>11, <1>12,
   <1>13, <1>14, <1>15, <1>16, <1>17 DEF SshShell!Next

\* ... of the use of what was freed, ...
LEMMA ShellUseStep == ASSUME ShellInv, [SshShell!Next]_(SshShell!vars) PROVE ShellUseInv'
<1>1. CASE SshShell!open_connection
  <2>1. (s2 = "callback" \/ s5.exit => s8.ended)'
    BY <1>1 DEF ShellInv, SshShell!open_connection, SshShell!MainFree, ShellUseInv,
       SshShell!TypeOK, ShellLoginInv, ShellInShell, ShellQuiet, ShellEarly, ShellOpening,
       ShellRuns
  <2>2. (s3.freed /\ (s4.shell \/ ShellOpening) => s8.ended)'
    BY <1>1 DEF ShellInv, SshShell!open_connection, SshShell!MainFree, ShellUseInv,
       SshShell!TypeOK, ShellLoginInv, ShellInShell, ShellQuiet, ShellEarly, ShellOpening,
       ShellRuns
  <2>3. (s6 = "cancel" /\ ~s4.thread => s8.raced)'
    BY <1>1 DEF ShellInv, SshShell!open_connection, SshShell!MainFree, ShellUseInv,
       SshShell!TypeOK, ShellLoginInv, ShellInShell, ShellQuiet, ShellEarly, ShellOpening,
       ShellRuns
  <2>4. (s6 = "shellcancel" /\ ~s3.thread => s8.ended \/ s8.refused)'
    BY <1>1 DEF ShellInv, SshShell!open_connection, SshShell!MainFree, ShellUseInv,
       SshShell!TypeOK, ShellLoginInv, ShellInShell, ShellQuiet, ShellEarly, ShellOpening,
       ShellRuns
  <2>5. (s9 = "freed" => s8.ended)'
    BY <1>1 DEF ShellInv, SshShell!open_connection, SshShell!MainFree, ShellUseInv,
       SshShell!TypeOK, ShellLoginInv, ShellInShell, ShellQuiet, ShellEarly, ShellOpening,
       ShellRuns
  <2>6. (s9 = "zero" => s8.ended \/ s8.refused \/ s8.raced)'
    BY <1>1 DEF ShellInv, SshShell!open_connection, SshShell!MainFree, ShellUseInv,
       SshShell!TypeOK, ShellLoginInv, ShellInShell, ShellQuiet, ShellEarly, ShellOpening,
       ShellRuns
  <2>7. (s3.locked => s8.kept)'
    BY <1>1 DEF ShellInv, SshShell!open_connection, SshShell!MainFree, ShellUseInv,
       SshShell!TypeOK, ShellLoginInv, ShellInShell, ShellQuiet, ShellEarly, ShellOpening,
       ShellRuns
  <2>8. (s6 = "hung" => s8.kept)'
    BY <1>1 DEF ShellInv, SshShell!open_connection, SshShell!MainFree, ShellUseInv,
       SshShell!TypeOK, ShellLoginInv, ShellInShell, ShellQuiet, ShellEarly, ShellOpening,
       ShellRuns
  <2> QED BY <2>1, <2>2, <2>3, <2>4, <2>5, <2>6, <2>7, <2>8 DEF ShellUseInv
<1>2. CASE SshShell!Login
  <2>1. (s2 = "callback" \/ s5.exit => s8.ended)'
    BY <1>2 DEF ShellInv, SshShell!Login, ShellUseInv, SshShell!TypeOK, ShellLoginInv,
       ShellInShell, ShellQuiet, ShellEarly, ShellOpening, ShellRuns
  <2>2. (s3.freed /\ (s4.shell \/ ShellOpening) => s8.ended)'
    BY <1>2 DEF ShellInv, SshShell!Login, ShellUseInv, SshShell!TypeOK, ShellLoginInv,
       ShellInShell, ShellQuiet, ShellEarly, ShellOpening, ShellRuns
  <2>3. (s6 = "cancel" /\ ~s4.thread => s8.raced)'
    BY <1>2 DEF ShellInv, SshShell!Login, ShellUseInv, SshShell!TypeOK, ShellLoginInv,
       ShellInShell, ShellQuiet, ShellEarly, ShellOpening, ShellRuns
  <2>4. (s6 = "shellcancel" /\ ~s3.thread => s8.ended \/ s8.refused)'
    BY <1>2 DEF ShellInv, SshShell!Login, ShellUseInv, SshShell!TypeOK, ShellLoginInv,
       ShellInShell, ShellQuiet, ShellEarly, ShellOpening, ShellRuns
  <2>5. (s9 = "freed" => s8.ended)'
    BY <1>2 DEF ShellInv, SshShell!Login, ShellUseInv, SshShell!TypeOK, ShellLoginInv,
       ShellInShell, ShellQuiet, ShellEarly, ShellOpening, ShellRuns
  <2>6. (s9 = "zero" => s8.ended \/ s8.refused \/ s8.raced)'
    BY <1>2 DEF ShellInv, SshShell!Login, ShellUseInv, SshShell!TypeOK, ShellLoginInv,
       ShellInShell, ShellQuiet, ShellEarly, ShellOpening, ShellRuns
  <2>7. (s3.locked => s8.kept)'
    BY <1>2 DEF ShellInv, SshShell!Login, ShellUseInv, SshShell!TypeOK, ShellLoginInv,
       ShellInShell, ShellQuiet, ShellEarly, ShellOpening, ShellRuns
  <2>8. (s6 = "hung" => s8.kept)'
    BY <1>2 DEF ShellInv, SshShell!Login, ShellUseInv, SshShell!TypeOK, ShellLoginInv,
       ShellInShell, ShellQuiet, ShellEarly, ShellOpening, ShellRuns
  <2> QED BY <2>1, <2>2, <2>3, <2>4, <2>5, <2>6, <2>7, <2>8 DEF ShellUseInv
<1>3. CASE SshShell!Failed
  BY <1>3 DEF ShellInv, SshShell!Failed, SshShell!SignalClosed, SshShell!Closing,
     ShellUseInv, SshShell!TypeOK, ShellLoginInv, ShellInShell, ShellQuiet, ShellEarly,
     ShellOpening, ShellRuns
<1>4. CASE SshShell!Store
  BY <1>4 DEF ShellInv, SshShell!Store, ShellUseInv, SshShell!TypeOK, ShellLoginInv,
     ShellInShell, ShellQuiet, ShellEarly, ShellOpening, ShellRuns
<1>5. CASE SshShell!Connect
  BY <1>5 DEF ShellInv, SshShell!Connect, SshShell!Closing, ShellUseInv, SshShell!TypeOK,
     ShellLoginInv, ShellInShell, ShellQuiet, ShellEarly, ShellOpening, ShellRuns
<1>6. CASE SshShell!Setup
  BY <1>6 DEF ShellInv, SshShell!Setup, ShellUseInv, SshShell!TypeOK, ShellLoginInv,
     ShellInShell, ShellQuiet, ShellEarly, ShellOpening, ShellRuns
<1>7. CASE SshShell!ChannelCloses
  BY <1>7 DEF ShellInv, SshShell!ChannelCloses, ShellUseInv, SshShell!TypeOK,
     ShellLoginInv, ShellInShell, ShellQuiet, ShellEarly, ShellOpening, ShellRuns
<1>8. CASE SshShell!ShellEnds
  BY <1>8 DEF ShellInv, SshShell!ShellEnds, ShellUseInv, SshShell!TypeOK, ShellLoginInv,
     ShellInShell, ShellQuiet, ShellEarly, ShellOpening, ShellRuns
<1>9. CASE SshShell!call_exit_callback
  BY <1>9 DEF ShellInv, SshShell!call_exit_callback, SshShell!MainFree,
     SshShell!SignalClosed, ShellUseInv, SshShell!TypeOK, ShellLoginInv, ShellInShell,
     ShellQuiet, ShellEarly, ShellOpening, ShellRuns
<1>10. CASE SshShell!Serve
  BY <1>10 DEF ShellInv, SshShell!Serve, SshShell!MainFree, ShellUseInv, SshShell!TypeOK,
     ShellLoginInv, ShellInShell, ShellQuiet, ShellEarly, ShellOpening, ShellRuns
<1>11. CASE SshShell!Resize
  BY <1>11 DEF ShellInv, SshShell!Resize, SshShell!MainFree, ShellUseInv, SshShell!TypeOK,
     ShellLoginInv, ShellInShell, ShellQuiet, ShellEarly, ShellOpening, ShellRuns
<1>12. CASE SshShell!close_connection
  BY <1>12 DEF ShellInv, SshShell!close_connection, SshShell!MainFree, ShellUseInv,
     SshShell!TypeOK, ShellLoginInv, ShellInShell, ShellQuiet, ShellEarly, ShellOpening,
     ShellRuns
<1>13. CASE SshShell!Cancel
  BY <1>13 DEF ShellInv, SshShell!Cancel, ShellUseInv, SshShell!TypeOK, ShellLoginInv,
     ShellInShell, ShellQuiet, ShellEarly, ShellOpening, ShellRuns
<1>14. CASE SshShell!shell_free
  BY <1>14 DEF ShellInv, SshShell!shell_free, ShellUseInv, SshShell!TypeOK, ShellLoginInv,
     ShellInShell, ShellQuiet, ShellEarly, ShellOpening, ShellRuns
<1>15. CASE SshShell!CancelShell
  BY <1>15 DEF ShellInv, SshShell!CancelShell, ShellUseInv, SshShell!TypeOK, ShellLoginInv,
     ShellInShell, ShellQuiet, ShellEarly, ShellOpening, ShellRuns
<1>16. CASE SshShell!FreeShell
  BY <1>16 DEF ShellInv, SshShell!FreeShell, SshShell!SignalClosed, ShellUseInv,
     SshShell!TypeOK, ShellLoginInv, ShellInShell, ShellQuiet, ShellEarly, ShellOpening,
     ShellRuns
<1>17. CASE UNCHANGED SshShell!vars
  BY <1>17 DEF SshShell!vars, ShellInv, ShellUseInv, SshShell!TypeOK, ShellLoginInv,
     ShellInShell, ShellQuiet, ShellEarly, ShellOpening, ShellRuns
<1> QED BY <1>1, <1>2, <1>3, <1>4, <1>5, <1>6, <1>7, <1>8, <1>9, <1>10, <1>11, <1>12,
   <1>13, <1>14, <1>15, <1>16, <1>17 DEF SshShell!Next

\* ... of the ends that were told, ...
LEMMA ShellCountStep == ASSUME ShellInv, [SshShell!Next]_(SshShell!vars) PROVE ShellCountInv'
<1>1. CASE SshShell!open_connection
  BY <1>1 DEF ShellInv, SshShell!open_connection, SshShell!MainFree, ShellCountInv,
     ShellLoginInv, SshShell!TypeOK, ShellPending, ShellUseInv, ShellInShell, ShellQuiet,
     ShellEarly, ShellOpening, ShellRuns
<1>2. CASE SshShell!Login
  <2>1. (s7.closed <=> s7.closes > 0)'
    BY <1>2 DEF ShellInv, SshShell!Login, ShellCountInv, ShellLoginInv, SshShell!TypeOK,
       ShellPending, ShellUseInv, ShellInShell, ShellQuiet, ShellEarly, ShellOpening,
       ShellRuns
  <2>2. (s7.closes <= 2 /\ s5.closed <= s7.closes)'
    BY <1>2 DEF ShellInv, SshShell!Login, ShellCountInv, ShellLoginInv, SshShell!TypeOK,
       ShellPending, ShellUseInv, ShellInShell, ShellQuiet, ShellEarly, ShellOpening,
       ShellRuns
  <2>3. (ShellEarly => s7.closes = 0)'
    BY <1>2 DEF ShellInv, SshShell!Login, ShellCountInv, ShellLoginInv, SshShell!TypeOK,
       ShellPending, ShellUseInv, ShellInShell, ShellQuiet, ShellEarly, ShellOpening,
       ShellRuns
  <2>4. (~ShellQuiet /\ s2 # "none" => s7.closes = 0)'
    BY <1>2 DEF ShellInv, SshShell!Login, ShellCountInv, ShellLoginInv, SshShell!TypeOK,
       ShellPending, ShellUseInv, ShellInShell, ShellQuiet, ShellEarly, ShellOpening,
       ShellRuns
  <2>5. (~ShellQuiet => s7.closes <= 1)'
    BY <1>2 DEF ShellInv, SshShell!Login, ShellCountInv, ShellLoginInv, SshShell!TypeOK,
       ShellPending, ShellUseInv, ShellInShell, ShellQuiet, ShellEarly, ShellOpening,
       ShellRuns
  <2>6. (ShellPending /\ ~s3.freed => s7.closes <= 1)'
    BY <1>2 DEF ShellInv, SshShell!Login, ShellCountInv, ShellLoginInv, SshShell!TypeOK,
       ShellPending, ShellUseInv, ShellInShell, ShellQuiet, ShellEarly, ShellOpening,
       ShellRuns
  <2>7. (s2 = "none" => ~s3.callback /\ ~s5.exit)'
    BY <1>2 DEF ShellInv, SshShell!Login, ShellCountInv, ShellLoginInv, SshShell!TypeOK,
       ShellPending, ShellUseInv, ShellInShell, ShellQuiet, ShellEarly, ShellOpening,
       ShellRuns
  <2>8. (s5.exit => s2 = "end")'
    BY <1>2 DEF ShellInv, SshShell!Login, ShellCountInv, ShellLoginInv, SshShell!TypeOK,
       ShellPending, ShellUseInv, ShellInShell, ShellQuiet, ShellEarly, ShellOpening,
       ShellRuns
  <2>9. (s6 \in {"join", "free"} /\ ~s4.shell /\ ShellPending => s8.orphan)'
    BY <1>2 DEF ShellInv, SshShell!Login, ShellCountInv, ShellLoginInv, SshShell!TypeOK,
       ShellPending, ShellUseInv, ShellInShell, ShellQuiet, ShellEarly, ShellOpening,
       ShellRuns
  <2>10. (ShellInShell => ~s3.callback)'
    BY <1>2 DEF ShellInv, SshShell!Login, ShellCountInv, ShellLoginInv, SshShell!TypeOK,
       ShellPending, ShellUseInv, ShellInShell, ShellQuiet, ShellEarly, ShellOpening,
       ShellRuns
  <2>11. (s5.exit => s3.callback \/ s7.closed \/ ShellInShell)'
    BY <1>2 DEF ShellInv, SshShell!Login, ShellCountInv, ShellLoginInv, SshShell!TypeOK,
       ShellPending, ShellUseInv, ShellInShell, ShellQuiet, ShellEarly, ShellOpening,
       ShellRuns
  <2> QED BY <2>1, <2>2, <2>3, <2>4, <2>5, <2>6, <2>7, <2>8, <2>9, <2>10,
     <2>11 DEF ShellCountInv
<1>3. CASE SshShell!Failed
  <2>1. CASE s1 = "tell"
    BY <1>3, <2>1, ShellFailedDoes, ShellTyped DEF ShellInv, ShellCountInv, ShellLoginInv,
       ShellPending, ShellInShell, ShellQuiet, ShellEarly, ShellOpening, ShellRuns
  <2>2. CASE s1 # "tell"
    <3>1. /\ s1 = "failed" /\ s1' = "tell" /\ UNCHANGED <<s7, s5, s2, s4, s6, s8>>
          /\ s3'.callback = s3.callback
      BY <1>3, <2>2, ShellTyped DEF SshShell!Failed, ShellType
    <3> QED BY <3>1 DEF ShellInv, ShellCountInv, ShellLoginInv, ShellPending, ShellInShell,
       ShellQuiet, ShellEarly, ShellOpening, ShellRuns
  <2> QED BY <2>1, <2>2
<1>4. CASE SshShell!Store
  BY <1>4 DEF ShellInv, SshShell!Store, ShellCountInv, ShellLoginInv, SshShell!TypeOK,
     ShellPending, ShellUseInv, ShellInShell, ShellQuiet, ShellEarly, ShellOpening,
     ShellRuns
<1>5. CASE SshShell!Connect
  BY <1>5 DEF ShellInv, SshShell!Connect, SshShell!Closing, ShellCountInv, ShellLoginInv,
     SshShell!TypeOK, ShellPending, ShellUseInv, ShellInShell, ShellQuiet, ShellEarly,
     ShellOpening, ShellRuns
<1>6. CASE SshShell!Setup
  BY <1>6 DEF ShellInv, SshShell!Setup, ShellCountInv, ShellLoginInv, SshShell!TypeOK,
     ShellPending, ShellUseInv, ShellInShell, ShellQuiet, ShellEarly, ShellOpening,
     ShellRuns
<1>7. CASE SshShell!ChannelCloses
  BY <1>7 DEF ShellInv, SshShell!ChannelCloses, ShellCountInv, ShellLoginInv,
     SshShell!TypeOK, ShellPending, ShellUseInv, ShellInShell, ShellQuiet, ShellEarly,
     ShellOpening, ShellRuns
<1>8. CASE SshShell!ShellEnds
  <2>1. (s7.closed <=> s7.closes > 0)'
    BY <1>8 DEF ShellInv, SshShell!ShellEnds, ShellCountInv, ShellLoginInv,
       SshShell!TypeOK, ShellPending, ShellUseInv, ShellInShell, ShellQuiet, ShellEarly,
       ShellOpening, ShellRuns
  <2>2. (s7.closes <= 2 /\ s5.closed <= s7.closes)'
    BY <1>8 DEF ShellInv, SshShell!ShellEnds, ShellCountInv, ShellLoginInv,
       SshShell!TypeOK, ShellPending, ShellUseInv, ShellInShell, ShellQuiet, ShellEarly,
       ShellOpening, ShellRuns
  <2>3. (ShellEarly => s7.closes = 0)'
    BY <1>8 DEF ShellInv, SshShell!ShellEnds, ShellCountInv, ShellLoginInv,
       SshShell!TypeOK, ShellPending, ShellUseInv, ShellInShell, ShellQuiet, ShellEarly,
       ShellOpening, ShellRuns
  <2>4. (~ShellQuiet /\ s2 # "none" => s7.closes = 0)'
    BY <1>8 DEF ShellInv, SshShell!ShellEnds, ShellCountInv, ShellLoginInv,
       SshShell!TypeOK, ShellPending, ShellUseInv, ShellInShell, ShellQuiet, ShellEarly,
       ShellOpening, ShellRuns
  <2>5. (~ShellQuiet => s7.closes <= 1)'
    BY <1>8 DEF ShellInv, SshShell!ShellEnds, ShellCountInv, ShellLoginInv,
       SshShell!TypeOK, ShellPending, ShellUseInv, ShellInShell, ShellQuiet, ShellEarly,
       ShellOpening, ShellRuns
  <2>6. (ShellPending /\ ~s3.freed => s7.closes <= 1)'
    BY <1>8 DEF ShellInv, SshShell!ShellEnds, ShellCountInv, ShellLoginInv,
       SshShell!TypeOK, ShellPending, ShellUseInv, ShellInShell, ShellQuiet, ShellEarly,
       ShellOpening, ShellRuns
  <2>7. (s2 = "none" => ~s3.callback /\ ~s5.exit)'
    BY <1>8 DEF ShellInv, SshShell!ShellEnds, ShellCountInv, ShellLoginInv,
       SshShell!TypeOK, ShellPending, ShellUseInv, ShellInShell, ShellQuiet, ShellEarly,
       ShellOpening, ShellRuns
  <2>8. (s5.exit => s2 = "end")'
    BY <1>8 DEF ShellInv, SshShell!ShellEnds, ShellCountInv, ShellLoginInv,
       SshShell!TypeOK, ShellPending, ShellUseInv, ShellInShell, ShellQuiet, ShellEarly,
       ShellOpening, ShellRuns
  <2>9. (s6 \in {"join", "free"} /\ ~s4.shell /\ ShellPending => s8.orphan)'
    BY <1>8 DEF ShellInv, SshShell!ShellEnds, ShellCountInv, ShellLoginInv,
       SshShell!TypeOK, ShellPending, ShellUseInv, ShellInShell, ShellQuiet, ShellEarly,
       ShellOpening, ShellRuns
  <2>10. (ShellInShell => ~s3.callback)'
    BY <1>8 DEF ShellInv, SshShell!ShellEnds, ShellCountInv, ShellLoginInv,
       SshShell!TypeOK, ShellPending, ShellUseInv, ShellInShell, ShellQuiet, ShellEarly,
       ShellOpening, ShellRuns
  <2>11. (s5.exit => s3.callback \/ s7.closed \/ ShellInShell)'
    BY <1>8 DEF ShellInv, SshShell!ShellEnds, ShellCountInv, ShellLoginInv,
       SshShell!TypeOK, ShellPending, ShellUseInv, ShellInShell, ShellQuiet, ShellEarly,
       ShellOpening, ShellRuns
  <2> QED BY <2>1, <2>2, <2>3, <2>4, <2>5, <2>6, <2>7, <2>8, <2>9, <2>10,
     <2>11 DEF ShellCountInv
<1>9. CASE SshShell!call_exit_callback
  <2>1. CASE ~s3.freed
    <3>1. s7.closes <= 1 /\ s2 = "end"
      BY <1>9, <2>1, ShellCallbackDoes DEF ShellInv, ShellCountInv, ShellPending
    <3> QED BY <1>9, <2>1, <3>1, ShellCallbackDoes, ShellTyped DEF ShellInv, ShellCountInv,
       ShellLoginInv, ShellPending, ShellInShell, ShellQuiet, ShellEarly, ShellOpening,
       ShellRuns
  <2>2. CASE s3.freed
    BY <1>9, <2>2 DEF SshShell!call_exit_callback, ShellInv, ShellCountInv, ShellPending,
       ShellInShell, ShellQuiet, ShellEarly, ShellOpening, ShellRuns
  <2> QED BY <2>1, <2>2
<1>10. CASE SshShell!Serve
  BY <1>10 DEF ShellInv, SshShell!Serve, SshShell!MainFree, ShellCountInv, ShellLoginInv,
     SshShell!TypeOK, ShellPending, ShellUseInv, ShellInShell, ShellQuiet, ShellEarly,
     ShellOpening, ShellRuns
<1>11. CASE SshShell!Resize
  BY <1>11 DEF ShellInv, SshShell!Resize, SshShell!MainFree, ShellCountInv, ShellLoginInv,
     SshShell!TypeOK, ShellPending, ShellUseInv, ShellInShell, ShellQuiet, ShellEarly,
     ShellOpening, ShellRuns
<1>12. CASE SshShell!close_connection
  <2>1. (s7.closed <=> s7.closes > 0)'
    BY <1>12 DEF ShellInv, SshShell!close_connection, SshShell!MainFree, ShellCountInv,
       ShellLoginInv, SshShell!TypeOK, ShellPending, ShellUseInv, ShellInShell, ShellQuiet,
       ShellEarly, ShellOpening, ShellRuns
  <2>2. (s7.closes <= 2 /\ s5.closed <= s7.closes)'
    BY <1>12 DEF ShellInv, SshShell!close_connection, SshShell!MainFree, ShellCountInv,
       ShellLoginInv, SshShell!TypeOK, ShellPending, ShellUseInv, ShellInShell, ShellQuiet,
       ShellEarly, ShellOpening, ShellRuns
  <2>3. (ShellEarly => s7.closes = 0)'
    BY <1>12 DEF ShellInv, SshShell!close_connection, SshShell!MainFree, ShellCountInv,
       ShellLoginInv, SshShell!TypeOK, ShellPending, ShellUseInv, ShellInShell, ShellQuiet,
       ShellEarly, ShellOpening, ShellRuns
  <2>4. (~ShellQuiet /\ s2 # "none" => s7.closes = 0)'
    BY <1>12 DEF ShellInv, SshShell!close_connection, SshShell!MainFree, ShellCountInv,
       ShellLoginInv, SshShell!TypeOK, ShellPending, ShellUseInv, ShellInShell, ShellQuiet,
       ShellEarly, ShellOpening, ShellRuns
  <2>5. (~ShellQuiet => s7.closes <= 1)'
    BY <1>12 DEF ShellInv, SshShell!close_connection, SshShell!MainFree, ShellCountInv,
       ShellLoginInv, SshShell!TypeOK, ShellPending, ShellUseInv, ShellInShell, ShellQuiet,
       ShellEarly, ShellOpening, ShellRuns
  <2>6. (ShellPending /\ ~s3.freed => s7.closes <= 1)'
    BY <1>12 DEF ShellInv, SshShell!close_connection, SshShell!MainFree, ShellCountInv,
       ShellLoginInv, SshShell!TypeOK, ShellPending, ShellUseInv, ShellInShell, ShellQuiet,
       ShellEarly, ShellOpening, ShellRuns
  <2>7. (s2 = "none" => ~s3.callback /\ ~s5.exit)'
    BY <1>12 DEF ShellInv, SshShell!close_connection, SshShell!MainFree, ShellCountInv,
       ShellLoginInv, SshShell!TypeOK, ShellPending, ShellUseInv, ShellInShell, ShellQuiet,
       ShellEarly, ShellOpening, ShellRuns
  <2>8. (s5.exit => s2 = "end")'
    BY <1>12 DEF ShellInv, SshShell!close_connection, SshShell!MainFree, ShellCountInv,
       ShellLoginInv, SshShell!TypeOK, ShellPending, ShellUseInv, ShellInShell, ShellQuiet,
       ShellEarly, ShellOpening, ShellRuns
  <2>9. (s6 \in {"join", "free"} /\ ~s4.shell /\ ShellPending => s8.orphan)'
    BY <1>12 DEF ShellInv, SshShell!close_connection, SshShell!MainFree, ShellCountInv,
       ShellLoginInv, SshShell!TypeOK, ShellPending, ShellUseInv, ShellInShell, ShellQuiet,
       ShellEarly, ShellOpening, ShellRuns
  <2>10. (ShellInShell => ~s3.callback)'
    BY <1>12 DEF ShellInv, SshShell!close_connection, SshShell!MainFree, ShellCountInv,
       ShellLoginInv, SshShell!TypeOK, ShellPending, ShellUseInv, ShellInShell, ShellQuiet,
       ShellEarly, ShellOpening, ShellRuns
  <2>11. (s5.exit => s3.callback \/ s7.closed \/ ShellInShell)'
    BY <1>12 DEF ShellInv, SshShell!close_connection, SshShell!MainFree, ShellCountInv,
       ShellLoginInv, SshShell!TypeOK, ShellPending, ShellUseInv, ShellInShell, ShellQuiet,
       ShellEarly, ShellOpening, ShellRuns
  <2> QED BY <2>1, <2>2, <2>3, <2>4, <2>5, <2>6, <2>7, <2>8, <2>9, <2>10,
     <2>11 DEF ShellCountInv
<1>13. CASE SshShell!Cancel
  <2>1. (s7.closed <=> s7.closes > 0)'
    BY <1>13 DEF ShellInv, SshShell!Cancel, ShellCountInv, ShellLoginInv, SshShell!TypeOK,
       ShellPending, ShellUseInv, ShellInShell, ShellQuiet, ShellEarly, ShellOpening,
       ShellRuns
  <2>2. (s7.closes <= 2 /\ s5.closed <= s7.closes)'
    BY <1>13 DEF ShellInv, SshShell!Cancel, ShellCountInv, ShellLoginInv, SshShell!TypeOK,
       ShellPending, ShellUseInv, ShellInShell, ShellQuiet, ShellEarly, ShellOpening,
       ShellRuns
  <2>3. (ShellEarly => s7.closes = 0)'
    BY <1>13 DEF ShellInv, SshShell!Cancel, ShellCountInv, ShellLoginInv, SshShell!TypeOK,
       ShellPending, ShellUseInv, ShellInShell, ShellQuiet, ShellEarly, ShellOpening,
       ShellRuns
  <2>4. (~ShellQuiet /\ s2 # "none" => s7.closes = 0)'
    BY <1>13 DEF ShellInv, SshShell!Cancel, ShellCountInv, ShellLoginInv, SshShell!TypeOK,
       ShellPending, ShellUseInv, ShellInShell, ShellQuiet, ShellEarly, ShellOpening,
       ShellRuns
  <2>5. (~ShellQuiet => s7.closes <= 1)'
    BY <1>13 DEF ShellInv, SshShell!Cancel, ShellCountInv, ShellLoginInv, SshShell!TypeOK,
       ShellPending, ShellUseInv, ShellInShell, ShellQuiet, ShellEarly, ShellOpening,
       ShellRuns
  <2>6. (ShellPending /\ ~s3.freed => s7.closes <= 1)'
    BY <1>13 DEF ShellInv, SshShell!Cancel, ShellCountInv, ShellLoginInv, SshShell!TypeOK,
       ShellPending, ShellUseInv, ShellInShell, ShellQuiet, ShellEarly, ShellOpening,
       ShellRuns
  <2>7. (s2 = "none" => ~s3.callback /\ ~s5.exit)'
    BY <1>13 DEF ShellInv, SshShell!Cancel, ShellCountInv, ShellLoginInv, SshShell!TypeOK,
       ShellPending, ShellUseInv, ShellInShell, ShellQuiet, ShellEarly, ShellOpening,
       ShellRuns
  <2>8. (s5.exit => s2 = "end")'
    BY <1>13 DEF ShellInv, SshShell!Cancel, ShellCountInv, ShellLoginInv, SshShell!TypeOK,
       ShellPending, ShellUseInv, ShellInShell, ShellQuiet, ShellEarly, ShellOpening,
       ShellRuns
  <2>9. (s6 \in {"join", "free"} /\ ~s4.shell /\ ShellPending => s8.orphan)'
    BY <1>13 DEF ShellInv, SshShell!Cancel, ShellCountInv, ShellLoginInv, SshShell!TypeOK,
       ShellPending, ShellUseInv, ShellInShell, ShellQuiet, ShellEarly, ShellOpening,
       ShellRuns
  <2>10. (ShellInShell => ~s3.callback)'
    BY <1>13 DEF ShellInv, SshShell!Cancel, ShellCountInv, ShellLoginInv, SshShell!TypeOK,
       ShellPending, ShellUseInv, ShellInShell, ShellQuiet, ShellEarly, ShellOpening,
       ShellRuns
  <2>11. (s5.exit => s3.callback \/ s7.closed \/ ShellInShell)'
    BY <1>13 DEF ShellInv, SshShell!Cancel, ShellCountInv, ShellLoginInv, SshShell!TypeOK,
       ShellPending, ShellUseInv, ShellInShell, ShellQuiet, ShellEarly, ShellOpening,
       ShellRuns
  <2> QED BY <2>1, <2>2, <2>3, <2>4, <2>5, <2>6, <2>7, <2>8, <2>9, <2>10,
     <2>11 DEF ShellCountInv
<1>14. CASE SshShell!shell_free
  <2>1. (s7.closed <=> s7.closes > 0)'
    BY <1>14 DEF ShellInv, SshShell!shell_free, ShellCountInv, ShellLoginInv,
       SshShell!TypeOK, ShellPending, ShellUseInv, ShellInShell, ShellQuiet, ShellEarly,
       ShellOpening, ShellRuns
  <2>2. (s7.closes <= 2 /\ s5.closed <= s7.closes)'
    BY <1>14 DEF ShellInv, SshShell!shell_free, ShellCountInv, ShellLoginInv,
       SshShell!TypeOK, ShellPending, ShellUseInv, ShellInShell, ShellQuiet, ShellEarly,
       ShellOpening, ShellRuns
  <2>3. (ShellEarly => s7.closes = 0)'
    BY <1>14 DEF ShellInv, SshShell!shell_free, ShellCountInv, ShellLoginInv,
       SshShell!TypeOK, ShellPending, ShellUseInv, ShellInShell, ShellQuiet, ShellEarly,
       ShellOpening, ShellRuns
  <2>4. (~ShellQuiet /\ s2 # "none" => s7.closes = 0)'
    BY <1>14 DEF ShellInv, SshShell!shell_free, ShellCountInv, ShellLoginInv,
       SshShell!TypeOK, ShellPending, ShellUseInv, ShellInShell, ShellQuiet, ShellEarly,
       ShellOpening, ShellRuns
  <2>5. (~ShellQuiet => s7.closes <= 1)'
    BY <1>14 DEF ShellInv, SshShell!shell_free, ShellCountInv, ShellLoginInv,
       SshShell!TypeOK, ShellPending, ShellUseInv, ShellInShell, ShellQuiet, ShellEarly,
       ShellOpening, ShellRuns
  <2>6. (ShellPending /\ ~s3.freed => s7.closes <= 1)'
    BY <1>14 DEF ShellInv, SshShell!shell_free, ShellCountInv, ShellLoginInv,
       SshShell!TypeOK, ShellPending, ShellUseInv, ShellInShell, ShellQuiet, ShellEarly,
       ShellOpening, ShellRuns
  <2>7. (s2 = "none" => ~s3.callback /\ ~s5.exit)'
    BY <1>14 DEF ShellInv, SshShell!shell_free, ShellCountInv, ShellLoginInv,
       SshShell!TypeOK, ShellPending, ShellUseInv, ShellInShell, ShellQuiet, ShellEarly,
       ShellOpening, ShellRuns
  <2>8. (s5.exit => s2 = "end")'
    BY <1>14 DEF ShellInv, SshShell!shell_free, ShellCountInv, ShellLoginInv,
       SshShell!TypeOK, ShellPending, ShellUseInv, ShellInShell, ShellQuiet, ShellEarly,
       ShellOpening, ShellRuns
  <2>9. (s6 \in {"join", "free"} /\ ~s4.shell /\ ShellPending => s8.orphan)'
    BY <1>14 DEF ShellInv, SshShell!shell_free, ShellCountInv, ShellLoginInv,
       SshShell!TypeOK, ShellPending, ShellUseInv, ShellInShell, ShellQuiet, ShellEarly,
       ShellOpening, ShellRuns
  <2>10. (ShellInShell => ~s3.callback)'
    BY <1>14 DEF ShellInv, SshShell!shell_free, ShellCountInv, ShellLoginInv,
       SshShell!TypeOK, ShellPending, ShellUseInv, ShellInShell, ShellQuiet, ShellEarly,
       ShellOpening, ShellRuns
  <2>11. (s5.exit => s3.callback \/ s7.closed \/ ShellInShell)'
    BY <1>14 DEF ShellInv, SshShell!shell_free, ShellCountInv, ShellLoginInv,
       SshShell!TypeOK, ShellPending, ShellUseInv, ShellInShell, ShellQuiet, ShellEarly,
       ShellOpening, ShellRuns
  <2> QED BY <2>1, <2>2, <2>3, <2>4, <2>5, <2>6, <2>7, <2>8, <2>9, <2>10,
     <2>11 DEF ShellCountInv
<1>15. CASE SshShell!CancelShell
  <2>1. (s7.closed <=> s7.closes > 0)'
    BY <1>15 DEF ShellInv, SshShell!CancelShell, ShellCountInv, ShellLoginInv,
       SshShell!TypeOK, ShellPending, ShellUseInv, ShellInShell, ShellQuiet, ShellEarly,
       ShellOpening, ShellRuns
  <2>2. (s7.closes <= 2 /\ s5.closed <= s7.closes)'
    BY <1>15 DEF ShellInv, SshShell!CancelShell, ShellCountInv, ShellLoginInv,
       SshShell!TypeOK, ShellPending, ShellUseInv, ShellInShell, ShellQuiet, ShellEarly,
       ShellOpening, ShellRuns
  <2>3. (ShellEarly => s7.closes = 0)'
    BY <1>15 DEF ShellInv, SshShell!CancelShell, ShellCountInv, ShellLoginInv,
       SshShell!TypeOK, ShellPending, ShellUseInv, ShellInShell, ShellQuiet, ShellEarly,
       ShellOpening, ShellRuns
  <2>4. (~ShellQuiet /\ s2 # "none" => s7.closes = 0)'
    BY <1>15 DEF ShellInv, SshShell!CancelShell, ShellCountInv, ShellLoginInv,
       SshShell!TypeOK, ShellPending, ShellUseInv, ShellInShell, ShellQuiet, ShellEarly,
       ShellOpening, ShellRuns
  <2>5. (~ShellQuiet => s7.closes <= 1)'
    BY <1>15 DEF ShellInv, SshShell!CancelShell, ShellCountInv, ShellLoginInv,
       SshShell!TypeOK, ShellPending, ShellUseInv, ShellInShell, ShellQuiet, ShellEarly,
       ShellOpening, ShellRuns
  <2>6. (ShellPending /\ ~s3.freed => s7.closes <= 1)'
    BY <1>15 DEF ShellInv, SshShell!CancelShell, ShellCountInv, ShellLoginInv,
       SshShell!TypeOK, ShellPending, ShellUseInv, ShellInShell, ShellQuiet, ShellEarly,
       ShellOpening, ShellRuns
  <2>7. (s2 = "none" => ~s3.callback /\ ~s5.exit)'
    BY <1>15 DEF ShellInv, SshShell!CancelShell, ShellCountInv, ShellLoginInv,
       SshShell!TypeOK, ShellPending, ShellUseInv, ShellInShell, ShellQuiet, ShellEarly,
       ShellOpening, ShellRuns
  <2>8. (s5.exit => s2 = "end")'
    BY <1>15 DEF ShellInv, SshShell!CancelShell, ShellCountInv, ShellLoginInv,
       SshShell!TypeOK, ShellPending, ShellUseInv, ShellInShell, ShellQuiet, ShellEarly,
       ShellOpening, ShellRuns
  <2>9. (s6 \in {"join", "free"} /\ ~s4.shell /\ ShellPending => s8.orphan)'
    BY <1>15 DEF ShellInv, SshShell!CancelShell, ShellCountInv, ShellLoginInv,
       SshShell!TypeOK, ShellPending, ShellUseInv, ShellInShell, ShellQuiet, ShellEarly,
       ShellOpening, ShellRuns
  <2>10. (ShellInShell => ~s3.callback)'
    BY <1>15 DEF ShellInv, SshShell!CancelShell, ShellCountInv, ShellLoginInv,
       SshShell!TypeOK, ShellPending, ShellUseInv, ShellInShell, ShellQuiet, ShellEarly,
       ShellOpening, ShellRuns
  <2>11. (s5.exit => s3.callback \/ s7.closed \/ ShellInShell)'
    BY <1>15 DEF ShellInv, SshShell!CancelShell, ShellCountInv, ShellLoginInv,
       SshShell!TypeOK, ShellPending, ShellUseInv, ShellInShell, ShellQuiet, ShellEarly,
       ShellOpening, ShellRuns
  <2> QED BY <2>1, <2>2, <2>3, <2>4, <2>5, <2>6, <2>7, <2>8, <2>9, <2>10,
     <2>11 DEF ShellCountInv
<1>16. CASE SshShell!FreeShell
  <2>1. s7.closes <= 1 /\ (s2 # "none" => s7.closes = 0) /\ s7.closes \in Nat
        /\ s5.closed \in Nat
    BY <1>16, ShellFreeDoes, ShellTyped DEF ShellInv, ShellCountInv, ShellQuiet
  <2> QED BY <1>16, <2>1, ShellFreeDoes DEF ShellInv, ShellCountInv, ShellLoginInv,
     ShellPending, ShellInShell, ShellQuiet, ShellEarly, ShellOpening, ShellRuns
<1>17. CASE UNCHANGED SshShell!vars
  BY <1>17 DEF SshShell!vars, ShellInv, ShellCountInv, ShellLoginInv, SshShell!TypeOK,
     ShellPending, ShellUseInv, ShellInShell, ShellQuiet, ShellEarly, ShellOpening,
     ShellRuns
<1> QED BY <1>1, <1>2, <1>3, <1>4, <1>5, <1>6, <1>7, <1>8, <1>9, <1>10, <1>11, <1>12,
   <1>13, <1>14, <1>15, <1>16, <1>17 DEF SshShell!Next

\* ... that there is one unless two raced, ...
LEMMA ShellOnceStep == ASSUME ShellInv, [SshShell!Next]_(SshShell!vars) PROVE ShellOnceInv'
<1>1. CASE SshShell!open_connection
  BY <1>1 DEF ShellInv, SshShell!open_connection, SshShell!MainFree, ShellOnceInv,
     ShellCountInv, ShellLoginInv, SshShell!TypeOK, ShellPending, ShellInShell, ShellQuiet,
     ShellEarly, ShellOpening, ShellRuns
<1>2. CASE SshShell!Login
  <2>1. (s7.closes > 0 /\ ~s8.orphan /\ ~s8.raced => s7.closes = 1 /\ ShellQuiet
        /\ (ShellPending => s3.freed))'
    BY <1>2 DEF ShellInv, SshShell!Login, ShellOnceInv, ShellCountInv, ShellLoginInv,
       SshShell!TypeOK, ShellPending, ShellInShell, ShellQuiet, ShellEarly, ShellOpening,
       ShellRuns
  <2> QED BY <2>1 DEF ShellOnceInv
<1>3. CASE SshShell!Failed
  <2>1. CASE s1 = "tell"
    <3>1. ~SshShell!Closing => ShellQuiet
      BY <2>1 DEF ShellInv, SshShell!TypeOK, ShellLoginInv, SshShell!Closing, ShellQuiet,
         ShellInShell
    <3>2. s7.closes = 0 /\ ~s5.exit /\ s2 = "none"
      BY <2>1 DEF ShellInv, ShellLoginInv, ShellCountInv, ShellEarly
    <3>3. s7'.closes = 1 /\ ~s5'.exit /\ s2' = "none" /\ (ShellQuiet <=> ShellQuiet')
      BY <1>3, <2>1, <3>2, ShellFailedDoes DEF ShellQuiet
    <3> QED BY <1>3, <2>1, <3>1, <3>3, ShellFailedDoes DEF ShellOnceInv, ShellPending,
       ShellRuns
  <2>2. CASE s1 # "tell"
    BY <1>3, <2>2 DEF SshShell!Failed, ShellInv, ShellOnceInv, ShellCountInv,
       ShellLoginInv, ShellEarly, ShellPending
  <2> QED BY <2>1, <2>2
<1>4. CASE SshShell!Store
  BY <1>4 DEF ShellInv, SshShell!Store, ShellOnceInv, ShellCountInv, ShellLoginInv,
     SshShell!TypeOK, ShellPending, ShellInShell, ShellQuiet, ShellEarly, ShellOpening,
     ShellRuns
<1>5. CASE SshShell!Connect
  BY <1>5 DEF ShellInv, SshShell!Connect, SshShell!Closing, ShellOnceInv, ShellCountInv,
     ShellLoginInv, SshShell!TypeOK, ShellPending, ShellInShell, ShellQuiet, ShellEarly,
     ShellOpening, ShellRuns
<1>6. CASE SshShell!Setup
  BY <1>6 DEF ShellInv, SshShell!Setup, ShellOnceInv, ShellCountInv, ShellLoginInv,
     SshShell!TypeOK, ShellPending, ShellInShell, ShellQuiet, ShellEarly, ShellOpening,
     ShellRuns
<1>7. CASE SshShell!ChannelCloses
  BY <1>7 DEF ShellInv, SshShell!ChannelCloses, ShellOnceInv, ShellCountInv, ShellLoginInv,
     SshShell!TypeOK, ShellPending, ShellInShell, ShellQuiet, ShellEarly, ShellOpening,
     ShellRuns
<1>8. CASE SshShell!ShellEnds
  <2>1. (s7.closes > 0 /\ ~s8.orphan /\ ~s8.raced => s7.closes = 1 /\ ShellQuiet
        /\ (ShellPending => s3.freed))'
    BY <1>8 DEF ShellInv, SshShell!ShellEnds, ShellOnceInv, ShellCountInv, ShellLoginInv,
       SshShell!TypeOK, ShellPending, ShellInShell, ShellQuiet, ShellEarly, ShellOpening,
       ShellRuns
  <2> QED BY <2>1 DEF ShellOnceInv
<1>9. CASE SshShell!call_exit_callback
  <2>1. CASE ~s3.freed
    <3>1. s7.closes > 0 => s8.orphan \/ s8.raced
      BY <1>9, <2>1, ShellCallbackDoes DEF ShellInv, ShellOnceInv, ShellPending
    <3> QED BY <1>9, <2>1, <3>1, ShellCallbackDoes, ShellTyped DEF ShellOnceInv,
       ShellPending, ShellQuiet, ShellRuns
  <2>2. CASE s3.freed
    BY <1>9, <2>2 DEF SshShell!call_exit_callback, ShellInv, ShellOnceInv, ShellPending,
       ShellInShell, ShellQuiet, ShellEarly, ShellOpening, ShellRuns
  <2> QED BY <2>1, <2>2
<1>10. CASE SshShell!Serve
  BY <1>10 DEF ShellInv, SshShell!Serve, SshShell!MainFree, ShellOnceInv, ShellCountInv,
     ShellLoginInv, SshShell!TypeOK, ShellPending, ShellInShell, ShellQuiet, ShellEarly,
     ShellOpening, ShellRuns
<1>11. CASE SshShell!Resize
  BY <1>11 DEF ShellInv, SshShell!Resize, SshShell!MainFree, ShellOnceInv, ShellCountInv,
     ShellLoginInv, SshShell!TypeOK, ShellPending, ShellInShell, ShellQuiet, ShellEarly,
     ShellOpening, ShellRuns
<1>12. CASE SshShell!close_connection
  BY <1>12 DEF ShellInv, SshShell!close_connection, SshShell!MainFree, ShellOnceInv,
     ShellCountInv, ShellLoginInv, SshShell!TypeOK, ShellPending, ShellInShell, ShellQuiet,
     ShellEarly, ShellOpening, ShellRuns
<1>13. CASE SshShell!Cancel
  BY <1>13 DEF ShellInv, SshShell!Cancel, ShellOnceInv, ShellCountInv, ShellLoginInv,
     SshShell!TypeOK, ShellPending, ShellInShell, ShellQuiet, ShellEarly, ShellOpening,
     ShellRuns
<1>14. CASE SshShell!shell_free
  BY <1>14 DEF ShellInv, SshShell!shell_free, ShellOnceInv, ShellCountInv, ShellLoginInv,
     SshShell!TypeOK, ShellPending, ShellInShell, ShellQuiet, ShellEarly, ShellOpening,
     ShellRuns
<1>15. CASE SshShell!CancelShell
  <2>1. (s7.closes > 0 /\ ~s8.orphan /\ ~s8.raced => s7.closes = 1 /\ ShellQuiet
        /\ (ShellPending => s3.freed))'
    BY <1>15 DEF ShellInv, SshShell!CancelShell, ShellOnceInv, ShellCountInv,
       ShellLoginInv, SshShell!TypeOK, ShellPending, ShellInShell, ShellQuiet, ShellEarly,
       ShellOpening, ShellRuns
  <2> QED BY <2>1 DEF ShellOnceInv
<1>16. CASE SshShell!FreeShell
  <2>1. ~s8.orphan /\ ~s8.raced => s7.closes = 0
    BY <1>16, ShellFreeDoes, ShellTyped DEF ShellInv, ShellOnceInv, ShellQuiet
  <2>2. s6 = "free" => s8.orphan \/ ~ShellPending \/ s4.shell
    BY DEF ShellInv, ShellCountInv
  <2> QED BY <1>16, <2>1, <2>2, ShellFreeDoes, ShellTyped DEF ShellOnceInv, ShellPending,
     ShellQuiet, ShellRuns
<1>17. CASE UNCHANGED SshShell!vars
  BY <1>17 DEF SshShell!vars, ShellInv, ShellOnceInv, ShellCountInv, ShellLoginInv,
     SshShell!TypeOK, ShellPending, ShellInShell, ShellQuiet, ShellEarly, ShellOpening,
     ShellRuns
<1> QED BY <1>1, <1>2, <1>3, <1>4, <1>5, <1>6, <1>7, <1>8, <1>9, <1>10, <1>11, <1>12,
   <1>13, <1>14, <1>15, <1>16, <1>17 DEF SshShell!Next

\* ... and that none is missing.
LEMMA ShellToldStep == ASSUME ShellInv, [SshShell!Next]_(SshShell!vars) PROVE ShellToldInv'
<1>1. CASE SshShell!open_connection
  BY <1>1 DEF ShellInv, SshShell!open_connection, SshShell!MainFree, ShellToldInv,
     ShellLoginInv, SshShell!TypeOK, ShellCountInv, ShellInShell, ShellQuiet, ShellEarly,
     ShellOpening, ShellRuns
<1>2. CASE SshShell!Login
  BY <1>2 DEF ShellInv, SshShell!Login, ShellToldInv, ShellLoginInv, SshShell!TypeOK,
     ShellCountInv, ShellInShell, ShellQuiet, ShellEarly, ShellOpening, ShellRuns
<1>3. CASE SshShell!Failed
  BY <1>3 DEF ShellInv, SshShell!Failed, SshShell!SignalClosed, SshShell!Closing,
     ShellToldInv, ShellLoginInv, SshShell!TypeOK, ShellCountInv, ShellInShell, ShellQuiet,
     ShellEarly, ShellOpening, ShellRuns
<1>4. CASE SshShell!Store
  BY <1>4 DEF ShellInv, SshShell!Store, ShellToldInv, ShellLoginInv, SshShell!TypeOK,
     ShellCountInv, ShellInShell, ShellQuiet, ShellEarly, ShellOpening, ShellRuns
<1>5. CASE SshShell!Connect
  BY <1>5 DEF ShellInv, SshShell!Connect, SshShell!Closing, ShellToldInv, ShellLoginInv,
     SshShell!TypeOK, ShellCountInv, ShellInShell, ShellQuiet, ShellEarly, ShellOpening,
     ShellRuns
<1>6. CASE SshShell!Setup
  BY <1>6 DEF ShellInv, SshShell!Setup, ShellToldInv, ShellLoginInv, SshShell!TypeOK,
     ShellCountInv, ShellInShell, ShellQuiet, ShellEarly, ShellOpening, ShellRuns
<1>7. CASE SshShell!ChannelCloses
  BY <1>7 DEF ShellInv, SshShell!ChannelCloses, ShellToldInv, ShellLoginInv,
     SshShell!TypeOK, ShellCountInv, ShellInShell, ShellQuiet, ShellEarly, ShellOpening,
     ShellRuns
<1>8. CASE SshShell!ShellEnds
  BY <1>8 DEF ShellInv, SshShell!ShellEnds, ShellToldInv, ShellLoginInv, SshShell!TypeOK,
     ShellCountInv, ShellInShell, ShellQuiet, ShellEarly, ShellOpening, ShellRuns
<1>9. CASE SshShell!call_exit_callback
  BY <1>9 DEF ShellInv, SshShell!call_exit_callback, SshShell!MainFree,
     SshShell!SignalClosed, ShellToldInv, ShellLoginInv, SshShell!TypeOK, ShellCountInv,
     ShellInShell, ShellQuiet, ShellEarly, ShellOpening, ShellRuns
<1>10. CASE SshShell!Serve
  BY <1>10 DEF ShellInv, SshShell!Serve, SshShell!MainFree, ShellToldInv, ShellLoginInv,
     SshShell!TypeOK, ShellCountInv, ShellInShell, ShellQuiet, ShellEarly, ShellOpening,
     ShellRuns
<1>11. CASE SshShell!Resize
  BY <1>11 DEF ShellInv, SshShell!Resize, SshShell!MainFree, ShellToldInv, ShellLoginInv,
     SshShell!TypeOK, ShellCountInv, ShellInShell, ShellQuiet, ShellEarly, ShellOpening,
     ShellRuns
<1>12. CASE SshShell!close_connection
  BY <1>12 DEF ShellInv, SshShell!close_connection, SshShell!MainFree, ShellToldInv,
     ShellLoginInv, SshShell!TypeOK, ShellCountInv, ShellInShell, ShellQuiet, ShellEarly,
     ShellOpening, ShellRuns
<1>13. CASE SshShell!Cancel
  BY <1>13 DEF ShellInv, SshShell!Cancel, ShellToldInv, ShellLoginInv, SshShell!TypeOK,
     ShellCountInv, ShellInShell, ShellQuiet, ShellEarly, ShellOpening, ShellRuns
<1>14. CASE SshShell!shell_free
  BY <1>14 DEF ShellInv, SshShell!shell_free, ShellToldInv, ShellLoginInv, SshShell!TypeOK,
     ShellCountInv, ShellInShell, ShellQuiet, ShellEarly, ShellOpening, ShellRuns
<1>15. CASE SshShell!CancelShell
  BY <1>15 DEF ShellInv, SshShell!CancelShell, ShellToldInv, ShellLoginInv,
     SshShell!TypeOK, ShellCountInv, ShellInShell, ShellQuiet, ShellEarly, ShellOpening,
     ShellRuns
<1>16. CASE SshShell!FreeShell
  BY <1>16 DEF ShellInv, SshShell!FreeShell, SshShell!SignalClosed, ShellToldInv,
     ShellLoginInv, SshShell!TypeOK, ShellCountInv, ShellInShell, ShellQuiet, ShellEarly,
     ShellOpening, ShellRuns
<1>17. CASE UNCHANGED SshShell!vars
  BY <1>17 DEF SshShell!vars, ShellInv, ShellToldInv, ShellLoginInv, SshShell!TypeOK,
     ShellCountInv, ShellInShell, ShellQuiet, ShellEarly, ShellOpening, ShellRuns
<1> QED BY <1>1, <1>2, <1>3, <1>4, <1>5, <1>6, <1>7, <1>8, <1>9, <1>10, <1>11, <1>12,
   <1>13, <1>14, <1>15, <1>16, <1>17 DEF SshShell!Next

\* Every step keeps the invariant.
LEMMA ShellStepInv == ASSUME ShellInv, [SshShell!Next]_(SshShell!vars) PROVE ShellInv'
BY ShellTypeStep, ShellLoginStep, ShellUseStep, ShellCountStep, ShellOnceStep,
   ShellToldStep DEF ShellInv

\* What it says of a shell.
LEMMA ShellInvMeans == ASSUME ShellInv PROVE SshShell!TypeOK /\ SshShell!FaultKnown
   /\ SshShell!HungKnown /\ SshShell!EndIsTold
<1>1. SshShell!FaultKnown
  BY DEF ShellInv, SshShell!FaultKnown, ShellUseInv, ShellOnceInv, SshShell!TypeOK
<1>2. SshShell!HungKnown
  BY DEF ShellInv, SshShell!HungKnown, ShellUseInv
<1>3. SshShell!EndIsTold
  BY DEF ShellInv, SshShell!EndIsTold, ShellToldInv, ShellInShell
<1> QED BY <1>1, <1>2, <1>3 DEF ShellInv

-----------------------------------------------------------------------------
(* The channels of X11 (src/src/remmina_ssh.c).                            *)
(* The variables: s1 nodes, s2 shell, s3 chan, s4 open, s5 hist.           *)

X11NodeType == [ch : X11!Addrs, fd : 0 .. MaxChans, protected : BOOLEAN, thread : X11!Tids]
X11ListType == Seq(X11NodeType)
X11ChanType == [kind : X11!Kinds, shell : Shells \cup {"none"}, fd : 0 .. MaxChans]
X11HistType == [left : BOOLEAN, wrong : BOOLEAN]

\* As long as nothing was left behind, the nodes are those of the channels in use: no two of
\* the same, each with the kind of its channel and the descriptor that channel opened.
X11NodesTrue ==
    ~s5.left =>
        /\ ~s5.wrong
        /\ \A i \in DOMAIN s1 :
              /\ s3[s1[i].ch].kind = (IF s1[i].protected THEN "shell" ELSE "x11")
              /\ s1[i].fd # 0 => s4[s1[i].fd] = s1[i].ch
              /\ \A j \in DOMAIN s1 : s1[j].ch = s1[i].ch => i = j

X11Listed == \A a \in X11!Addrs : s3[a].kind \in {"shell", "x11"}
   => \E i \in DOMAIN s1 : s1[i].ch = a

\* A shell that is open has a thread.
X11Threaded == \A s \in Shells : s2[s].state = "open" => s2[s].thread # 0

X11Inv == X11!TypeOK /\ s1 \in X11ListType /\ X11NodesTrue /\ X11Listed /\ X11Threaded

\* The search finds the first node of a channel, if there is one.
LEMMA X11SearchFinds ==
    ASSUME NEW l \in X11ListType, NEW a \in X11!Addrs, NEW n,
           n = X11!remmina_ssh_search_item(l, a)
    PROVE  /\ n = 0 => \A i \in 1 .. Len(l) : l[i].ch # a
           /\ n # 0 => n \in 1 .. Len(l) /\ l[n].ch = a
<1>1. DOMAIN l = 1 .. Len(l) /\ Len(l) \in Nat
  BY DEF X11ListType
<1>2. CASE \A i \in DOMAIN l : l[i].ch # a
  BY <1>1, <1>2 DEF X11!remmina_ssh_search_item
<1>3. CASE \E i \in DOMAIN l : l[i].ch = a
  <2> DEFINE S == {i \in DOMAIN l : l[i].ch = a}
  <2>1. S \subseteq Nat /\ S # {}
    BY <1>1, <1>3
  <2>2. PICK k \in S : \A j \in S : k <= j
    BY <2>1, LeastOf
  <2>3. k \in DOMAIN l /\ l[k].ch = a /\ \A j \in 1 .. k - 1 : l[j].ch # a
    BY <1>1, <2>2
  <2>4. /\ n \in DOMAIN l /\ l[n].ch = a
    BY <1>3, <2>3 DEF X11!remmina_ssh_search_item
  <2> QED BY <1>1, <2>4
<1> QED BY <1>2, <1>3

\* The descriptor that is opened is a free one.
LEMMA X11LowestFree ==
    ASSUME MaxChans \in Nat, X11!FreeFds(s4) # {}
    PROVE  X11!Lowest(s4) \in X11!Addrs /\ s4[X11!Lowest(s4)] = 0
<1>1. X11!FreeFds(s4) \subseteq Nat
  BY DEF X11!FreeFds, X11!Addrs
<1>2. \E d \in X11!FreeFds(s4) : \A e \in X11!FreeFds(s4) : d <= e
  BY <1>1, LeastOf
<1>3. X11!Lowest(s4) \in X11!FreeFds(s4)
  BY <1>2 DEF X11!Lowest
<1> QED BY <1>3 DEF X11!FreeFds

\* The types of the records.
LEMMA X11Typed ==
    ASSUME X11Inv
    PROVE  /\ s1 \in X11ListType /\ DOMAIN s1 = 1 .. Len(s1) /\ Len(s1) \in Nat
           /\ s3 \in [X11!Addrs -> X11ChanType] /\ s4 \in [X11!Addrs -> 0 .. MaxChans]
              /\ s5 \in X11HistType
           /\ \A i \in 1 .. Len(s1) : s1[i] \in X11NodeType /\ s1[i].ch \in X11!Addrs
BY DEF X11Inv, X11!TypeOK, X11ListType, X11NodeType, X11ChanType, X11HistType

\* A node is added for a channel that is free until then.
LEMMA X11Inserted ==
    ASSUME X11Inv, MaxChans \in Nat, NEW a \in X11!Addrs, s3[a].kind = "free",
           NEW d \in 0 .. MaxChans,
           d # 0 => s4[d] = 0, NEW p \in BOOLEAN, NEW t \in X11!Tids, NEW s \in Shells,
           s1' = X11!remmina_ssh_insert_item(s1, a, d, p, t),
           s3' = [s3 EXCEPT ![a] = [kind |-> IF p THEN "shell"
              ELSE "x11", shell |-> s, fd |-> d]],
           s4' = (IF d = 0 THEN s4 ELSE [s4 EXCEPT ![d] = a]), UNCHANGED s5
    PROVE  /\ s1' \in X11ListType /\ s3' \in [X11!Addrs -> X11ChanType]
              /\ s4' \in [X11!Addrs -> 0 .. MaxChans]
           /\ X11NodesTrue' /\ X11Listed'
<1> DEFINE x == [ch |-> a, fd |-> d, protected |-> p, thread |-> t]
           m == Len(s1) + 1
           c == [kind |-> IF p THEN "shell" ELSE "x11", shell |-> s, fd |-> d]
<1>0. d # 0 => d \in X11!Addrs
  BY DEF X11!Addrs
<1>1. x \in X11NodeType /\ c \in X11ChanType /\ a \in 0 .. MaxChans
  BY DEF X11NodeType, X11ChanType, X11!Kinds, X11!Addrs
<1>2. s1' = Append(s1, x)
  BY DEF X11!remmina_ssh_insert_item
<1>3. x.ch = a /\ x.fd = d /\ x.protected = p /\ c.kind = IF p THEN "shell" ELSE "x11"
  OBVIOUS
<1>4. s3' = [s3 EXCEPT ![a] = c]
  OBVIOUS
<1> HIDE DEF x, c
<1>5. /\ s1' \in X11ListType /\ Len(s1') = m /\ DOMAIN s1' = 1 .. m /\ s1'[m] = x
      /\ \A i \in 1 .. Len(s1) : s1'[i] = s1[i]
      /\ \A i \in 1 .. m : i = m \/ i \in 1 .. Len(s1)
      /\ \A i \in 1 .. Len(s1) : i \in 1 .. m /\ i # m
  BY <1>1, <1>2, X11Typed DEF X11ListType
<1>6. /\ s3' \in [X11!Addrs -> X11ChanType] /\ s3'[a] = c
         /\ \A b \in X11!Addrs : b # a => s3'[b] = s3[b]
  BY <1>1, <1>4, X11Typed
<1>7. /\ s4' \in [X11!Addrs -> 0 .. MaxChans] /\ (d # 0 => s4'[d] = a)
      /\ \A e \in X11!Addrs : e # d => s4'[e] = s4[e]
  BY <1>0, <1>1, X11Typed
<1>8. X11Listed'
  <2>1. SUFFICES ASSUME NEW b \in X11!Addrs, s3'[b].kind \in {"shell", "x11"}
                 PROVE  \E i \in DOMAIN s1' : s1'[i].ch = b
    BY DEF X11Listed
  <2>2. CASE b = a
    BY <1>3, <1>5, <2>2
  <2>3. CASE b # a
    <3>1. PICK i \in 1 .. Len(s1) : s1[i].ch = b
      BY <1>6, <2>1, <2>3, X11Typed DEF X11Inv, X11Listed
    <3> QED BY <1>5, <3>1
  <2> QED BY <2>2, <2>3
<1>9. X11NodesTrue'
  <2>1. SUFFICES ASSUME ~s5.left PROVE X11NodesTrue'
    BY DEF X11NodesTrue
  <2>2. /\ ~s5.wrong
        /\ \A i \in 1 .. Len(s1) :
              /\ s3[s1[i].ch].kind = (IF s1[i].protected THEN "shell" ELSE "x11")
              /\ s1[i].fd # 0 => s4[s1[i].fd] = s1[i].ch
              /\ \A j \in 1 .. Len(s1) : s1[j].ch = s1[i].ch => i = j
    BY <2>1, X11Typed DEF X11Inv, X11NodesTrue
  <2>3. \A i \in 1 .. Len(s1) : s1[i].ch # a /\ s1[i].ch \in X11!Addrs
    BY <2>2, X11Typed
  <2>4. \A i \in 1 .. Len(s1) : s1[i].fd # 0 => s1[i].fd \in X11!Addrs /\ s1[i].fd # d
    <3>1. SUFFICES ASSUME NEW i \in 1 .. Len(s1), s1[i].fd # 0
                   PROVE  s1[i].fd \in X11!Addrs /\ s1[i].fd # d
      OBVIOUS
    <3>2. s1[i].fd \in X11!Addrs /\ s1[i].ch \in X11!Addrs
      BY <3>1, X11Typed DEF X11NodeType, X11!Addrs
    <3>3. s4[s1[i].fd] # 0
      BY <2>2, <3>1, <3>2 DEF X11!Addrs
    <3> QED BY <3>1, <3>2, <3>3
  <2>5. ASSUME NEW i \in 1 .. m
        PROVE  /\ s3'[s1'[i].ch].kind = (IF s1'[i].protected THEN "shell" ELSE "x11")
               /\ s1'[i].fd # 0 => s4'[s1'[i].fd] = s1'[i].ch
               /\ \A j \in 1 .. m : s1'[j].ch = s1'[i].ch => i = j
    <3>1. CASE i = m
      BY <1>3, <1>5, <1>6, <1>7, <2>3, <3>1
    <3>2. CASE i \in 1 .. Len(s1)
      <4>1. s1'[i] = s1[i] /\ s1[i].ch # a /\ s1[i].ch \in X11!Addrs
        BY <1>5, <2>3, <3>2
      <4>2. s3'[s1'[i].ch].kind = (IF s1'[i].protected THEN "shell" ELSE "x11")
        BY <1>6, <2>2, <3>2, <4>1
      <4>3. s1'[i].fd # 0 => s4'[s1'[i].fd] = s1'[i].ch
        BY <1>7, <2>2, <2>4, <3>2, <4>1
      <4>4. \A j \in 1 .. m : s1'[j].ch = s1'[i].ch => i = j
        BY <1>3, <1>5, <2>2, <3>2, <4>1
      <4> QED BY <4>2, <4>3, <4>4
    <3> QED BY <1>5, <3>1, <3>2
  <2> QED BY <1>5, <2>2, <2>5 DEF X11NodesTrue
<1> QED BY <1>5, <1>6, <1>7, <1>8, <1>9

\* A node is taken out: the others keep their order.
X11Removed(l, n) == SubSeq(l, 1, n - 1) \o SubSeq(l, n + 1, Len(l))

\* The list without one of its nodes.
LEMMA X11RemovedKeeps ==
    ASSUME NEW l \in X11ListType, NEW n \in 1 .. Len(l)
    PROVE  /\ X11Removed(l, n) \in X11ListType /\ Len(X11Removed(l, n)) = Len(l) - 1
           /\ \A k \in 1 .. Len(l) - 1 : X11Removed(l, n)[k] = IF k < n THEN l[k] ELSE l[k + 1]
<1>1. Len(l) \in Nat /\ n \in Nat /\ n >= 1 /\ n <= Len(l)
  BY DEF X11ListType
<1>2. PICK a : a = SubSeq(l, 1, n - 1)
  OBVIOUS
<1>3. PICK b : b = SubSeq(l, n + 1, Len(l))
  OBVIOUS
<1>4. /\ a \in X11ListType /\ Len(a) = n - 1 /\ \A k \in 1 .. n - 1 : a[k] = l[k]
  BY <1>1, <1>2 DEF X11ListType
<1>5. /\ b \in X11ListType /\ Len(b) = Len(l) - n /\ \A k \in 1 .. Len(l) - n : b[k] = l[n + k]
  BY <1>1, <1>3 DEF X11ListType
<1>6. PICK r : r = a \o b
  OBVIOUS
<1>7. /\ r \in X11ListType /\ Len(r) = Len(a) + Len(b)
      /\ \A k \in 1 .. Len(a) + Len(b) : r[k] = IF k <= Len(a) THEN a[k] ELSE b[k - Len(a)]
  BY <1>4, <1>5, <1>6, ConcatProperties, ZenonT(30) DEF X11ListType
<1>8. Len(r) = Len(l) - 1
  BY <1>1, <1>4, <1>5, <1>7
<1>9. ASSUME NEW k \in 1 .. Len(l) - 1
      PROVE  r[k] = IF k < n THEN l[k] ELSE l[k + 1]
  <2>1. k \in 1 .. Len(a) + Len(b) /\ (k <= Len(a) <=> k < n)
    BY <1>1, <1>4, <1>5
  <2>2. CASE k < n
    BY <1>1, <1>4, <1>7, <2>1, <2>2
  <2>3. CASE ~ (k < n)
    <3>1. k - Len(a) \in 1 .. Len(l) - n /\ n + (k - Len(a)) = k + 1
      BY <1>1, <1>4, <2>3
    <3>2. r[k] = b[k - Len(a)] /\ b[k - Len(a)] = l[n + (k - Len(a))]
      BY <1>5, <1>7, <2>1, <2>3, <3>1
    <3> QED BY <2>3, <3>1, <3>2
  <2> QED BY <2>2, <2>3
<1>10. r = X11Removed(l, n)
  BY <1>2, <1>3, <1>6, Zenon DEF X11Removed
<1> QED BY <1>7, <1>8, <1>9, <1>10, Zenon


\* It holds before the first shell.
LEMMA X11InitInv == ASSUME MaxChans \in Nat, X11!Init PROVE X11Inv
<1>1. /\ s1 = <<>> /\ s1 \in X11ListType /\ DOMAIN s1 = {}
  BY DEF X11!Init, X11ListType
<1>2. 0 \in 0 .. MaxChans /\ 0 \in 0 .. 2 /\ X11!NoChan \in X11ChanType
      /\ X11!NoChan.kind = "free"
  BY DEF X11!NoChan, X11ChanType, X11!Kinds
<1>3. /\ s3 = [a \in X11!Addrs |-> X11!NoChan] /\ s4 = [d \in X11!Addrs |-> 0]
         /\ ~s5.left /\ ~s5.wrong
      /\ s5 \in X11HistType
  BY DEF X11!Init, X11HistType
<1>4. s2 \in [Shells -> [state : {"new", "open", "ended", "freed"}, thread : 0 .. 2,
                            slave : 0 .. MaxChans]]
  BY <1>2 DEF X11!Init
<1>5. X11!TypeOK
  BY <1>1, <1>2, <1>3, <1>4 DEF X11!TypeOK, X11ChanType, X11HistType
<1>6. X11NodesTrue /\ X11Listed /\ X11Threaded
  BY <1>1, <1>2, <1>3 DEF X11!Init, X11NodesTrue, X11Listed, X11Threaded
<1> QED BY <1>1, <1>5, <1>6 DEF X11Inv

X11ShellType == [state : {"new", "open", "ended", "freed"}, thread : 0 .. 2,
   slave : 0 .. MaxChans]

\* The invariant from its parts
LEMMA X11Assemble ==
    ASSUME (/\ s1 \in X11ListType /\ s2 \in [Shells -> X11ShellType]
           /\ s3 \in [X11!Addrs -> X11ChanType]
            /\ s4 \in [X11!Addrs -> 0 .. MaxChans] /\ s5 \in X11HistType /\ X11NodesTrue
               /\ X11Listed /\ X11Threaded)'
    PROVE  X11Inv'
<1>1. (\A i \in DOMAIN s1 : s1[i] \in X11NodeType)'
  BY DEF X11ListType
<1> QED BY <1>1 DEF X11Inv, X11!TypeOK, X11NodeType, X11ShellType, X11ChanType, X11HistType

\* A shell that opens, ...
LEMMA X11OpenStep == ASSUME X11Inv, MaxChans \in Nat, NEW s \in Shells,
   X11!OpenShell(s) PROVE X11Inv'
<1>1. PICK a \in X11!Addrs, t \in X11!Tids :
         /\ s3[a].kind = "free"
         /\ s1' = X11!remmina_ssh_insert_item(s1, a, X11!Lowest(s4), TRUE, t)
         /\ s3' = [s3 EXCEPT ![a] = [kind |-> "shell", shell |-> s, fd |-> X11!Lowest(s4)]]
         /\ s4' = [s4 EXCEPT ![X11!Lowest(s4)] = a]
         /\ s2' = [s2 EXCEPT ![s] = [state |-> "open", thread |-> t, slave |-> X11!Lowest(s4)]]
  BY DEF X11!OpenShell
<1>2. PICK d : d = X11!Lowest(s4)
  OBVIOUS
<1>3. d \in X11!Addrs /\ s4[d] = 0 /\ d \in 0 .. MaxChans /\ d # 0
  <2>1. X11!FreeFds(s4) # {}
    BY DEF X11!OpenShell
  <2>2. d \in X11!Addrs /\ s4[d] = 0
    BY <1>2, <2>1, X11LowestFree
  <2> QED BY <2>2 DEF X11!Addrs
<1>4. /\ s1' \in X11ListType /\ s3' \in [X11!Addrs -> X11ChanType]
         /\ s4' \in [X11!Addrs -> 0 .. MaxChans]
      /\ X11NodesTrue' /\ X11Listed'
  <2>1. UNCHANGED s5
    BY DEF X11!OpenShell
  <2> QED BY <1>1, <1>2, <1>3, <2>1, X11Inserted
<1>5. s2' \in [Shells -> X11ShellType] /\ X11Threaded'
  <2>1. [state |-> "open", thread |-> t, slave |-> d] \in X11ShellType /\ t # 0
    BY <1>3 DEF X11ShellType, X11!Tids
  <2> QED BY <1>1, <1>2, <2>1 DEF X11Inv, X11!TypeOK, X11ShellType, X11Threaded
<1> QED BY <1>4, <1>5, X11Typed, X11Assemble DEF X11!OpenShell

\* ... a client that connects to the display, ...
LEMMA X11RequestStep ==
    ASSUME X11Inv, MaxChans \in Nat, NEW s \in Shells,
           X11!remmina_ssh_x11_open_request_cb(s) PROVE X11Inv'
<1>1. PICK a \in X11!Addrs, d \in X11!remmina_ssh_x11_connect_display :
         /\ s3[a].kind = "free"
         /\ s1' = X11!remmina_ssh_insert_item(s1, a, d, FALSE, s2[s].thread)
         /\ s3' = [s3 EXCEPT ![a] = [kind |-> "x11", shell |-> s, fd |-> d]]
         /\ s4' = IF d = 0 THEN s4 ELSE [s4 EXCEPT ![d] = a]
  BY DEF X11!remmina_ssh_x11_open_request_cb
<1>2. d \in 0 .. MaxChans /\ (d # 0 => s4[d] = 0)
  <2>1. CASE d = 0
    BY <2>1
  <2>2. CASE d # 0
    <3>1. d = X11!Lowest(s4) /\ X11!FreeFds(s4) # {}
      BY <1>1, <2>2 DEF X11!remmina_ssh_x11_connect_display
    <3>2. d \in X11!Addrs /\ s4[d] = 0
      BY <3>1, X11LowestFree
    <3> QED BY <3>2 DEF X11!Addrs
  <2> QED BY <2>1, <2>2
<1>3. s2[s].thread \in X11!Tids
  <2>1. s2[s] \in X11ShellType
    BY DEF X11Inv, X11!TypeOK, X11ShellType
  <2> QED BY <2>1 DEF X11Inv, X11Threaded, X11!remmina_ssh_x11_open_request_cb,
     X11ShellType, X11!Tids
<1>4. /\ s1' \in X11ListType /\ s3' \in [X11!Addrs -> X11ChanType]
         /\ s4' \in [X11!Addrs -> 0 .. MaxChans]
      /\ X11NodesTrue' /\ X11Listed'
  <2>1. UNCHANGED s5
    BY DEF X11!remmina_ssh_x11_open_request_cb
  <2> QED BY <1>1, <1>2, <1>3, <2>1, X11Inserted
<1> QED BY <1>4, X11Typed, X11Assemble DEF X11!remmina_ssh_x11_open_request_cb, X11Inv,
   X11!TypeOK, X11ShellType, X11Threaded

\* Data that go to a node go to its channel, as long as the nodes are true.
LEMMA X11Meant ==
    ASSUME X11Inv, NEW a \in X11!Addrs, NEW n \in 1 .. Len(s1), s1[n].ch = a, ~s5.left
    PROVE  ~X11!Foreign({s1[n].fd}, {a})
<1>1. s1[n].fd # 0 => s4[s1[n].fd] = a
  BY X11Typed DEF X11Inv, X11NodesTrue
<1> QED BY <1>1 DEF X11!Foreign

\* ... data for it ...
LEMMA X11DataStep == ASSUME X11Inv, NEW a \in X11!Addrs,
   X11!remmina_ssh_cp_to_fd_cb(a) PROVE X11Inv'
<1> DEFINE n == X11!remmina_ssh_search_item(s1, a)
           w == X11!Foreign({s1[n].fd}, {a})
<1>1. /\ n # 0 /\ s5' = [s5 EXCEPT !.wrong = s5.wrong \/ w]
      /\ UNCHANGED <<s1, s2, s3, s4>>
  BY DEF X11!remmina_ssh_cp_to_fd_cb
<1>2. n \in 1 .. Len(s1) /\ s1[n].ch = a
  BY <1>1, X11SearchFinds, X11Typed
<1>3. w \in BOOLEAN /\ (~s5.left => ~w)
  BY <1>2, X11Meant DEF X11!Foreign
<1> HIDE DEF n, w
<1>4. s5' \in X11HistType /\ s5'.left = s5.left /\ s5'.wrong = (s5.wrong \/ w)
  BY <1>1, <1>3, X11Typed DEF X11HistType
<1>5. X11NodesTrue' /\ X11Listed'
  BY <1>1, <1>3, <1>4 DEF X11Inv, X11NodesTrue, X11Listed
<1> QED BY <1>1, <1>4, <1>5, X11Typed, X11Assemble DEF X11Inv, X11!TypeOK, X11ShellType,
   X11Threaded

\* ... and from it, ...
LEMMA X11ClientStep == ASSUME X11Inv, MaxChans \in Nat, NEW a \in X11!Addrs,
   X11!remmina_ssh_cp_to_ch_cb(a) PROVE X11Inv'
<1>1. /\ s4' = X11!CloseAll(s4, {s3[a].fd}) /\ s5' = [s5 EXCEPT !.left = TRUE]
      /\ UNCHANGED <<s1, s2, s3>>
  BY DEF X11!remmina_ssh_cp_to_ch_cb
<1>2. s4' \in [X11!Addrs -> 0 .. MaxChans]
  BY <1>1, X11Typed DEF X11!CloseAll
<1>3. s5' \in X11HistType /\ s5'.left
  BY <1>1, X11Typed DEF X11HistType
<1>4. X11NodesTrue' /\ X11Listed'
  BY <1>1, <1>3 DEF X11Inv, X11NodesTrue, X11Listed
<1> QED BY <1>1, <1>2, <1>3, <1>4, X11Typed, X11Assemble DEF X11Inv, X11!TypeOK,
   X11ShellType, X11Threaded

\* ... a channel that closes, ...
LEMMA X11CloseStep == ASSUME X11Inv, MaxChans \in Nat, NEW a \in X11!Addrs,
   X11!remmina_ssh_ch_close_cb(a) PROVE X11Inv'
<1> DEFINE n == X11!remmina_ssh_search_item(s1, a)
           w == X11!Foreign({s1[n].fd}, {a})
<1>1. /\ s3[a].kind = "x11" /\ s3' = [s3 EXCEPT ![a].kind = "closed"] /\ s2' = s2
      /\ IF n # 0 /\ ~s1[n].protected
         THEN /\ s1' = X11!remmina_ssh_delete_item(s1, a)
              /\ s5' = [s5 EXCEPT !.wrong = s5.wrong \/ w]
              /\ s4' = X11!CloseAll(s4, {s1[n].fd})
         ELSE UNCHANGED <<s1, s5, s4>>
  BY DEF X11!remmina_ssh_ch_close_cb
<1>2. /\ s3' \in [X11!Addrs -> X11ChanType] /\ s3'[a].kind = "closed"
      /\ \A b \in X11!Addrs : b # a => s3'[b] = s3[b]
  <2>1. s3[a] \in X11ChanType
    BY X11Typed
  <2>2. [s3[a] EXCEPT !.kind = "closed"] \in X11ChanType
        /\ [s3[a] EXCEPT !.kind = "closed"].kind = "closed"
    BY <2>1 DEF X11ChanType, X11!Kinds
  <2>3. s3' = [s3 EXCEPT ![a] = [s3[a] EXCEPT !.kind = "closed"]]
    BY <1>1
  <2> QED BY <2>2, <2>3, X11Typed
<1>3. n # 0 => n \in 1 .. Len(s1) /\ s1[n].ch = a
  BY X11SearchFinds, X11Typed
<1>4. n = 0 => \A i \in 1 .. Len(s1) : s1[i].ch # a
  BY X11SearchFinds, X11Typed
<1>5. n # 0 => X11!remmina_ssh_delete_item(s1, a) = X11Removed(s1, n)
  BY DEF X11!remmina_ssh_delete_item, X11Removed
<1>6. n # 0 /\ ~s5.left => ~w
  BY <1>3, X11Meant
<1>7. w \in BOOLEAN
  BY DEF X11!Foreign
<1>8. s2' \in [Shells -> X11ShellType] /\ X11Threaded'
  BY <1>1 DEF X11Inv, X11!TypeOK, X11ShellType, X11Threaded
<1> HIDE DEF n, w
<1>9. CASE n # 0 /\ ~s1[n].protected
  <2> DEFINE l == X11Removed(s1, n)
  <2>1. /\ s1' = l /\ s4' = X11!CloseAll(s4, {s1[n].fd})
        /\ s5' = [s5 EXCEPT !.wrong = s5.wrong \/ w]
        /\ n \in 1 .. Len(s1) /\ s1[n].ch = a
    BY <1>1, <1>3, <1>5, <1>9
  <2>2. /\ l \in X11ListType /\ Len(l) = Len(s1) - 1 /\ Len(s1) \in Nat
        /\ \A k \in 1 .. Len(s1) - 1 : l[k] = IF k < n THEN s1[k] ELSE s1[k + 1]
    BY <2>1, X11RemovedKeeps, X11Typed
  <2> HIDE DEF l
  <2>3. /\ s5' \in X11HistType /\ s5'.left = s5.left /\ s5'.wrong = (s5.wrong \/ w)
    BY <1>7, <2>1, X11Typed DEF X11HistType
  <2>4. /\ s4' \in [X11!Addrs -> 0 .. MaxChans]
        /\ \A e \in X11!Addrs : e # s1[n].fd => s4'[e] = s4[e]
    BY <2>1, X11Typed DEF X11!CloseAll
  <2>5. \A b \in X11!Addrs : (\E i \in DOMAIN s1 : s1[i].ch = b) /\ b # a
                         => \E i \in DOMAIN l : l[i].ch = b
    <3>1. SUFFICES ASSUME NEW b \in X11!Addrs, NEW i \in 1 .. Len(s1), s1[i].ch = b, b # a
                   PROVE  \E k \in 1 .. Len(s1) - 1 : l[k].ch = b
      BY <2>2, X11Typed DEF X11ListType
    <3>2. i # n
      BY <2>1, <3>1
    <3>3. CASE i < n
      BY <2>1, <2>2, <3>1, <3>3
    <3>4. CASE i > n
      <4>1. i - 1 \in 1 .. Len(s1) - 1 /\ ~(i - 1 < n) /\ (i - 1) + 1 = i
        BY <2>1, <2>2, <3>4
      <4> QED BY <2>2, <3>1, <4>1
    <3> QED BY <2>1, <2>2, <3>2, <3>3, <3>4
  <2>6. X11Listed'
    BY <1>2, <2>1, <2>5 DEF X11Inv, X11Listed
  <2>7. X11NodesTrue'
    <3>1. SUFFICES ASSUME ~s5.left PROVE X11NodesTrue'
      BY <2>3 DEF X11NodesTrue
    <3>2. /\ ~s5.wrong
          /\ \A i \in 1 .. Len(s1) :
                /\ s3[s1[i].ch].kind = (IF s1[i].protected THEN "shell" ELSE "x11")
                /\ s1[i].fd # 0 => s4[s1[i].fd] = s1[i].ch
                /\ \A j \in 1 .. Len(s1) : s1[j].ch = s1[i].ch => i = j
      BY <3>1, X11Typed DEF X11Inv, X11NodesTrue
    <3>3. \A k \in 1 .. Len(s1) - 1 : \E i \in 1 .. Len(s1) :
             l[k] = s1[i] /\ i # n /\ i = IF k < n THEN k ELSE k + 1
      <4>1. SUFFICES ASSUME NEW k \in 1 .. Len(s1) - 1
                     PROVE  \E i \in 1 .. Len(s1) :
                               l[k] = s1[i] /\ i # n /\ i = IF k < n THEN k ELSE k + 1
        OBVIOUS
      <4>2. CASE k < n
        BY <2>1, <2>2, <4>2
      <4>3. CASE ~(k < n)
        BY <2>1, <2>2, <4>3
      <4> QED BY <4>2, <4>3
    <3>4. ASSUME NEW k \in 1 .. Len(s1) - 1
          PROVE  /\ s3'[l[k].ch].kind = (IF l[k].protected THEN "shell" ELSE "x11")
                 /\ l[k].fd # 0 => s4'[l[k].fd] = l[k].ch
                 /\ \A j \in 1 .. Len(s1) - 1 : l[j].ch = l[k].ch => k = j
      <4>1. PICK i \in 1 .. Len(s1) : l[k] = s1[i] /\ i # n /\ i = IF k < n THEN k ELSE k + 1
        BY <3>3
      <4>2. s1[i].ch # a /\ s1[i].ch \in X11!Addrs
        BY <2>1, <3>2, <4>1, X11Typed
      <4>3. s1[i].fd # 0 => s1[i].fd # s1[n].fd /\ s1[i].fd \in X11!Addrs
        <5>1. s1[i].fd \in 0 .. MaxChans
          BY X11Typed DEF X11NodeType
        <5> QED BY <2>1, <3>2, <4>2, <5>1 DEF X11!Addrs
      <4>4. s3'[l[k].ch].kind = (IF l[k].protected THEN "shell" ELSE "x11")
        BY <1>2, <3>2, <4>1, <4>2
      <4>5. l[k].fd # 0 => s4'[l[k].fd] = l[k].ch
        BY <2>4, <3>2, <4>1, <4>3
      <4>6. ASSUME NEW j \in 1 .. Len(s1) - 1, l[j].ch = l[k].ch PROVE k = j
        <5>1. PICK m \in 1 .. Len(s1) : l[j] = s1[m] /\ m # n /\ m = IF j < n THEN j ELSE j + 1
          BY <3>3
        <5>2. m = i
          BY <3>2, <4>1, <4>6, <5>1
        <5> QED BY <2>1, <4>1, <5>1, <5>2
      <4> QED BY <4>4, <4>5, <4>6
    <3>5. ~s5'.wrong /\ DOMAIN l = 1 .. Len(s1) - 1
      <4>1. ~s5'.wrong
        BY <1>6, <1>9, <2>3, <3>1, <3>2
      <4>2. DOMAIN l = 1 .. Len(l)
        BY <2>2 DEF X11ListType
      <4> QED BY <2>2, <4>1, <4>2
    <3> QED BY <2>1, <3>4, <3>5 DEF X11NodesTrue
  <2> QED BY <1>2, <1>8, <2>1, <2>2, <2>3, <2>4, <2>6, <2>7, X11Assemble
<1>10. CASE ~(n # 0 /\ ~s1[n].protected)
  <2>1. UNCHANGED <<s1, s5, s4>>
    BY <1>1, <1>10
  <2>2. X11Listed'
    BY <1>2, <2>1 DEF X11Inv, X11Listed
  <2>3. X11NodesTrue'
    <3>1. SUFFICES ASSUME ~s5.left PROVE X11NodesTrue'
      BY <2>1 DEF X11NodesTrue
    <3>2. \A i \in 1 .. Len(s1) : s1[i].ch # a
      BY <1>1, <1>3, <1>4, <1>10, <3>1, X11Typed DEF X11Inv, X11NodesTrue
    <3> QED BY <1>2, <2>1, <3>2, X11Typed DEF X11Inv, X11NodesTrue
  <2> QED BY <1>2, <1>8, <2>1, <2>2, <2>3, X11Typed, X11Assemble
<1> QED BY <1>9, <1>10

\* A shell that has no thread any more.
LEMMA X11ShellClosed ==
    ASSUME X11Inv, NEW s \in Shells, NEW k \in {"ended", "freed"},
           s2' = [s2 EXCEPT ![s].state = k, ![s].thread = 0]
    PROVE  s2' \in [Shells -> X11ShellType] /\ X11Threaded'
<1>1. s2 \in [Shells -> X11ShellType] /\ s2[s] \in X11ShellType
  BY DEF X11Inv, X11!TypeOK, X11ShellType
<1>2. PICK x : x = [s2[s] EXCEPT !.state = k, !.thread = 0]
  OBVIOUS
<1>3. x \in X11ShellType /\ x.state = k
  <2>1. k \in {"new", "open", "ended", "freed"} /\ 0 \in 0 .. 2
    OBVIOUS
  <2>2. PICK o : o = s2[s]
    OBVIOUS
  <2>3. o \in X11ShellType /\ x = [o EXCEPT !.state = k, !.thread = 0]
    BY <1>1, <1>2, <2>2
  <2> QED BY <2>1, <2>3 DEF X11ShellType
<1>4. s2' = [s2 EXCEPT ![s] = x]
  BY <1>1, <1>2
<1> QED BY <1>1, <1>3, <1>4 DEF X11Inv, X11Threaded

\* The end of a shell leaves its nodes behind.
LEMMA X11LeftBehind ==
    ASSUME X11Inv, MaxChans \in Nat, NEW fds, s4' = X11!CloseAll(s4, fds), UNCHANGED s1,
           NEW w \in BOOLEAN, s5' = [left |-> TRUE, wrong |-> w],
           NEW gone, s3' = [a \in X11!Addrs |-> IF gone[a] THEN X11!NoChan ELSE s3[a]],
           s2' \in [Shells -> X11ShellType], X11Threaded'
    PROVE  X11Inv'
<1>1. s4' \in [X11!Addrs -> 0 .. MaxChans]
  BY X11Typed DEF X11!CloseAll
<1>2. s5' \in X11HistType /\ s5'.left
  BY DEF X11HistType
<1>3. X11!NoChan \in X11ChanType /\ X11!NoChan.kind = "free"
  BY DEF X11!NoChan, X11ChanType, X11!Kinds
<1>4. s3' \in [X11!Addrs -> X11ChanType]
  BY <1>3, X11Typed
<1>5. X11Listed'
  BY <1>3 DEF X11Inv, X11Listed
<1> QED BY <1>1, <1>2, <1>4, <1>5, X11Typed, X11Assemble DEF X11NodesTrue

\* ... the end of a shell ...
LEMMA X11EndStep == ASSUME X11Inv, MaxChans \in Nat, NEW s \in Shells,
   X11!EndShell(s) PROVE X11Inv'
<1> DEFINE w == s5.wrong \/ X11!Foreign(X11!OfThread(s2[s].thread), X11!Own(s))
           gone == [a \in X11!Addrs |-> s3[a].shell = s /\ s3[a].kind = "shell"]
<1>1. /\ s5' = [left |-> TRUE, wrong |-> w] /\ s1' = s1
      /\ s4' = X11!CloseAll(s4, X11!OfThread(s2[s].thread))
      /\ s2' = [s2 EXCEPT ![s].state = "ended", ![s].thread = 0] /\ "ended" # "open"
  BY DEF X11!EndShell
<1>2. s3' = [a \in X11!Addrs |-> IF gone[a] THEN X11!NoChan ELSE s3[a]]
  BY DEF X11!EndShell
<1>3. w \in BOOLEAN
  BY DEF X11!Foreign
<1>4. s2' \in [Shells -> X11ShellType] /\ X11Threaded'
  BY <1>1, X11ShellClosed
<1> HIDE DEF w, gone
<1> QED BY <1>1, <1>2, <1>3, <1>4, X11LeftBehind

\* ... and its freeing keep the invariant.
LEMMA X11FreeStep == ASSUME X11Inv, MaxChans \in Nat, NEW s \in Shells,
   X11!remmina_ssh_shell_free(s) PROVE X11Inv'
<1> DEFINE fds == IF s2[s].thread = 0 THEN {} ELSE X11!OfThread(s2[s].thread)
           all == fds \cup {s2[s].slave}
           w == s5.wrong \/ X11!Foreign(fds, X11!Own(s))
           gone == [a \in X11!Addrs |-> s3[a].shell = s]
<1>1. /\ s5' = [left |-> TRUE, wrong |-> w] /\ s1' = s1 /\ s4' = X11!CloseAll(s4, all)
      /\ s2' = [s2 EXCEPT ![s].state = "freed", ![s].thread = 0] /\ "freed" # "open"
  BY DEF X11!remmina_ssh_shell_free
<1>2. s3' = [a \in X11!Addrs |-> IF gone[a] THEN X11!NoChan ELSE s3[a]]
  BY DEF X11!remmina_ssh_shell_free
<1>3. w \in BOOLEAN
  BY DEF X11!Foreign
<1>4. s2' \in [Shells -> X11ShellType] /\ X11Threaded'
  BY <1>1, X11ShellClosed
<1> HIDE DEF w, gone, all
<1> QED BY <1>1, <1>2, <1>3, <1>4, X11LeftBehind

\* Every step keeps the invariant.
LEMMA X11StepInv == ASSUME X11Inv, MaxChans \in Nat, [X11!Next]_(X11!vars) PROVE X11Inv'
<1>1. CASE UNCHANGED X11!vars
  BY <1>1 DEF X11!vars, X11Inv, X11!TypeOK, X11NodesTrue, X11Listed, X11ListType,
     X11Threaded
<1> QED BY <1>1, X11OpenStep, X11RequestStep, X11DataStep, X11ClientStep, X11CloseStep,
   X11EndStep, X11FreeStep DEF X11!Next

\* What it says of the channels.
LEMMA X11InvMeans == ASSUME X11Inv PROVE X11!TypeOK /\ X11!OwnSockets /\ X11!NodeFound
<1>1. X11!OwnSockets
  BY DEF X11Inv, X11NodesTrue, X11!OwnSockets
<1>2. X11!NodeFound
  <2>1. SUFFICES ASSUME NEW a \in X11!Addrs, s3[a].kind \in {"shell", "x11"}
                 PROVE  X11!remmina_ssh_search_item(s1, a) # 0
    BY DEF X11!NodeFound
  <2> QED BY <2>1, X11SearchFinds, X11Typed DEF X11Inv, X11Listed
<1> QED BY <1>1, <1>2 DEF X11Inv

-----------------------------------------------------------------------------
(* The primary password (src/src/remmina_unlock.c).                        *)
(* The variables: s1 now, s2 password, s3 timer, s4 unlocked, s5 calls,    *)
(* s6 record, s7 given, s8 used, s9 hist, s10 fault.                       *)

UnlockTimerType == [there : BOOLEAN, active : BOOLEAN, start : 0 .. MaxNow, end : 0 .. MaxNow]
UnlockHistType == [nested : BOOLEAN, late : BOOLEAN, unmade : BOOLEAN]
UnlockCallsType == Seq({"passwd", "unlock"})

\* Without a nested call the record is that of the one call there is.
UnlockCallsInv ==
    ~s9.nested =>
        /\ Len(s5) <= 1
        /\ s5 # <<>> => s6 = Len(s5)
        /\ s5 # <<>> /\ s5[1] = "unlock" /\ s2 = "none" => s9.unmade

\* While a use may be let through, the timer knows when the password was given and, once it
\* was stopped, when it was used last; who is being asked is not let through meanwhile.
UnlockTimerInv ==
    /\ s6 # 0 => ~s4
    /\ s3.there /\ s4 =>
          /\ s3.start = s7 /\ s7 <= s8 /\ s8 <= s1
          /\ IF s3.active THEN s8 = s7 ELSE s3.end = s8

UnlockInv == Unlock!TypeOK /\ UnlockCallsInv /\ UnlockTimerInv /\ Unlock!LetThrough
   /\ Unlock!DialogThere

\* The types of the records.
LEMMA UnlockTyped ==
    ASSUME UnlockInv
    PROVE  /\ s3 \in UnlockTimerType /\ s9 \in UnlockHistType /\ s5 \in UnlockCallsType
           /\ Len(s5) \in Nat /\ s1 \in 1 .. MaxNow /\ s1 \in Nat /\ s6 \in Nat
BY DEF UnlockInv, Unlock!TypeOK, UnlockTimerType, UnlockHistType, UnlockCallsType

\* The call on top is taken off, and perhaps another put in its place.
LEMMA UnlockPopped ==
    ASSUME UnlockInv, s5 # <<>>
    PROVE  /\ Unlock!Pop \in UnlockCallsType /\ Len(Unlock!Pop) = Len(s5) - 1 /\ Len(s5) >= 1
           /\ Append(Unlock!Pop, "unlock") \in UnlockCallsType
              /\ Len(Append(Unlock!Pop, "unlock")) = Len(s5)
           /\ Unlock!Top \in {"passwd", "unlock"}
           /\ Len(s5) = 1 => Unlock!Pop = <<>>
              /\ Append(Unlock!Pop, "unlock") = <<"unlock">> /\ Unlock!Top = s5[1]
<1>1. s5 \in UnlockCallsType /\ Len(s5) \in Nat /\ Len(s5) # 0
  BY UnlockTyped DEF UnlockCallsType
<1>2. Len(s5) >= 1 /\ Len(s5) - 1 \in Nat /\ Len(s5) - 1 <= Len(s5)
  BY <1>1
<1>3. Unlock!Pop \in UnlockCallsType /\ Len(Unlock!Pop) = Len(s5) - 1
  <2> DEFINE m == Len(s5) - 1
             p == SubSeq(s5, 1, m)
  <2>1. m \in Nat /\ \A k \in 1 .. m : k \in 1 .. Len(s5)
    BY <1>1, <1>2
  <2>2. Unlock!Pop = p
    BY DEF Unlock!Pop
  <2> HIDE DEF m
  <2>3. p \in UnlockCallsType /\ Len(p) = m
    BY <1>1, <2>1 DEF UnlockCallsType
  <2> QED BY <2>2, <2>3 DEF m
<1>4. Append(Unlock!Pop, "unlock") \in UnlockCallsType
      /\ Len(Append(Unlock!Pop, "unlock")) = Len(s5)
  BY <1>1, <1>3 DEF UnlockCallsType
<1>5. Unlock!Top \in {"passwd", "unlock"}
  BY <1>1, <1>2 DEF Unlock!Top, UnlockCallsType
<1>6. Len(s5) = 1 => Unlock!Pop = <<>>
  BY <1>3 DEF UnlockCallsType
<1>7. Append(<<>>, "unlock") = <<"unlock">>
  OBVIOUS
<1> QED BY <1>2, <1>3, <1>4, <1>5, <1>6, <1>7 DEF Unlock!Top

\* It holds at the start.
LEMMA UnlockInitInv == ASSUME MaxNow \in Nat \ {0}, MaxUses \in Nat, Unlock!Init PROVE UnlockInv
<1>1. Unlock!TypeOK
  <2>1. /\ s3 \in UnlockTimerType /\ 0 \in 0 .. MaxNow /\ 1 \in 1 .. MaxNow
           /\ 0 \in 0 .. MaxUses
        /\ s9 \in UnlockHistType
    BY DEF Unlock!Init, Unlock!NoTimer, UnlockTimerType, UnlockHistType
  <2>2. s5 \in UnlockCallsType /\ Len(s5) <= MaxUses
    BY DEF Unlock!Init, UnlockCallsType
  <2> QED BY <2>1, <2>2 DEF Unlock!Init, Unlock!TypeOK, Unlock!Never, UnlockTimerType,
     UnlockHistType, UnlockCallsType
<1>2. s5 = <<>> /\ s6 = 0 /\ ~s4 /\ ~s9.late /\ ~s10 /\ Len(s5) = 0
  BY DEF Unlock!Init
<1> QED BY <1>1, <1>2 DEF UnlockInv, UnlockCallsInv, UnlockTimerInv, Unlock!LetThrough,
   Unlock!DialogThere

\* The time that goes by, ...
LEMMA UnlockTickStep == ASSUME UnlockInv, MaxNow \in Nat, Unlock!Tick PROVE UnlockInv'
<1>1. s1' \in 1 .. MaxNow /\ s1' = s1 + 1 /\ s1 \in Nat
  BY UnlockTyped DEF Unlock!Tick
<1>2. Unlock!TypeOK'
  BY <1>1 DEF Unlock!Tick, UnlockInv, Unlock!TypeOK
<1>3. s8 \in Nat
  BY DEF UnlockInv, Unlock!TypeOK
<1> QED BY <1>1, <1>2, <1>3 DEF Unlock!Tick, UnlockInv, UnlockCallsInv, UnlockTimerInv,
   Unlock!LetThrough, Unlock!DialogThere

\* ... a use of what is locked, ...
LEMMA UnlockNewStep ==
    ASSUME UnlockInv, MaxNow \in Nat, MaxUses \in Nat, UnlockTimeout \in Nat,
           Unlock!remmina_unlock_new
    PROVE  UnlockInv'
<1> DEFINE t == IF s3.there THEN s3
                ELSE [there |-> TRUE, active |-> TRUE, start |-> s1, end |-> s1]
           stopped == [t EXCEPT !.active = FALSE, !.end = s1]
           over == Unlock!TimeOver(t)
           free == s3.there /\ s4 /\ ~over
<1>0. /\ s3 \in UnlockTimerType /\ s9 \in UnlockHistType /\ s5 \in UnlockCallsType
         /\ Len(s5) \in Nat
      /\ s1 \in 0 .. MaxNow /\ s1 \in Nat /\ s8 \in 0 .. MaxNow /\ s7 \in 0 .. MaxNow
      /\ s8 \in Nat /\ s7 \in Nat
  BY UnlockTyped DEF UnlockInv, Unlock!TypeOK
<1>1. t \in UnlockTimerType /\ t.there
  BY <1>0 DEF UnlockTimerType
<1>2. /\ s3' = IF over THEN [stopped EXCEPT !.start = s1] ELSE stopped
      /\ s4' = free /\ Len(s5) < MaxUses
      /\ free => /\ s8' = s1 /\ UNCHANGED <<s5, s6>>
                 /\ s9' = [s9 EXCEPT !.late = s9.late \/ Unlock!Late]
      /\ ~free => /\ s5' = Append(s5, IF s2 = "set" THEN "unlock" ELSE "passwd")
                  /\ s6' = Len(s5) + 1 /\ UNCHANGED s8
                  /\ s9' = [s9 EXCEPT !.nested = s9.nested \/ s5 # <<>>]
      /\ UNCHANGED <<s1, s2, s7, s10>>
  BY DEF Unlock!remmina_unlock_new
<1>3. /\ s3.there => t = s3
      /\ over <=> Unlock!TimeOver(t)
  OBVIOUS
<1> HIDE DEF t, over
<1>4. /\ s3' \in UnlockTimerType /\ s3'.there /\ ~s3'.active /\ s3'.end = s1
      /\ ~over => s3'.start = t.start
  BY <1>0, <1>1, <1>2 DEF UnlockTimerType
<1>5. CASE free
  <2>1. t = s3 /\ s4 /\ s3.there /\ ~over
    BY <1>3, <1>5
  <2>2. /\ s3.start = s7 /\ s7 <= s8 /\ s8 <= s1
        /\ IF s3.active THEN s8 = s7 ELSE s3.end = s8
    BY <2>1 DEF UnlockInv, UnlockTimerInv
  <2>3. ~Unlock!Late
    <3>1. CASE s3.active
      BY <1>0, <2>2, <3>1 DEF Unlock!Late
    <3>2. CASE ~s3.active
      <4>1. Unlock!Elapsed(s3) = s8 - s7
        BY <1>0, <2>2, <3>2 DEF Unlock!Elapsed
      <4>2. ~(s8 - s7 > 0 /\ s8 - s7 >= UnlockTimeout)
        BY <1>3, <2>1, <4>1 DEF Unlock!TimeOver
      <4> QED BY <1>0, <2>2, <4>2 DEF Unlock!Late
    <3> QED BY <3>1, <3>2
  <2>4. s9' = s9
    BY <1>0, <1>2, <1>5, <2>3 DEF UnlockHistType, UnlockInv, Unlock!LetThrough
  <2>5. s4' /\ s6 = 0
    BY <1>2, <1>5, <2>1 DEF UnlockInv, UnlockTimerInv
  <2>6. Unlock!TypeOK'
    BY <1>2, <1>4, <1>5, <2>4, <2>5, <1>0 DEF UnlockInv, Unlock!TypeOK, UnlockTimerType
  <2>7. s3'.start = s7
    BY <1>4, <2>1, <2>2
  <2> QED BY <1>0, <1>2, <1>4, <1>5, <2>2, <2>4, <2>5, <2>6, <2>7 DEF UnlockInv,
     UnlockCallsInv, UnlockTimerInv, Unlock!LetThrough, Unlock!DialogThere
<1>6. CASE ~free
  <2> DEFINE k == IF s2 = "set" THEN "unlock" ELSE "passwd"
  <2>1. /\ s5' = Append(s5, k) /\ k \in {"passwd", "unlock"} /\ s6' = Len(s5) + 1
        /\ s9' = [s9 EXCEPT !.nested = s9.nested \/ s5 # <<>>]
        /\ ~s4' /\ UNCHANGED <<s8, s1, s2, s7, s10>>
        /\ k = "unlock" => s2 = "set"
    BY <1>2, <1>6
  <2> HIDE DEF k
  <2>2. s5' \in UnlockCallsType /\ Len(s5') = Len(s5) + 1
    BY <1>0, <2>1 DEF UnlockCallsType
  <2>3. /\ s9' \in UnlockHistType /\ s9'.late = s9.late /\ s9'.unmade = s9.unmade
        /\ s9'.nested = (s9.nested \/ s5 # <<>>)
    BY <1>0, <2>1 DEF UnlockHistType
  <2>4. Unlock!TypeOK'
    <3>1. s6' \in 0 .. MaxUses /\ Len(s5') <= MaxUses
      BY <1>0, <1>2, <2>1, <2>2
    <3>2. s4' \in BOOLEAN
      BY <1>2, <1>6
    <3> QED BY <1>4, <2>1, <2>2, <2>3, <3>1, <3>2 DEF UnlockInv, Unlock!TypeOK,
       UnlockTimerType, UnlockHistType, UnlockCallsType
  <2>5. UnlockCallsInv'
    <3>1. SUFFICES ASSUME ~s9'.nested PROVE UnlockCallsInv'
      BY DEF UnlockCallsInv
    <3>2. s5 = <<>> /\ Len(s5) = 0
      <4>1. s5 = <<>>
        BY <2>3, <3>1
      <4> QED BY <4>1
    <3>3. s5' = <<k>>
      BY <2>1, <3>2
    <3> QED BY <2>1, <2>2, <3>2, <3>3 DEF UnlockCallsInv
  <2> QED BY <2>1, <2>3, <2>4, <2>5 DEF UnlockInv, UnlockTimerInv, Unlock!LetThrough,
     Unlock!DialogThere
<1> QED BY <1>5, <1>6

\* No timer is of the type.
LEMMA UnlockNoTimerTyped == ASSUME MaxNow \in Nat PROVE Unlock!NoTimer \in UnlockTimerType
<1>1. 0 \in 0 .. MaxNow
  OBVIOUS
<1> QED BY <1>1 DEF Unlock!NoTimer, UnlockTimerType

\* ... the dialog that sets the password, ...
LEMMA UnlockPasswdStep ==
    ASSUME UnlockInv, MaxNow \in Nat, MaxUses \in Nat, NEW chosen \in BOOLEAN,
           Unlock!remmina_passwd(chosen) PROVE UnlockInv'
<1>0. /\ ~s10 /\ s5 # <<>> /\ Unlock!Top = "passwd" /\ UNCHANGED <<s1, s4, s7, s8>>
      /\ s9 \in UnlockHistType /\ s3 \in UnlockTimerType /\ Len(s5) \in Nat
  BY UnlockTyped DEF Unlock!remmina_passwd
<1>1. CASE Unlock!Mine
  <2>1. /\ s2' = IF chosen THEN "set" ELSE s2
        /\ s5' = Append(Unlock!Pop, "unlock") /\ UNCHANGED <<s3, s6, s10>>
        /\ s9' = [s9 EXCEPT !.unmade = s9.unmade \/ (~chosen /\ s2 = "none")]
    BY <1>1 DEF Unlock!remmina_passwd
  <2>2. /\ s9' \in UnlockHistType /\ s9'.late = s9.late /\ s9'.nested = s9.nested
        /\ s9'.unmade = (s9.unmade \/ (~chosen /\ s2 = "none"))
    BY <1>0, <2>1 DEF UnlockHistType
  <2>3. s5' \in UnlockCallsType /\ Len(s5') = Len(s5)
    BY <1>0, <2>1, UnlockPopped
  <2>4. Unlock!TypeOK'
    BY <1>0, <2>1, <2>2, <2>3 DEF UnlockInv, Unlock!TypeOK, UnlockHistType, UnlockCallsType
  <2>5. UnlockCallsInv'
    BY <1>0, <2>1, <2>2, <2>3 DEF UnlockInv, UnlockCallsInv
  <2> QED BY <1>0, <2>1, <2>2, <2>4, <2>5 DEF UnlockInv, UnlockTimerInv, Unlock!LetThrough,
     Unlock!DialogThere
<1>2. CASE ~Unlock!Mine /\ chosen
  <2>1. s10' = TRUE /\ UNCHANGED <<s2, s3, s5, s6, s9>>
    BY <1>2 DEF Unlock!remmina_passwd
  <2>2. s9.nested
    BY <1>0, <1>2 DEF UnlockInv, UnlockCallsInv, Unlock!Mine
  <2>3. Unlock!TypeOK'
    BY <1>0, <2>1 DEF UnlockInv, Unlock!TypeOK
  <2> QED BY <1>0, <2>1, <2>2, <2>3 DEF UnlockInv, UnlockCallsInv, UnlockTimerInv,
     Unlock!LetThrough, Unlock!DialogThere
<1>3. CASE ~Unlock!Mine /\ ~chosen
  <2>1. /\ s3' = Unlock!NoTimer /\ s5' = Unlock!Pop /\ s6' = 0 /\ UNCHANGED <<s2, s9, s10>>
    BY <1>3 DEF Unlock!remmina_passwd
  <2>2. s9.nested
    BY <1>0, <1>3 DEF UnlockInv, UnlockCallsInv, Unlock!Mine
  <2>3. Unlock!TypeOK'
    <3>1. s5' \in UnlockCallsType /\ Len(s5') <= MaxUses /\ s6' \in 0 .. MaxUses
      <4>1. Len(s5) <= MaxUses /\ Len(s5') = Len(s5) - 1
        BY <1>0, <2>1, UnlockPopped DEF UnlockInv, Unlock!TypeOK
      <4> QED BY <1>0, <2>1, <4>1, UnlockPopped
    <3>2. s3' \in UnlockTimerType
      BY <2>1, UnlockNoTimerTyped
    <3> QED BY <1>0, <2>1, <3>1, <3>2 DEF UnlockInv, Unlock!TypeOK, UnlockCallsType,
       UnlockTimerType
  <2>4. ~s3'.there
    BY <2>1 DEF Unlock!NoTimer
  <2> QED BY <1>0, <2>1, <2>2, <2>3, <2>4 DEF UnlockInv, UnlockCallsInv, UnlockTimerInv,
     Unlock!LetThrough, Unlock!DialogThere
<1> QED BY <1>1, <1>2, <1>3

\* ... the one that asks for it ...
LEMMA UnlockStep == ASSUME UnlockInv, MaxNow \in Nat, MaxUses \in Nat,
   NEW right \in BOOLEAN, Unlock!Unlock(right) PROVE UnlockInv'
<1>0. /\ ~s10 /\ s5 # <<>> /\ Unlock!Top = "unlock" /\ (right => s2 = "set")
      /\ UNCHANGED <<s1, s2, s9>>
      /\ s3 \in UnlockTimerType /\ Len(s5) \in Nat /\ s1 \in Nat /\ s1 \in 0 .. MaxNow
  BY UnlockTyped DEF Unlock!Unlock
<1>1. CASE ~Unlock!Mine \/ s2 = "none"
  <2>1. s10' = TRUE /\ UNCHANGED <<s3, s4, s5, s6, s7, s8>>
    BY <1>1 DEF Unlock!Unlock
  <2>2. s9.nested \/ s9.unmade
    <3>1. SUFFICES ASSUME ~s9.nested PROVE s9.unmade
      OBVIOUS
    <3>2. Len(s5) = 1 /\ Unlock!Mine
      <4>1. Len(s5) <= 1 /\ s6 = Len(s5) /\ Len(s5) >= 1
        BY <1>0, <3>1, UnlockPopped DEF UnlockInv, UnlockCallsInv
      <4> QED BY <1>0, <4>1 DEF Unlock!Mine
    <3> QED BY <1>0, <1>1, <3>1, <3>2, UnlockPopped DEF UnlockInv, UnlockCallsInv
  <2>3. Unlock!TypeOK'
    BY <1>0, <2>1 DEF UnlockInv, Unlock!TypeOK
  <2> QED BY <1>0, <2>1, <2>2, <2>3 DEF UnlockInv, UnlockCallsInv, UnlockTimerInv,
     Unlock!LetThrough, Unlock!DialogThere
<1>2. CASE Unlock!Mine /\ s2 # "none"
  <2>1. /\ s3' = Unlock!Started(s3) /\ s4' = (s4 \/ right)
        /\ s7' = (IF right THEN s1 ELSE s7) /\ s8' = (IF right THEN s1 ELSE s8)
        /\ s5' = Unlock!Pop /\ s6' = 0 /\ UNCHANGED s10
    BY <1>2 DEF Unlock!Unlock
  <2>2. /\ s3' \in UnlockTimerType /\ s3'.there = s3.there
        /\ s3.there => s3'.active /\ s3'.start = s1
    BY <1>0, <2>1 DEF Unlock!Started, UnlockTimerType
  <2>3. s6 # 0 /\ ~s4
    BY <1>0, <1>2, UnlockPopped DEF Unlock!Mine, UnlockInv, UnlockTimerInv
  <2>4. Unlock!TypeOK'
    <3>1. s5' \in UnlockCallsType /\ Len(s5') <= MaxUses /\ s6' \in 0 .. MaxUses
      <4>1. Len(s5) <= MaxUses /\ Len(s5') = Len(s5) - 1
        BY <1>0, <2>1, UnlockPopped DEF UnlockInv, Unlock!TypeOK
      <4> QED BY <1>0, <2>1, <4>1, UnlockPopped
    <3> QED BY <1>0, <2>1, <2>2, <3>1 DEF UnlockInv, Unlock!TypeOK, UnlockTimerType,
       UnlockCallsType
  <2>5. UnlockCallsInv'
    BY <1>0, <2>1, UnlockPopped DEF UnlockInv, UnlockCallsInv
  <2>6. UnlockTimerInv'
    BY <1>0, <2>1, <2>2, <2>3 DEF UnlockTimerInv
  <2> QED BY <1>0, <2>1, <2>4, <2>5, <2>6 DEF UnlockInv, Unlock!LetThrough,
     Unlock!DialogThere
<1> QED BY <1>1, <1>2

\* ... and its end without an answer keep the invariant.
LEMMA UnlockCancelStep == ASSUME UnlockInv, MaxNow \in Nat, MaxUses \in Nat,
   Unlock!Cancel PROVE UnlockInv'
<1>1. /\ s3' = Unlock!NoTimer /\ s5' = Unlock!Pop /\ s6' = 0 /\ s5 # <<>>
      /\ UNCHANGED <<s1, s2, s4, s7, s8, s9, s10>>
  BY DEF Unlock!Cancel
<1>2. Unlock!TypeOK'
  <2>1. s5' \in UnlockCallsType /\ Len(s5') <= MaxUses /\ s6' \in 0 .. MaxUses
    <3>1. Len(s5) <= MaxUses /\ Len(s5') = Len(s5) - 1 /\ Len(s5) \in Nat
      BY <1>1, UnlockPopped, UnlockTyped DEF UnlockInv, Unlock!TypeOK
    <3> QED BY <1>1, <3>1, UnlockPopped
  <2>2. s3' \in UnlockTimerType
    BY <1>1, UnlockNoTimerTyped
  <2> QED BY <1>1, <2>1, <2>2 DEF UnlockInv, Unlock!TypeOK, UnlockCallsType, UnlockTimerType
<1>3. UnlockCallsInv'
  BY <1>1, UnlockPopped, UnlockTyped DEF UnlockInv, UnlockCallsInv
<1>4. ~s3'.there
  BY <1>1 DEF Unlock!NoTimer
<1> QED BY <1>1, <1>2, <1>3, <1>4 DEF UnlockInv, UnlockTimerInv, Unlock!LetThrough,
   Unlock!DialogThere

\* Every step keeps the invariant.
LEMMA UnlockStepInv ==
    ASSUME UnlockInv, MaxNow \in Nat, MaxUses \in Nat, UnlockTimeout \in Nat,
           [Unlock!Next]_(Unlock!vars) PROVE UnlockInv'
<1>1. CASE UNCHANGED Unlock!vars
  BY <1>1 DEF Unlock!vars, UnlockInv, Unlock!TypeOK, UnlockCallsInv, UnlockTimerInv,
     Unlock!LetThrough, Unlock!DialogThere
<1> QED BY <1>1, UnlockTickStep, UnlockNewStep, UnlockPasswdStep, UnlockStep,
   UnlockCancelStep DEF Unlock!Next

-----------------------------------------------------------------------------
(* The clipboard of RDP (src/plugins/rdp/rdp_cliprdr.c).                   *)
(* The variables: s1 clip, s2 mutex, s3 main, s4 thread, s5 events, s6     *)
(* ui, s7 owner, s8 server, s9 wire, s10 copies, s11 sees, s12 odd, s13    *)
(* closed, s14 fault, s15 again.                                           *)

ClipBounds == MaxCopies \in Nat /\ MaxLocal \in Nat /\ MaxRequests \in Nat

ClipType == [format : RdpClipboard!Formats, wait : {RdpClipboard!None, "busy", "aborting"},
   data : RdpClipboard!Formats \cup {RdpClipboard!None}]
ClipMainType ==
    [at : {"loop", "free", "ask", "push", "wait", "iterate", "use"},
     info : RdpClipboard!Formats, ready : BOOLEAN, serving : BOOLEAN]
ClipStages == {"loop", "aborted", "list", "set", "data", "decode", "store", "signal", "get",
   "push", "reconnecting", "rejoined", "ended", "freed"}
ClipThreadType ==
    [at : ClipStages, msg : RdpClipboard!Messages \cup {"echo"},
     output : RdpClipboard!Formats \cup {RdpClipboard!None}]
ClipOwnerType == [who : {"me", "other"}, changed : BOOLEAN]
ClipServerType == [copies : 0 .. MaxCopies, asked : Nat]
ClipCopiesType == [local : 0 .. MaxLocal, asked : 0 .. MaxRequests]
ClipAgainType == [count : 0 .. MaxCopies, lost : BOOLEAN]
ClipEventNames == {"list", "echo", "ask", "answer", "end"}
ClipUiNames == {"set", "formats", "get"}

ClipTyped ==
    /\ s1 \in ClipType /\ s2 \in BOOLEAN /\ s3 \in ClipMainType /\ s4 \in ClipThreadType
    /\ s5 \in Seq(ClipEventNames) /\ s6 \in Seq(ClipUiNames) /\ s7 \in ClipOwnerType
    /\ s8 \in ClipServerType /\ s9 \in Seq(RdpClipboard!Messages) /\ s10 \in ClipCopiesType
    /\ s11 \in {"own", "local", "echo"} /\ s12 \in BOOLEAN /\ s13 \in BOOLEAN
    /\ s14 \in {RdpClipboard!None, "kind", "freed", "locked", "torn"} /\ s15 \in ClipAgainType
    /\ s3.at \in {"free", "ask", "push"} => s10.asked < MaxRequests

\* The thread waits for what it asks the main thread for, and serves a list to its end.
ClipGets ==
    /\ Once(s6, "get") /\ Once(s6, "formats") /\ ~(Has(s6, "get") /\ Has(s6, "formats"))
    /\ Has(s6, "get") => s4.at = "get" /\ s4.msg = "request" /\ ~s3.serving
    /\ Has(s6, "formats") => s4.at = "get" /\ s4.msg = "ready" /\ ~s3.serving
    /\ s3.serving => s4.at = "get" /\ s4.msg = "request"
    /\ s4.at \in {"aborted", "list", "set"} => s4.msg \in {"list", "empty"}
    /\ s4.at = "push" => s4.msg \in {"list", "echo"}

\* Until a connection is made again the main thread has the mutex from its request on and while
\* it goes on with its loop, and waits only for a request.
ClipWaits ==
    /\ s3.at \in {"free", "ask"} => s1.wait = RdpClipboard!None
    /\ s15.count = 0 =>
          /\ s2 <=> s3.at \in {"push", "iterate"}
          /\ s3.at \in {"push", "wait", "iterate"} => s1.wait # RdpClipboard!None

\* A request is on its way to the server, or its answer back.
ClipAnswering == s4.at \in {"data", "decode", "store", "signal"}
ClipInFlight == Has(s5, "ask") \/ s8.asked # 0 \/ Has(s9, "data") \/ ClipAnswering

ClipBusy ==
    s1.wait # RdpClipboard!None /\ s4.at \notin {"ended", "freed", "reconnecting"} =>
        ClipInFlight \/ s3.at = "push" \/ s15.lost

\* A connection that is lost takes what the server was asked with it.
ClipLost ==
    s4.at \in {"reconnecting", "rejoined"} =>
        s15.count # 0 /\ s8.asked = 0 /\ ~Has(s9, "data")

\* As long as nothing odd has happened there is one such request at most, and it is waited for.
ClipOneRequest ==
    ~s12 =>
        /\ ClipInFlight => s1.wait # RdpClipboard!None /\ s3.at # "push"
        /\ Once(s5, "ask") /\ Once(s9, "data") /\ s8.asked \in {0, 1}
        /\ Has(s5, "ask") => s8.asked = 0 /\ ~Has(s9, "data") /\ ~ClipAnswering
        /\ s8.asked # 0 => ~Has(s9, "data") /\ ~ClipAnswering
        /\ Has(s9, "data") => ~ClipAnswering

\* Then the data that is kept has the format that was last asked for.
ClipDataFits ==
    ~s12 =>
        /\ s1.data \in {RdpClipboard!None, s1.format}
        /\ s4.at = "store" => s4.output \in {RdpClipboard!None, s1.format}
        /\ s3.at \in {"push", "wait", "iterate", "use"} => s3.info = s1.format
        /\ s3.at \in {"ask", "push"} => s1.data = RdpClipboard!None
        /\ ClipInFlight => s1.data = RdpClipboard!None \/ s4.at = "signal"

\* A paste that waits when the session is closed stops before the session is freed.
ClipClosing ==
    /\ s3.at \in {"loop", "free", "ask", "push", "wait"} => ~s13
    /\ s3.at = "iterate" /\ s13 => ~s3.ready /\ s4.at # "freed" /\ s1.wait # "busy"
    /\ s3.at = "iterate" /\ s3.ready => s4.at \in {"ended", "freed"}

\* The server says that it is ready before anything else.
ReadyFirst(w) == Once(w, "ready") /\ (Has(w, "ready") => w[1] = "ready")

\* Until a connection is made again, the clipboard is not this widget's when it is announced.
ClipAnnounced ==
    s15.count = 0 =>
        /\ ~Has(s5, "echo") /\ s11 # "echo" /\ ReadyFirst(s9)
        /\ s4.at = "push" => s4.msg = "list"
        /\ Has(s9, "ready") => s4.at \in {"loop", "ended"}
        /\ Has(s9, "ready") \/ (s4.at = "get" /\ s4.msg = "ready") =>
              s7.who = "other" /\ ~Has(s6, "set")

ClipFaults ==
    /\ s14 = "kind" => s12
    /\ s14 = "freed" => ~s13
    /\ s14 \in {"locked", "torn"} => s15.count # 0

ClipInv ==
    /\ ClipTyped /\ ClipGets /\ ClipWaits /\ ClipBusy /\ ClipLost /\ ClipOneRequest
    /\ ClipDataFits /\ ClipClosing /\ ClipAnnounced /\ ClipFaults

\* The thread when it waits for what comes.
LEMMA ClipWaitingIs ==
    /\ RdpClipboard!Waiting \in ClipThreadType /\ RdpClipboard!Waiting.at = "loop"
    /\ RdpClipboard!Waiting.msg = "list" /\ RdpClipboard!Waiting.output = RdpClipboard!None
BY DEF RdpClipboard!Waiting, ClipThreadType, ClipStages, RdpClipboard!Messages

\* It holds when the session starts.
LEMMA ClipInitInv == ASSUME ClipBounds, RdpClipboard!Init PROVE ClipInv
<1>1. 0 \in 0 .. MaxCopies /\ 0 \in 0 .. MaxLocal /\ 0 \in 0 .. MaxRequests
  BY DEF ClipBounds
<1>2. s1 \in ClipType /\ s1.wait = RdpClipboard!None /\ s1.data = RdpClipboard!None
  BY DEF RdpClipboard!Init, ClipType, RdpClipboard!Formats
<1>3. s3 \in ClipMainType /\ s3.at = "loop" /\ ~s3.serving
  BY DEF RdpClipboard!Init, ClipMainType, RdpClipboard!Formats
<1>4. s4 \in ClipThreadType /\ s4.at = "loop"
  BY ClipWaitingIs DEF RdpClipboard!Init
<1>5. s7 \in ClipOwnerType /\ s7.who = "other"
  BY DEF RdpClipboard!Init, ClipOwnerType
<1>6. s8 \in ClipServerType /\ s8.asked = 0
  BY <1>1 DEF RdpClipboard!Init, ClipServerType
<1>7. s10 \in ClipCopiesType
  BY <1>1 DEF RdpClipboard!Init, ClipCopiesType
<1>8. /\ s5 \in Seq(ClipEventNames) /\ s6 \in Seq(ClipUiNames)
      /\ \A x : ~Has(s5, x) /\ ~Has(s6, x)
      /\ \A x : Once(s5, x) /\ Once(s6, x)
  BY DEF RdpClipboard!Init, Has, Once
<1>9. /\ s9 \in Seq(RdpClipboard!Messages) /\ ~Has(s9, "data") /\ Once(s9, "data")
      /\ ReadyFirst(s9)
  <2>1. s9 = <<"ready">>
    BY DEF RdpClipboard!Init
  <2>2. s9 \in Seq(RdpClipboard!Messages) /\ DOMAIN s9 = {1} /\ s9[1] = "ready"
    BY <2>1 DEF RdpClipboard!Messages
  <2> QED BY <2>2 DEF Has, Once, ReadyFirst
<1>10. s15 \in ClipAgainType /\ s15.count = 0
  BY <1>1 DEF RdpClipboard!Init, ClipAgainType
<1>11. ClipTyped
  BY <1>2, <1>3, <1>4, <1>5, <1>6, <1>7, <1>8, <1>9, <1>10 DEF RdpClipboard!Init, ClipTyped
<1>12. ~ClipInFlight
  BY <1>4, <1>6, <1>8, <1>9 DEF ClipInFlight, ClipAnswering
<1>13. ClipGets /\ ClipBusy /\ ClipLost /\ ClipClosing /\ ClipFaults
  <2>1. ClipGets
    BY <1>3, <1>4, <1>8 DEF RdpClipboard!Init, ClipGets
  <2>2. ClipBusy /\ ClipLost /\ ClipClosing /\ ClipFaults
    BY <1>2, <1>3, <1>4 DEF RdpClipboard!Init, ClipBusy, ClipLost, ClipClosing, ClipFaults,
       RdpClipboard!None
  <2> QED BY <2>1, <2>2
<1>16. ClipWaits
  <2>1. ~s2 /\ s3.at = "loop"
    BY <1>3 DEF RdpClipboard!Init
  <2>2. ~(s3.at \in {"push", "iterate"})
    BY <2>1
  <2>3. s2 <=> s3.at \in {"push", "iterate"}
    BY <2>1, <2>2
  <2> QED BY <2>1, <2>3 DEF ClipWaits
<1>14. ClipOneRequest /\ ClipDataFits
  BY <1>2, <1>3, <1>4, <1>6, <1>8, <1>9, <1>12 DEF ClipOneRequest, ClipDataFits,
     ClipAnswering
<1>15. ClipAnnounced
  BY <1>4, <1>5, <1>8, <1>9 DEF ClipAnnounced, RdpClipboard!Init
<1> QED BY <1>11, <1>13, <1>14, <1>15, <1>16 DEF ClipInv

\* And it implies the properties: the main thread never waits for itself, a paste is refused
\* no longer than a request is on its way, memory is freed as what it is.
LEMMA ClipInvMeans ==
    ASSUME ClipInv
    PROVE  RdpClipboard!TypeOK /\ RdpClipboard!NoSelfLock /\ RdpClipboard!BusyEnds
           /\ RdpClipboard!KindsKnown /\ RdpClipboard!CloseAborts /\ RdpClipboard!NoEcho
<1>1. RdpClipboard!TypeOK
  BY DEF ClipInv, ClipTyped, RdpClipboard!TypeOK, ClipType, ClipMainType, ClipStages,
     ClipThreadType, ClipOwnerType, ClipServerType, ClipCopiesType, ClipAgainType,
     ClipEventNames, ClipUiNames
<1>2. s8.asked \in Nat /\ s15.count \in 0 .. MaxCopies
  BY DEF ClipInv, ClipTyped, ClipServerType, ClipAgainType
<1>3. RdpClipboard!BusyEnds
  BY <1>2 DEF ClipInv, ClipBusy, RdpClipboard!BusyEnds, ClipInFlight, ClipAnswering, Has,
     RdpClipboard!Queued, RdpClipboard!OnWire
<1>4. RdpClipboard!NoEcho /\ RdpClipboard!NoSelfLock
  BY <1>2 DEF ClipInv, ClipAnnounced, ClipFaults, RdpClipboard!NoEcho, Has,
     RdpClipboard!Queued, RdpClipboard!NoSelfLock
<1> QED BY <1>1, <1>3, <1>4 DEF ClipInv, ClipTyped, ClipFaults,
   RdpClipboard!KindsKnown, RdpClipboard!CloseAborts, RdpClipboard!None

\* A message more at the end is not the one that the server is ready.
LEMMA ClipWireGrows ==
    ASSUME ClipInv, NEW m \in RdpClipboard!Messages \ {"ready"}, s9' = Append(s9, m)
    PROVE  /\ s9' \in Seq(RdpClipboard!Messages)
           /\ \A x : Has(s9', x) <=> Has(s9, x) \/ x = m
           /\ \A x : Once(s9, x) /\ (x = m => ~Has(s9, x)) => Once(s9', x)
           /\ ReadyFirst(s9) => ReadyFirst(s9')
<1>1. s9 \in Seq(RdpClipboard!Messages)
  BY DEF ClipInv, ClipTyped
<1>2. /\ s9' \in Seq(RdpClipboard!Messages)
      /\ \A x : Has(s9', x) <=> Has(s9, x) \/ x = m
      /\ \A x : Once(s9, x) /\ (x = m => ~Has(s9, x)) => Once(s9', x)
  BY <1>1, AppendHas
<1>3. ASSUME Has(s9, "ready") PROVE s9'[1] = s9[1]
  <2>1. 1 \in 1 .. Len(s9)
    BY <1>1, <1>3 DEF Has
  <2> QED BY <1>1, <2>1
<1> QED BY <1>2, <1>3 DEF ReadyFirst

\* The server copies, answers or pastes.
LEMMA ClipServerStep ==
    ASSUME ClipBounds, ClipInv,
           (\E list \in {"list", "empty"} : RdpClipboard!ServerCopies(list))
              \/ RdpClipboard!ServerAnswers \/ RdpClipboard!ServerPastes
    PROVE  ClipInv'
<1>0. UNCHANGED <<s1, s2, s3, s4, s5, s6, s7, s10, s14, s12, s13, s15>>
  BY DEF RdpClipboard!ServerCopies, RdpClipboard!ServerAnswers, RdpClipboard!ServerPastes
<1>1. /\ s8 \in ClipServerType /\ s8.copies \in 0 .. MaxCopies /\ s8.asked \in Nat
      /\ s9 \in Seq(RdpClipboard!Messages) /\ s15.count \in 0 .. MaxCopies
  BY DEF ClipInv, ClipTyped, ClipServerType, ClipAgainType
<1>2. \A m \in {"list", "empty", "data", "request"} : m \in RdpClipboard!Messages \ {"ready"}
  BY DEF RdpClipboard!Messages
<1>3. ASSUME NEW list \in {"list", "empty"}, RdpClipboard!ServerCopies(list) PROVE ClipInv'
  <2>1. /\ s8' = [s8 EXCEPT !.copies = s8.copies + 1] /\ s8.copies + s15.count < MaxCopies
        /\ s9' = Append(s9, list) /\ s11' = "own"
    BY <1>3 DEF RdpClipboard!ServerCopies
  <2>2. s8.copies + 1 \in 0 .. MaxCopies
    BY <1>1, <2>1 DEF ClipBounds
  <2>3. s8' \in ClipServerType /\ s8'.asked = s8.asked
    BY <1>1, <2>1, <2>2 DEF ClipServerType
  <2>4. /\ s9' \in Seq(RdpClipboard!Messages) /\ (Has(s9', "data") <=> Has(s9, "data"))
        /\ (Once(s9, "data") => Once(s9', "data")) /\ (Has(s9', "ready") <=> Has(s9, "ready"))
        /\ (ReadyFirst(s9) => ReadyFirst(s9'))
    BY <1>2, <2>1, ClipWireGrows
  <2>5. ClipTyped'
    BY <1>0, <2>1, <2>3, <2>4 DEF ClipInv, ClipTyped
  <2>6. ClipInFlight' <=> ClipInFlight
    BY <1>0, <2>3, <2>4 DEF ClipInFlight, ClipAnswering
  <2>7. ClipGets' /\ ClipWaits' /\ ClipBusy' /\ ClipLost' /\ ClipClosing' /\ ClipAnnounced'
        /\ ClipFaults'
    BY <1>0, <2>1, <2>3, <2>4, <2>6 DEF ClipInv, ClipGets, ClipWaits, ClipBusy, ClipLost,
       ClipClosing, ClipAnnounced, ClipFaults
  <2>8. ClipOneRequest' /\ ClipDataFits'
    BY <1>0, <2>3, <2>4, <2>6 DEF ClipInv, ClipOneRequest, ClipDataFits, ClipAnswering
  <2> QED BY <2>5, <2>7, <2>8 DEF ClipInv
<1>4. CASE RdpClipboard!ServerAnswers
  <2>1. /\ s8' = [s8 EXCEPT !.asked = s8.asked - 1] /\ s8.asked > 0
        /\ s9' = Append(s9, "data") /\ s11' = s11
    BY <1>4 DEF RdpClipboard!ServerAnswers
  <2>2. s8.asked - 1 \in Nat /\ s8.asked # 0
    BY <1>1, <2>1
  <2>3. s8' \in ClipServerType /\ s8'.asked = s8.asked - 1
    BY <1>1, <2>1, <2>2 DEF ClipServerType
  <2>4. /\ s9' \in Seq(RdpClipboard!Messages) /\ Has(s9', "data")
        /\ (Once(s9, "data") /\ ~Has(s9, "data") => Once(s9', "data"))
        /\ (Has(s9', "ready") <=> Has(s9, "ready")) /\ (ReadyFirst(s9) => ReadyFirst(s9'))
    BY <1>2, <2>1, ClipWireGrows
  <2>5. ClipTyped'
    BY <1>0, <2>1, <2>3, <2>4 DEF ClipInv, ClipTyped
  <2>6. ClipInFlight' /\ ClipInFlight
    BY <2>2, <2>4 DEF ClipInFlight
  <2>7. ~s12 => s8'.asked = 0
    BY <1>1, <2>2, <2>3 DEF ClipInv, ClipOneRequest
  <2>8. ClipOneRequest'
    BY <1>0, <2>2, <2>4, <2>6, <2>7 DEF ClipInv, ClipOneRequest, ClipAnswering
  <2>9. ClipGets' /\ ClipWaits' /\ ClipBusy' /\ ClipLost' /\ ClipClosing' /\ ClipAnnounced'
        /\ ClipFaults'
    BY <1>0, <2>1, <2>2, <2>4, <2>6 DEF ClipInv, ClipGets, ClipWaits, ClipBusy, ClipLost,
       ClipClosing, ClipAnnounced, ClipFaults
  <2>10. ClipDataFits'
    BY <1>0, <2>6 DEF ClipInv, ClipDataFits
  <2> QED BY <2>5, <2>8, <2>9, <2>10 DEF ClipInv
<1>5. CASE RdpClipboard!ServerPastes
  <2>1. s8' = s8 /\ s9' = Append(s9, "request") /\ s11' = s11
    BY <1>5 DEF RdpClipboard!ServerPastes
  <2>4. /\ s9' \in Seq(RdpClipboard!Messages) /\ (Has(s9', "data") <=> Has(s9, "data"))
        /\ (Once(s9, "data") => Once(s9', "data")) /\ (Has(s9', "ready") <=> Has(s9, "ready"))
        /\ (ReadyFirst(s9) => ReadyFirst(s9'))
    BY <1>2, <2>1, ClipWireGrows
  <2>5. ClipTyped'
    BY <1>0, <2>1, <2>4 DEF ClipInv, ClipTyped
  <2>6. ClipInFlight' <=> ClipInFlight
    BY <1>0, <2>1, <2>4 DEF ClipInFlight, ClipAnswering
  <2>7. ClipGets' /\ ClipWaits' /\ ClipBusy' /\ ClipLost' /\ ClipClosing' /\ ClipAnnounced'
        /\ ClipFaults'
    BY <1>0, <2>1, <2>4, <2>6 DEF ClipInv, ClipGets, ClipWaits, ClipBusy, ClipLost,
       ClipClosing, ClipAnnounced, ClipFaults
  <2>8. ClipOneRequest' /\ ClipDataFits'
    BY <1>0, <2>1, <2>4, <2>6 DEF ClipInv, ClipOneRequest, ClipDataFits, ClipAnswering
  <2> QED BY <2>5, <2>7, <2>8 DEF ClipInv
<1> QED BY <1>3, <1>4, <1>5

\* The thread takes a message of the server.
LEMMA ClipReceivesStep == ASSUME ClipBounds, ClipInv, RdpClipboard!Receives PROVE ClipInv'
<1> DEFINE m == Head(s9)
           busy == m \in {"list", "empty"} /\ s1.wait = "busy"
<1>0. /\ UNCHANGED <<s2, s3, s5, s7, s8, s10, s11, s14, s12, s13, s15>>
      /\ s4.at = "loop" /\ s9 # <<>> /\ s9' = Tail(s9)
      /\ s4' = [at |-> CASE m \in {"list", "empty"} -> IF busy THEN "aborted" ELSE "list"
                             [] m = "data" -> "data"
                             [] OTHER -> "get",
                    msg |-> m, output |-> RdpClipboard!None]
      /\ s1' = IF busy THEN [s1 EXCEPT !.wait = "aborting"] ELSE s1
      /\ s6' = CASE m = "request" -> Append(s6, "get")
                 [] m = "ready" -> Append(s6, "formats")
                 [] OTHER -> s6
  BY DEF RdpClipboard!Receives
<1>1. /\ s9 \in Seq(RdpClipboard!Messages) /\ s1 \in ClipType /\ s6 \in Seq(ClipUiNames)
  BY DEF ClipInv, ClipTyped
<1>2. /\ s9' \in Seq(RdpClipboard!Messages) /\ m \in RdpClipboard!Messages /\ Has(s9, m)
      /\ (Has(s9', "data") => Has(s9, "data"))
      /\ (Has(s9, "data") /\ m # "data" => Has(s9', "data"))
      /\ (Once(s9, "data") => Once(s9', "data"))
      /\ (Once(s9, "data") /\ m = "data" => ~Has(s9', "data"))
  BY <1>0, <1>1, TailHas
<1>14. ReadyFirst(s9) => ~Has(s9', "ready") /\ Once(s9', "ready")
  <2>1. s9[1] = m
    BY <1>0, <1>1
  <2>2. /\ (Has(s9', "ready") => Has(s9, "ready"))
        /\ (Once(s9, "ready") => Once(s9', "ready"))
        /\ (Once(s9, "ready") /\ m = "ready" => ~Has(s9', "ready"))
    BY <1>0, <1>1, TailHas
  <2> QED BY <2>1, <2>2 DEF ReadyFirst
<1> HIDE DEF m
<1>3. /\ s4' \in ClipThreadType
      /\ s4'.at \in {"aborted", "list", "data", "get"}
      /\ (s4'.at = "data" <=> m = "data")
      /\ (s4'.at = "get" <=> m \in {"request", "ready"})
      /\ s4'.msg = m
  <2>1. CASE m \in {"list", "empty"}
    <3>1. CASE busy
      BY <1>0, <1>2, <2>1, <3>1 DEF ClipThreadType, ClipStages, RdpClipboard!Messages
    <3>2. CASE ~busy
      BY <1>0, <1>2, <2>1, <3>2 DEF ClipThreadType, ClipStages, RdpClipboard!Messages
    <3> QED BY <3>1, <3>2
  <2>2. CASE m = "data"
    BY <1>0, <1>2, <2>2 DEF ClipThreadType, ClipStages, RdpClipboard!Messages
  <2>3. CASE m \in {"request", "ready"}
    BY <1>0, <1>2, <2>3 DEF ClipThreadType, ClipStages, RdpClipboard!Messages
  <2> QED BY <1>2, <2>1, <2>2, <2>3 DEF RdpClipboard!Messages
<1>4. /\ s1' \in ClipType /\ s1'.format = s1.format /\ s1'.data = s1.data
      /\ s1'.wait \in {s1.wait, "aborting"}
         /\ (s1'.wait = RdpClipboard!None <=> s1.wait = RdpClipboard!None)
  <2>1. CASE busy
    BY <1>0, <1>1, <2>1 DEF ClipType, RdpClipboard!None
  <2>2. CASE ~busy
    BY <1>0, <1>1, <2>2 DEF ClipType
  <2> QED BY <2>1, <2>2
<1> HIDE DEF busy
<1>5. /\ ~Has(s6, "get") /\ Once(s6, "get") /\ ~Has(s6, "formats") /\ Once(s6, "formats")
      /\ ~s3.serving
  BY <1>0 DEF ClipInv, ClipGets
<1>6. /\ s6' \in Seq(ClipUiNames) /\ Once(s6', "get") /\ Once(s6', "formats")
      /\ (Has(s6', "get") <=> m = "request") /\ (Has(s6', "formats") <=> m = "ready")
      /\ (Has(s6', "set") <=> Has(s6, "set"))
  <2>1. CASE m = "request"
    BY <1>0, <1>1, <1>5, <2>1, AppendHas DEF ClipUiNames
  <2>2. CASE m = "ready"
    <3>1. s6' = Append(s6, "formats")
      BY <1>0, <2>2
    <3> QED BY <1>1, <1>5, <2>2, <3>1, AppendHas DEF ClipUiNames
  <2>3. CASE m \notin {"request", "ready"}
    <3>1. s6' = s6
      BY <1>0, <2>3
    <3> QED BY <1>1, <1>5, <2>3, <3>1
  <2> QED BY <2>1, <2>2, <2>3
<1>7. ClipTyped'
  BY <1>0, <1>2, <1>3, <1>4, <1>6 DEF ClipInv, ClipTyped
<1>8. ~ClipAnswering /\ (ClipAnswering' <=> m = "data")
  BY <1>0, <1>3 DEF ClipAnswering
<1>9. ClipInFlight' <=> ClipInFlight
  BY <1>0, <1>2, <1>8 DEF ClipInFlight
<1>13. ClipGets'
  BY <1>0, <1>2, <1>3, <1>5, <1>6 DEF ClipGets, RdpClipboard!Messages
<1>10. ClipWaits' /\ ClipBusy' /\ ClipLost' /\ ClipClosing' /\ ClipFaults'
  BY <1>0, <1>3, <1>4, <1>9 DEF ClipInv, ClipWaits, ClipBusy, ClipLost, ClipClosing,
     ClipFaults
<1>15. ClipAnnounced'
  <2> SUFFICES ASSUME s15.count = 0 PROVE ClipAnnounced'
    BY <1>0 DEF ClipAnnounced
  <2>1. /\ ~Has(s9', "ready") /\ Once(s9', "ready") /\ ~Has(s5', "echo") /\ s11' # "echo"
        /\ (m = "ready" => s7'.who = "other" /\ ~Has(s6', "set"))
    BY <1>0, <1>2, <1>6, <1>14 DEF ClipInv, ClipAnnounced
  <2> QED BY <1>3, <2>1 DEF ClipAnnounced, ReadyFirst
<1>11. ClipOneRequest'
  BY <1>0, <1>2, <1>4, <1>8, <1>9 DEF ClipInv, ClipOneRequest
<1>12. ClipDataFits'
  BY <1>0, <1>3, <1>4, <1>9 DEF ClipInv, ClipDataFits
<1> QED BY <1>7, <1>10, <1>11, <1>12, <1>13, <1>15 DEF ClipInv

\* What is kept is freed as what it is, until something odd has happened.
LEMMA ClipFreesRight ==
    ASSUME ClipInv
    PROVE  /\ RdpClipboard!FreesWrong => s12
           /\ [s1 EXCEPT !.data = RdpClipboard!None] \in ClipType
           /\ [s1 EXCEPT !.data = RdpClipboard!None].data = RdpClipboard!None
           /\ [s1 EXCEPT !.data = RdpClipboard!None].wait = s1.wait
           /\ [s1 EXCEPT !.data = RdpClipboard!None].format = s1.format
BY DEF ClipInv, ClipTyped, ClipType, ClipDataFits, RdpClipboard!FreesWrong

\* What a step of the thread leaves alone.
ClipThreadRest == UNCHANGED <<s2, s3, s5, s7, s8, s9, s10, s11, s13, s15>>

\* The thread goes on to another stage.
LEMMA ClipStageIs ==
    ASSUME ClipInv, NEW a \in ClipStages, s4' = [s4 EXCEPT !.at = a]
    PROVE  s4' \in ClipThreadType /\ s4'.at = a /\ s4'.msg = s4.msg
           /\ s4'.output = s4.output
BY DEF ClipInv, ClipTyped, ClipThreadType

\* It announces the local clipboard, whoever owns it.
LEMMA ClipAnnounceStep == ASSUME ClipBounds, ClipInv, RdpClipboard!Announce PROVE ClipInv'
<1>0. /\ UNCHANGED <<s1, s2, s3, s6, s7, s8, s9, s10, s11, s12, s13, s14, s15>>
      /\ s4.at = "push" /\ s4' = RdpClipboard!Waiting /\ s5' = Append(s5, s4.msg)
  BY DEF RdpClipboard!Announce
<1>1. s4' \in ClipThreadType /\ s4'.at = "loop"
  BY <1>0, ClipWaitingIs
<1>2. /\ s4.msg \in {"list", "echo"} /\ (s15.count = 0 => s4.msg = "list")
      /\ ~s3.serving /\ ~Has(s6, "get") /\ ~Has(s6, "formats")
  BY <1>0 DEF ClipInv, ClipGets, ClipAnnounced
<1>3. /\ s5' \in Seq(ClipEventNames) /\ (Has(s5', "ask") <=> Has(s5, "ask"))
      /\ (Once(s5, "ask") => Once(s5', "ask"))
      /\ (Has(s5', "echo") <=> Has(s5, "echo") \/ s4.msg = "echo")
  BY <1>0, <1>2, AppendHas DEF ClipInv, ClipTyped, ClipEventNames
<1>4. ClipTyped'
  BY <1>0, <1>1, <1>3 DEF ClipInv, ClipTyped
<1>5. ~ClipAnswering /\ ~ClipAnswering' /\ (ClipInFlight' <=> ClipInFlight)
  BY <1>0, <1>1, <1>3 DEF ClipInFlight, ClipAnswering
<1>6. ClipGets' /\ ClipWaits' /\ ClipBusy' /\ ClipLost' /\ ClipClosing' /\ ClipAnnounced'
      /\ ClipFaults'
  BY <1>0, <1>1, <1>2, <1>3, <1>5 DEF ClipInv, ClipGets, ClipWaits, ClipBusy, ClipLost,
     ClipClosing, ClipAnnounced, ClipFaults
<1>7. ClipOneRequest' /\ ClipDataFits'
  BY <1>0, <1>1, <1>3, <1>5 DEF ClipInv, ClipOneRequest, ClipDataFits
<1> QED BY <1>4, <1>6, <1>7 DEF ClipInv

\* It frees what is kept before a list or an answer is looked at.
LEMMA ClipFreeStep == ASSUME ClipBounds, ClipInv, RdpClipboard!FreeForList
   \/ RdpClipboard!FreeForData PROVE ClipInv'
<1>0. /\ ClipThreadRest /\ UNCHANGED <<s6, s12>>
      /\ s1' = [s1 EXCEPT !.data = RdpClipboard!None]
      /\ s14' = IF RdpClipboard!FreesWrong THEN "kind" ELSE RdpClipboard!None
      /\ \/ s4.at \in {"aborted", "list"} /\ s4' = [s4 EXCEPT !.at = "set"]
         \/ s4.at = "data" /\ s4' = [s4 EXCEPT !.at = "decode"]
  BY DEF RdpClipboard!FreeForList, RdpClipboard!FreeForData, ClipThreadRest
<1>1. /\ s4' \in ClipThreadType /\ s4'.msg = s4.msg
      /\ \/ s4.at \in {"aborted", "list"} /\ s4'.at = "set"
         \/ s4.at = "data" /\ s4'.at = "decode"
  BY <1>0, ClipStageIs DEF ClipStages
<1>2. /\ s1' \in ClipType /\ s1'.data = RdpClipboard!None /\ s1'.wait = s1.wait
      /\ s1'.format = s1.format /\ (RdpClipboard!FreesWrong => s12)
  BY <1>0, ClipFreesRight
<1>3. ClipTyped'
  BY <1>0, <1>1, <1>2 DEF ClipInv, ClipTyped, ClipThreadRest
<1>4. (ClipAnswering' <=> ClipAnswering) /\ (ClipInFlight' <=> ClipInFlight)
  BY <1>0, <1>1 DEF ClipInFlight, ClipAnswering, ClipThreadRest
<1>5. ClipGets' /\ ClipWaits' /\ ClipBusy' /\ ClipLost' /\ ClipClosing' /\ ClipAnnounced'
  BY <1>0, <1>1, <1>2, <1>4 DEF ClipInv, ClipGets, ClipWaits, ClipBusy, ClipLost,
     ClipClosing, ClipAnnounced, ClipThreadRest
<1>6. ClipOneRequest' /\ ClipDataFits'
  BY <1>0, <1>1, <1>2, <1>4 DEF ClipInv, ClipOneRequest, ClipDataFits, ClipThreadRest
<1>7. ClipFaults'
  BY <1>0, <1>2 DEF ClipInv, ClipFaults, RdpClipboard!None
<1> QED BY <1>3, <1>5, <1>6, <1>7 DEF ClipInv

\* It lets the main thread own the clipboard.
LEMMA ClipSetStep == ASSUME ClipBounds, ClipInv, RdpClipboard!SetForList PROVE ClipInv'
<1>0. /\ ClipThreadRest /\ s14' = s14
      /\ s4.at = "set" /\ s4' = RdpClipboard!Waiting
      /\ s1' = IF s4.msg = "list" THEN s1
                 ELSE [s1 EXCEPT !.format = "text", !.data = "text"]
      /\ s6' = Append(s6, "set")
      /\ s12' = (s12 \/ (s4.msg = "empty"))
  BY DEF RdpClipboard!SetForList, ClipThreadRest
<1>1. s4' \in ClipThreadType /\ s4'.at = "loop"
  BY <1>0, ClipWaitingIs
<1>2. /\ s6 \in Seq(ClipUiNames) /\ s1 \in ClipType /\ s12 \in BOOLEAN
      /\ s4.msg \in {"list", "empty"} /\ Once(s6, "get") /\ ~Has(s6, "get")
      /\ Once(s6, "formats") /\ ~Has(s6, "formats") /\ ~s3.serving
      /\ (s15.count = 0 => ~Has(s9, "ready"))
  BY <1>0 DEF ClipInv, ClipTyped, ClipGets, ClipAnnounced
<1>3. s1' \in ClipType /\ s1'.wait = s1.wait /\ (~s12' => s1' = s1 /\ ~s12)
  BY <1>0, <1>2 DEF ClipType, RdpClipboard!Formats
<1>4. /\ s6' \in Seq(ClipUiNames) /\ Once(s6', "get") /\ ~Has(s6', "get")
      /\ Once(s6', "formats") /\ ~Has(s6', "formats")
  BY <1>0, <1>2, AppendHas DEF ClipUiNames
<1>5. ClipTyped'
  BY <1>0, <1>1, <1>3, <1>4 DEF ClipInv, ClipTyped, ClipThreadRest
<1>6. ~ClipAnswering /\ ~ClipAnswering' /\ (ClipInFlight' <=> ClipInFlight)
  BY <1>0, <1>1 DEF ClipInFlight, ClipAnswering, ClipThreadRest
<1>7. ClipGets' /\ ClipWaits' /\ ClipBusy' /\ ClipLost' /\ ClipClosing' /\ ClipAnnounced'
      /\ ClipFaults'
  BY <1>0, <1>1, <1>2, <1>3, <1>4, <1>6
  DEF ClipInv, ClipGets, ClipWaits, ClipBusy, ClipLost, ClipClosing, ClipAnnounced,
     ClipFaults, ClipThreadRest
<1>8. ClipOneRequest' /\ ClipDataFits'
  BY <1>0, <1>1, <1>3, <1>6 DEF ClipInv, ClipOneRequest, ClipDataFits, ClipThreadRest
<1> QED BY <1>5, <1>7, <1>8 DEF ClipInv

\* It decodes an answer and stores it.
LEMMA ClipDecodeStep == ASSUME ClipBounds, ClipInv, RdpClipboard!Decode
   \/ RdpClipboard!Store PROVE ClipInv'
<1>0. ClipThreadRest /\ UNCHANGED <<s6, s12, s14>>
  BY DEF RdpClipboard!Decode, RdpClipboard!Store, ClipThreadRest
<1>1. /\ s4 \in ClipThreadType /\ s1 \in ClipType /\ s1.format \in RdpClipboard!Formats
      /\ s4.output \in RdpClipboard!Formats \cup {RdpClipboard!None}
  BY DEF ClipInv, ClipTyped, ClipThreadType, ClipType
<1>2. CASE RdpClipboard!Decode
  <2>1. PICK o \in {RdpClipboard!None, s1.format} :
           s4' = [s4 EXCEPT !.at = "store", !.output = o]
    BY <1>2 DEF RdpClipboard!Decode
  <2>2. s4' \in ClipThreadType /\ s4'.at = "store" /\ s4'.output = o
    BY <1>1, <2>1 DEF ClipThreadType, ClipStages
  <2>3. s4.at = "decode" /\ s1' = s1
    BY <1>2 DEF RdpClipboard!Decode
  <2>4. ClipTyped'
    BY <1>0, <2>2, <2>3 DEF ClipInv, ClipTyped, ClipThreadRest
  <2>5. ClipAnswering /\ ClipAnswering' /\ (ClipInFlight' <=> ClipInFlight)
    BY <1>0, <2>2, <2>3 DEF ClipInFlight, ClipAnswering, ClipThreadRest
  <2>6. ClipGets' /\ ClipWaits' /\ ClipBusy' /\ ClipLost' /\ ClipClosing' /\ ClipAnnounced'
        /\ ClipFaults'
    BY <1>0, <2>2, <2>3, <2>5 DEF ClipInv, ClipGets, ClipWaits, ClipBusy, ClipLost,
       ClipClosing, ClipAnnounced, ClipFaults, ClipThreadRest
  <2>7. ClipOneRequest' /\ ClipDataFits'
    BY <1>0, <2>2, <2>3, <2>5 DEF ClipInv, ClipOneRequest, ClipDataFits, ClipThreadRest
  <2> QED BY <2>4, <2>6, <2>7 DEF ClipInv
<1>3. CASE RdpClipboard!Store
  <2>1. /\ s4.at = "store" /\ s1' = [s1 EXCEPT !.data = s4.output]
        /\ s4' = [s4 EXCEPT !.at = "signal"]
    BY <1>3 DEF RdpClipboard!Store
  <2>2. s4' \in ClipThreadType /\ s4'.at = "signal"
    BY <2>1, ClipStageIs DEF ClipStages
  <2>3. /\ s1' \in ClipType /\ s1'.data = s4.output /\ s1'.wait = s1.wait
        /\ s1'.format = s1.format
    BY <1>1, <2>1 DEF ClipType
  <2>4. ClipTyped'
    BY <1>0, <2>2, <2>3 DEF ClipInv, ClipTyped, ClipThreadRest
  <2>5. ClipAnswering /\ ClipAnswering' /\ ClipInFlight /\ ClipInFlight'
    BY <1>0, <2>1, <2>2 DEF ClipInFlight, ClipAnswering, ClipThreadRest
  <2>6. ClipGets' /\ ClipWaits' /\ ClipBusy' /\ ClipLost' /\ ClipClosing' /\ ClipAnnounced'
        /\ ClipFaults'
    BY <1>0, <2>1, <2>2, <2>3, <2>5 DEF ClipInv, ClipGets, ClipWaits, ClipBusy, ClipLost,
       ClipClosing, ClipAnnounced, ClipFaults, ClipThreadRest
  <2>7. ClipOneRequest'
    BY <1>0, <2>3, <2>5 DEF ClipInv, ClipOneRequest, ClipThreadRest
  <2>8. s3.at \notin {"ask", "push"} \/ s12
    BY <2>5 DEF ClipInv, ClipWaits, ClipOneRequest
  <2>9. ClipDataFits'
    BY <1>0, <2>1, <2>2, <2>3, <2>8 DEF ClipInv, ClipDataFits, ClipThreadRest
  <2> QED BY <2>4, <2>6, <2>7, <2>9 DEF ClipInv
<1> QED BY <1>2, <1>3

\* The main thread is at another place.
LEMMA ClipPlaceIs ==
    ASSUME ClipInv, NEW a \in {"loop", "free", "ask", "push", "wait", "iterate", "use"},
           s3' = [s3 EXCEPT !.at = a]
    PROVE  s3' \in ClipMainType /\ s3'.at = a /\ s3'.info = s3.info /\ s3'.ready = s3.ready
           /\ s3'.serving = s3.serving
BY DEF ClipInv, ClipTyped, ClipMainType

\* The thread tells that the answer is there.
LEMMA ClipSignalStep == ASSUME ClipBounds, ClipInv, RdpClipboard!Signal PROVE ClipInv'
<1>0. /\ UNCHANGED <<s2, s5, s6, s7, s8, s9, s10, s11, s14, s12, s13, s15>>
      /\ s4.at = "signal" /\ ~s2 /\ s1' = [s1 EXCEPT !.wait = RdpClipboard!None]
      /\ s4' = RdpClipboard!Waiting
      /\ s3' = IF s3.at = "wait" THEN [s3 EXCEPT !.at = "use"] ELSE s3
  BY DEF RdpClipboard!Signal
<1>1. s4' \in ClipThreadType /\ s4'.at = "loop"
  BY <1>0, ClipWaitingIs
<1>2. /\ s1' \in ClipType /\ s1'.wait = RdpClipboard!None /\ s1'.data = s1.data
      /\ s1'.format = s1.format
  BY <1>0 DEF ClipInv, ClipTyped, ClipType
<1>3. /\ s3 \in ClipMainType /\ s3' \in ClipMainType /\ s3'.info = s3.info
      /\ s3'.at = (IF s3.at = "wait" THEN "use" ELSE s3.at)
      /\ s3'.ready = s3.ready /\ s3'.serving = s3.serving
  <2>1. CASE s3.at = "wait"
    BY <1>0, <2>1, ClipPlaceIs DEF ClipInv, ClipTyped
  <2>2. CASE s3.at # "wait"
    BY <1>0, <2>2 DEF ClipInv, ClipTyped
  <2> QED BY <2>1, <2>2
<1>4. s15.count = 0 => s3.at \notin {"push", "iterate"}
  BY <1>0 DEF ClipInv, ClipWaits
<1>5. /\ s3'.at # "wait" /\ (s3'.at \in {"free", "ask", "push", "iterate"} => s3.at = s3'.at)
      /\ (s3'.at = "loop" => s3.at = "loop")
      /\ ~s3.serving /\ ~Has(s6, "get") /\ ~Has(s6, "formats")
  BY <1>0, <1>3 DEF ClipInv, ClipGets
<1>6. ClipTyped'
  BY <1>0, <1>1, <1>2, <1>3, <1>5 DEF ClipInv, ClipTyped
<1>7. ClipAnswering /\ ~ClipAnswering' /\ (~s12 => ~ClipInFlight')
  BY <1>0, <1>1 DEF ClipAnswering, ClipInv, ClipOneRequest, ClipInFlight
<1>8. ClipGets' /\ ClipBusy' /\ ClipLost' /\ ClipAnnounced' /\ ClipFaults'
  BY <1>0, <1>1, <1>2, <1>3, <1>5 DEF ClipInv, ClipGets, ClipBusy, ClipLost,
     ClipAnnounced, ClipFaults
<1>9. ClipWaits' /\ ClipClosing'
  BY <1>0, <1>1, <1>2, <1>3, <1>4, <1>5 DEF ClipInv, ClipWaits, ClipClosing, RdpClipboard!None
<1>10. ClipOneRequest'
  BY <1>0, <1>7 DEF ClipInv, ClipOneRequest, ClipInFlight
<1>11. ClipDataFits'
  BY <1>0, <1>1, <1>2, <1>3, <1>5, <1>7 DEF ClipInv, ClipDataFits
<1> QED BY <1>6, <1>8, <1>9, <1>10, <1>11 DEF ClipInv

\* It processes an event of the main thread.
LEMMA ClipProcessEventStep == ASSUME ClipBounds, ClipInv,
   RdpClipboard!ProcessEvent PROVE ClipInv'
<1> DEFINE e == Head(s5)
<1>0. /\ UNCHANGED <<s1, s2, s3, s6, s7, s9, s10, s14, s12, s13, s15>>
      /\ s4.at = "loop" /\ s5 # <<>> /\ s5' = Tail(s5)
      /\ s8' = IF e = "ask" THEN [s8 EXCEPT !.asked = s8.asked + 1] ELSE s8
      /\ s11' = CASE e = "list" -> "local" [] e = "echo" -> "echo" [] OTHER -> s11
      /\ s4' = IF e = "end" THEN [s4 EXCEPT !.at = "ended"] ELSE s4
  BY DEF RdpClipboard!ProcessEvent
<1>1. s5 \in Seq(ClipEventNames) /\ s8 \in ClipServerType /\ s8.asked \in Nat
  BY DEF ClipInv, ClipTyped, ClipServerType
<1>2. /\ s5' \in Seq(ClipEventNames) /\ e \in ClipEventNames /\ Has(s5, e)
      /\ \A x : Has(s5', x) => Has(s5, x)
      /\ \A x : Has(s5, x) /\ x # e => Has(s5', x)
      /\ \A x : Once(s5, x) => Once(s5', x)
      /\ (Once(s5, e) => ~Has(s5', e))
  BY <1>0, <1>1, TailHas
<1> HIDE DEF e
<1>3. /\ s4' \in ClipThreadType /\ s4'.at \in {"loop", "ended"}
      /\ (e # "end" => s4'.at = "loop")
  <2>1. CASE e = "end"
    BY <1>0, <2>1, ClipStageIs DEF ClipStages
  <2>2. CASE e # "end"
    BY <1>0, <2>2 DEF ClipInv, ClipTyped
  <2> QED BY <2>1, <2>2
<1>4. /\ s8' \in ClipServerType /\ s8'.asked \in Nat
      /\ (e = "ask" => s8'.asked = s8.asked + 1 /\ s8'.asked # 0)
      /\ (e # "ask" => s8'.asked = s8.asked)
  <2>1. CASE e = "ask"
    <3>1. s8.asked + 1 \in Nat /\ s8.asked + 1 # 0
      BY <1>1
    <3> QED BY <1>0, <1>1, <2>1, <3>1 DEF ClipServerType
  <2>2. CASE e # "ask"
    BY <1>0, <1>1, <2>2
  <2> QED BY <2>1, <2>2
<1>5. s11' \in {"own", "local", "echo"} /\ (s11' = "echo" => s11 = "echo" \/ Has(s5, "echo"))
  <2>1. CASE e \in {"list", "echo"}
    BY <1>0, <1>2, <2>1
  <2>2. CASE e \notin {"list", "echo"}
    <3>1. s11' = s11
      BY <1>0, <2>2
    <3> QED BY <3>1 DEF ClipInv, ClipTyped
  <2> QED BY <2>1, <2>2
<1>6. ClipTyped'
  BY <1>0, <1>2, <1>3, <1>4, <1>5 DEF ClipInv, ClipTyped
<1>7. ~ClipAnswering /\ ~ClipAnswering' /\ (ClipInFlight' <=> ClipInFlight)
  <2>1. ~ClipAnswering /\ ~ClipAnswering'
    BY <1>0, <1>3 DEF ClipAnswering
  <2>2. CASE e = "ask"
    <3>1. ClipInFlight
      BY <1>2, <2>2 DEF ClipInFlight
    <3>2. s8'.asked # 0
      BY <1>4, <2>2
    <3>3. ClipInFlight'
      BY <3>2 DEF ClipInFlight
    <3> QED BY <2>1, <3>1, <3>3
  <2>3. CASE e # "ask"
    BY <1>0, <1>2, <1>4, <2>1, <2>3 DEF ClipInFlight
  <2> QED BY <2>1, <2>2, <2>3
<1>8. ClipAnnounced'
  BY <1>0, <1>2, <1>3, <1>5 DEF ClipInv, ClipAnnounced
<1>12. ~s3.serving /\ ~Has(s6, "get") /\ ~Has(s6, "formats")
  BY <1>0 DEF ClipInv, ClipGets
<1>9. ClipGets' /\ ClipWaits' /\ ClipClosing' /\ ClipFaults' /\ ClipBusy' /\ ClipLost'
  BY <1>0, <1>3, <1>7, <1>12 DEF ClipInv, ClipGets, ClipWaits, ClipClosing, ClipFaults,
     ClipBusy, ClipLost
<1>10. ClipOneRequest'
  <2>1. CASE e = "ask"
    <3>1. ~s12 => s8.asked = 0 /\ ~Has(s9, "data") /\ ~Has(s5', "ask")
      BY <1>2, <2>1 DEF ClipInv, ClipOneRequest
    <3>2. ~s12 => s8'.asked = 1
      BY <1>4, <2>1, <3>1
    <3> QED BY <1>0, <1>2, <1>7, <3>1, <3>2 DEF ClipInv, ClipOneRequest
  <2>2. CASE e # "ask"
    BY <1>0, <1>2, <1>4, <1>7, <2>2 DEF ClipInv, ClipOneRequest
  <2> QED BY <2>1, <2>2
<1>11. ClipDataFits'
  BY <1>0, <1>3, <1>7 DEF ClipInv, ClipDataFits
<1> QED BY <1>6, <1>8, <1>9, <1>10, <1>11 DEF ClipInv

\* The server, or a reconnection that fails, ends the session.
LEMMA ClipServerEndsStep == ASSUME ClipBounds, ClipInv, RdpClipboard!ServerEnds PROVE ClipInv'
<1>0. /\ ClipThreadRest /\ UNCHANGED <<s1, s6, s14, s12>>
      /\ s4.at \in {"loop", "reconnecting"} /\ s4' = [s4 EXCEPT !.at = "ended"]
  BY DEF RdpClipboard!ServerEnds, ClipThreadRest
<1>1. s4' \in ClipThreadType /\ s4'.at = "ended"
  BY <1>0, ClipStageIs DEF ClipStages
<1>2. ClipTyped'
  BY <1>0, <1>1 DEF ClipInv, ClipTyped, ClipThreadRest
<1>3. ~ClipAnswering /\ ~ClipAnswering' /\ (ClipInFlight' <=> ClipInFlight)
  BY <1>0, <1>1 DEF ClipInFlight, ClipAnswering, ClipThreadRest
<1>6. ~s3.serving /\ ~Has(s6, "get") /\ ~Has(s6, "formats")
  BY <1>0 DEF ClipInv, ClipGets
<1>4. ClipGets' /\ ClipWaits' /\ ClipClosing' /\ ClipFaults' /\ ClipBusy' /\ ClipLost'
      /\ ClipAnnounced'
  BY <1>0, <1>1, <1>6 DEF ClipInv, ClipGets, ClipWaits, ClipClosing, ClipFaults, ClipBusy,
     ClipLost, ClipAnnounced, ClipThreadRest
<1>5. ClipOneRequest' /\ ClipDataFits'
  BY <1>0, <1>1, <1>3 DEF ClipInv, ClipOneRequest, ClipDataFits, ClipThreadRest
<1> QED BY <1>2, <1>4, <1>5 DEF ClipInv

\* The connection is lost.
LEMMA ClipLoseStep == ASSUME ClipBounds, ClipInv, RdpClipboard!Lose PROVE ClipInv'
<1>0. /\ UNCHANGED <<s1, s2, s3, s5, s6, s7, s10, s11, s12, s13, s14>>
      /\ s4.at = "loop" /\ s4' = [s4 EXCEPT !.at = "reconnecting"]
      /\ s9' = <<>> /\ s8' = [s8 EXCEPT !.asked = 0]
      /\ s15' = [s15 EXCEPT !.count = s15.count + 1] /\ s8.copies + s15.count < MaxCopies
  BY DEF RdpClipboard!Lose
<1>1. s4' \in ClipThreadType /\ s4'.at = "reconnecting"
  BY <1>0, ClipStageIs DEF ClipStages
<1>2. s8' \in ClipServerType /\ s8'.asked = 0
  BY <1>0 DEF ClipInv, ClipTyped, ClipServerType
<1>3. s15' \in ClipAgainType /\ s15'.count # 0
  <2>1. s15 \in ClipAgainType /\ s15.count \in 0 .. MaxCopies /\ s8.copies \in 0 .. MaxCopies
    BY DEF ClipInv, ClipTyped, ClipAgainType, ClipServerType
  <2>2. s15.count + 1 \in 0 .. MaxCopies /\ s15.count + 1 # 0
    BY <1>0, <2>1 DEF ClipBounds
  <2> QED BY <1>0, <2>1, <2>2 DEF ClipAgainType
<1>4. s9' \in Seq(RdpClipboard!Messages) /\ \A x : ~Has(s9', x) /\ Once(s9', x)
  BY <1>0 DEF Has, Once
<1>5. ClipTyped'
  BY <1>0, <1>1, <1>2, <1>3, <1>4 DEF ClipInv, ClipTyped
<1>6. ~ClipAnswering' /\ (ClipInFlight' => ClipInFlight)
  BY <1>0, <1>1, <1>2, <1>4 DEF ClipInFlight, ClipAnswering
<1>7. ~s3.serving /\ ~Has(s6, "get") /\ ~Has(s6, "formats")
  BY <1>0 DEF ClipInv, ClipGets
<1>8. ClipGets' /\ ClipWaits' /\ ClipBusy' /\ ClipLost' /\ ClipClosing' /\ ClipAnnounced'
      /\ ClipFaults'
  BY <1>0, <1>1, <1>2, <1>3, <1>4, <1>7 DEF ClipInv, ClipGets, ClipWaits, ClipBusy,
     ClipLost, ClipClosing, ClipAnnounced, ClipFaults
<1>9. ClipOneRequest' /\ ClipDataFits'
  BY <1>0, <1>1, <1>2, <1>4, <1>6 DEF ClipInv, ClipOneRequest, ClipDataFits
<1> QED BY <1>5, <1>8, <1>9 DEF ClipInv

\* The channel is set up once more: nobody waits now.
LEMMA ClipRejoinStep == ASSUME ClipBounds, ClipInv, RdpClipboard!Rejoin PROVE ClipInv'
<1>0. /\ UNCHANGED <<s3, s5, s6, s7, s8, s9, s10, s11, s13>> /\ s14 = RdpClipboard!None
      /\ s4.at = "reconnecting" /\ s4' = [s4 EXCEPT !.at = "rejoined"]
      /\ s1' = [s1 EXCEPT !.wait = RdpClipboard!None] /\ s2' = FALSE
      /\ s14' \in {RdpClipboard!None, "torn"}
      /\ s15' = [s15 EXCEPT !.lost = FALSE]
      /\ s12' = (s12 \/ Has(s5, "ask"))
  BY DEF RdpClipboard!Rejoin, RdpClipboard!Running, RdpClipboard!Queued, Has
<1>1. s4' \in ClipThreadType /\ s4'.at = "rejoined"
  BY <1>0, ClipStageIs DEF ClipStages
<1>2. /\ s1' \in ClipType /\ s1'.wait = RdpClipboard!None /\ s1'.data = s1.data
      /\ s1'.format = s1.format
  BY <1>0 DEF ClipInv, ClipTyped, ClipType
<1>3. s15' \in ClipAgainType /\ s15'.count = s15.count /\ s15.count # 0
  BY <1>0 DEF ClipInv, ClipTyped, ClipAgainType, ClipLost
<1>4. s12' \in BOOLEAN /\ (~s12' => ~s12 /\ ~Has(s5, "ask"))
  BY <1>0 DEF ClipInv, ClipTyped, Has
<1>5. ClipTyped'
  BY <1>0, <1>1, <1>2, <1>3, <1>4 DEF ClipInv, ClipTyped
<1>6. ~ClipAnswering' /\ s8.asked = 0 /\ ~Has(s9, "data") /\ (~s12' => ~ClipInFlight')
  BY <1>0, <1>1, <1>4 DEF ClipInv, ClipLost, ClipInFlight, ClipAnswering
<1>7. ~s3.serving /\ ~Has(s6, "get") /\ ~Has(s6, "formats")
  BY <1>0 DEF ClipInv, ClipGets
<1>8. ClipGets' /\ ClipWaits' /\ ClipBusy' /\ ClipLost' /\ ClipClosing' /\ ClipAnnounced'
      /\ ClipFaults'
  BY <1>0, <1>1, <1>2, <1>3, <1>6, <1>7 DEF ClipInv, ClipGets, ClipWaits, ClipBusy,
     ClipLost, ClipClosing, ClipAnnounced, ClipFaults, RdpClipboard!None
<1>9. ClipOneRequest' /\ ClipDataFits'
  BY <1>0, <1>1, <1>2, <1>4, <1>6 DEF ClipInv, ClipOneRequest, ClipDataFits
<1> QED BY <1>5, <1>8, <1>9 DEF ClipInv

\* The connection is there again.
LEMMA ClipResumeStep == ASSUME ClipBounds, ClipInv, RdpClipboard!Resume PROVE ClipInv'
<1>0. /\ UNCHANGED <<s1, s2, s3, s5, s6, s7, s8, s10, s11, s12, s13, s14, s15>>
      /\ s4.at = "rejoined" /\ s4' = RdpClipboard!Waiting /\ s9' = <<"ready">>
  BY DEF RdpClipboard!Resume
<1>1. s4' \in ClipThreadType /\ s4'.at = "loop"
  BY <1>0, ClipWaitingIs
<1>2. s9' \in Seq(RdpClipboard!Messages) /\ ~Has(s9', "data") /\ Once(s9', "data")
  <2>1. s9' \in Seq(RdpClipboard!Messages) /\ DOMAIN s9' = {1} /\ s9'[1] = "ready"
    BY <1>0 DEF RdpClipboard!Messages
  <2> QED BY <2>1 DEF Has, Once
<1>3. s15.count # 0 /\ s8.asked = 0 /\ ~Has(s9, "data")
  BY <1>0 DEF ClipInv, ClipLost
<1>4. ClipTyped'
  BY <1>0, <1>1, <1>2 DEF ClipInv, ClipTyped
<1>5. ~ClipAnswering' /\ (ClipInFlight' <=> ClipInFlight)
  BY <1>0, <1>1, <1>2, <1>3 DEF ClipInFlight, ClipAnswering
<1>6. ~s3.serving /\ ~Has(s6, "get") /\ ~Has(s6, "formats")
  BY <1>0 DEF ClipInv, ClipGets
<1>7. ClipGets' /\ ClipWaits' /\ ClipBusy' /\ ClipLost' /\ ClipClosing' /\ ClipAnnounced'
      /\ ClipFaults'
  BY <1>0, <1>1, <1>3, <1>5, <1>6 DEF ClipInv, ClipGets, ClipWaits, ClipBusy, ClipLost,
     ClipClosing, ClipAnnounced, ClipFaults
<1>8. ClipOneRequest' /\ ClipDataFits'
  BY <1>0, <1>1, <1>2, <1>3, <1>5 DEF ClipInv, ClipOneRequest, ClipDataFits
<1> QED BY <1>4, <1>7, <1>8 DEF ClipInv

\* What a step of the main thread leaves alone.
ClipMainRest == UNCHANGED <<s4, s6, s8, s9, s11, s15>>

\* An event is queued, unless the connection is made again.
LEMMA ClipPushIs ==
    ASSUME ClipInv, NEW e \in ClipEventNames, RdpClipboard!Push(e)
    PROVE  /\ s5' \in Seq(ClipEventNames)
           /\ \A x : x # e => (Has(s5', x) <=> Has(s5, x)) /\ (Once(s5, x) => Once(s5', x))
           /\ Has(s5, e) => Has(s5', e)
           /\ ~Has(s5, e) /\ Once(s5, e) => Once(s5', e)
           /\ s4.at \notin {"reconnecting", "rejoined"} => Has(s5', e)
           /\ s4.at \in {"reconnecting", "rejoined"} => s5' = s5
<1>1. s5 \in Seq(ClipEventNames)
  BY DEF ClipInv, ClipTyped
<1>2. CASE s4.at \in {"reconnecting", "rejoined"}
  BY <1>1, <1>2 DEF RdpClipboard!Push, RdpClipboard!Reconnecting
<1>3. CASE s4.at \notin {"reconnecting", "rejoined"}
  <2>1. s5' = Append(s5, e)
    BY <1>3 DEF RdpClipboard!Push, RdpClipboard!Reconnecting
  <2> QED BY <1>1, <1>3, <2>1, AppendHas
<1> QED BY <1>2, <1>3

\* An application pastes, or the main thread itself, in its own loop or in the one of a paste.
LEMMA ClipPasteStep == ASSUME ClipBounds, ClipInv, NEW f \in RdpClipboard!Formats,
   RdpClipboard!Paste(f) PROVE ClipInv'
<1>0. /\ ClipMainRest /\ UNCHANGED <<s1, s2, s5, s7, s10, s12>>
      /\ s3.at \in {"loop", "iterate"} /\ s1.wait = RdpClipboard!None
      /\ s10.asked < MaxRequests /\ s14 = RdpClipboard!None
  BY DEF RdpClipboard!Paste, ClipMainRest, RdpClipboard!Looping, RdpClipboard!Running
<1>5. (ClipAnswering' <=> ClipAnswering) /\ (ClipInFlight' <=> ClipInFlight)
  BY <1>0 DEF ClipInFlight, ClipAnswering, ClipMainRest
<1>8. CASE s3.at = "iterate"
  <2>1. s15.count # 0
    BY <1>0, <1>8 DEF ClipInv, ClipWaits
  <2>2. s3' = s3 /\ s13' = s13 /\ s14' \in {RdpClipboard!None, "locked", "torn"}
    BY <1>0, <1>8 DEF RdpClipboard!Paste
  <2>3. ClipTyped'
    BY <1>0, <2>2 DEF ClipInv, ClipTyped, ClipMainRest
  <2>4. ClipGets' /\ ClipWaits' /\ ClipBusy' /\ ClipLost' /\ ClipClosing' /\ ClipAnnounced'
    BY <1>0, <1>5, <2>2 DEF ClipInv, ClipGets, ClipWaits, ClipBusy, ClipLost, ClipClosing,
       ClipAnnounced, ClipMainRest
  <2>5. ClipFaults'
    BY <1>0, <2>1, <2>2 DEF ClipFaults, ClipMainRest, RdpClipboard!None
  <2>6. ClipOneRequest' /\ ClipDataFits'
    BY <1>0, <1>5, <2>2 DEF ClipInv, ClipOneRequest, ClipDataFits, ClipMainRest
  <2> QED BY <2>3, <2>4, <2>5, <2>6 DEF ClipInv
<1>9. CASE s3.at = "loop"
  <2>2. /\ s14' = s14 /\ s13' = FALSE
        /\ s3' = [s3 EXCEPT !.at = IF s1.format = f /\ s1.data # RdpClipboard!None
                                     THEN "use" ELSE "free",
                            !.info = f, !.ready = FALSE]
    BY <1>9 DEF RdpClipboard!Paste
  <2>3. /\ s3' \in ClipMainType /\ s3'.at \in {"use", "free"} /\ s3'.info = f
        /\ (s3'.at = "use" => s1.format = f) /\ s3'.serving = s3.serving
    <3>1. CASE s1.format = f /\ s1.data # RdpClipboard!None
      BY <2>2, <3>1 DEF ClipInv, ClipTyped, ClipMainType
    <3>2. CASE ~(s1.format = f /\ s1.data # RdpClipboard!None)
      BY <2>2, <3>2 DEF ClipInv, ClipTyped, ClipMainType
    <3> QED BY <3>1, <3>2
  <2>4. ClipTyped'
    BY <1>0, <2>2, <2>3 DEF ClipInv, ClipTyped, ClipMainRest
  <2>6. ClipGets' /\ ClipWaits' /\ ClipBusy' /\ ClipLost' /\ ClipClosing' /\ ClipAnnounced'
        /\ ClipFaults'
    BY <1>0, <1>5, <1>9, <2>2, <2>3
    DEF ClipInv, ClipGets, ClipWaits, ClipBusy, ClipLost, ClipClosing, ClipAnnounced,
       ClipFaults, ClipMainRest
  <2>7. ClipOneRequest' /\ ClipDataFits'
    BY <1>0, <1>5, <1>9, <2>3 DEF ClipInv, ClipOneRequest, ClipDataFits, ClipMainRest
  <2> QED BY <2>4, <2>6, <2>7 DEF ClipInv
<1> QED BY <1>0, <1>8, <1>9

\* What is kept is freed for the paste.
LEMMA ClipFreeForPasteStep == ASSUME ClipBounds, ClipInv,
   RdpClipboard!FreeForPaste PROVE ClipInv'
<1>0. /\ ClipMainRest /\ UNCHANGED <<s2, s5, s7, s10, s12, s13>>
      /\ s3.at = "free" /\ s3' = [s3 EXCEPT !.at = "ask"]
      /\ s1' = [s1 EXCEPT !.data = RdpClipboard!None]
      /\ s14' = IF RdpClipboard!FreesWrong THEN "kind" ELSE RdpClipboard!None
  BY DEF RdpClipboard!FreeForPaste, ClipMainRest
<1>1. s3' \in ClipMainType /\ s3'.at = "ask" /\ s3'.serving = s3.serving
  BY <1>0, ClipPlaceIs
<1>2. /\ s1' \in ClipType /\ s1'.data = RdpClipboard!None /\ s1'.wait = s1.wait
      /\ s1'.format = s1.format /\ (RdpClipboard!FreesWrong => s12)
  BY <1>0, ClipFreesRight
<1>3. ClipTyped'
  BY <1>0, <1>1, <1>2 DEF ClipInv, ClipTyped, ClipMainRest
<1>4. (ClipAnswering' <=> ClipAnswering) /\ (ClipInFlight' <=> ClipInFlight)
  BY <1>0 DEF ClipInFlight, ClipAnswering, ClipMainRest
<1>5. ClipGets' /\ ClipWaits' /\ ClipBusy' /\ ClipLost' /\ ClipClosing' /\ ClipAnnounced'
  BY <1>0, <1>1, <1>2, <1>4 DEF ClipInv, ClipGets, ClipWaits, ClipBusy, ClipLost,
     ClipClosing, ClipAnnounced, ClipMainRest
<1>6. ClipOneRequest' /\ ClipDataFits'
  BY <1>0, <1>1, <1>2, <1>4 DEF ClipInv, ClipOneRequest, ClipDataFits, ClipMainRest
<1>7. ClipFaults'
  BY <1>0, <1>2 DEF ClipInv, ClipFaults, RdpClipboard!None, ClipMainRest
<1> QED BY <1>3, <1>5, <1>6, <1>7 DEF ClipInv

\* The clipboard is busy from now on.
LEMMA ClipAskServerStep == ASSUME ClipBounds, ClipInv, RdpClipboard!AskServer PROVE ClipInv'
<1>0. /\ ClipMainRest /\ UNCHANGED <<s5, s7, s10, s12, s13, s14>>
      /\ s3.at = "ask" /\ s3' = [s3 EXCEPT !.at = "push"] /\ s2' = TRUE
      /\ s1' = [s1 EXCEPT !.format = s3.info, !.wait = "busy"]
  BY DEF RdpClipboard!AskServer, ClipMainRest
<1>1. s3' \in ClipMainType /\ s3'.at = "push" /\ s3'.info = s3.info /\ s3'.serving = s3.serving
  BY <1>0, ClipPlaceIs
<1>2. /\ s1' \in ClipType /\ s1'.format = s3.info /\ s1'.wait = "busy"
      /\ s1'.data = s1.data
  BY <1>0 DEF ClipInv, ClipTyped, ClipType, ClipMainType
<1>5. ClipTyped'
  BY <1>0, <1>1, <1>2 DEF ClipInv, ClipTyped, ClipMainRest
<1>6. (ClipAnswering' <=> ClipAnswering) /\ (ClipInFlight' <=> ClipInFlight)
  BY <1>0 DEF ClipInFlight, ClipAnswering, ClipMainRest
<1>7. ~s12 => ~ClipInFlight
  BY <1>0 DEF ClipInv, ClipWaits, ClipOneRequest
<1>8. ClipGets' /\ ClipWaits' /\ ClipBusy' /\ ClipLost' /\ ClipClosing' /\ ClipAnnounced'
      /\ ClipFaults'
  BY <1>0, <1>1, <1>2
  DEF ClipInv, ClipGets, ClipWaits, ClipBusy, ClipLost, ClipClosing, ClipAnnounced,
     ClipFaults, ClipMainRest, RdpClipboard!None
<1>9. ClipOneRequest'
  BY <1>0, <1>6, <1>7 DEF ClipInv, ClipOneRequest, ClipMainRest
<1>10. ClipDataFits'
  <2>1. ~s12 => s1.data = RdpClipboard!None /\ s4.at # "store"
    BY <1>0, <1>7 DEF ClipInv, ClipDataFits, ClipInFlight, ClipAnswering
  <2> QED BY <1>0, <1>1, <1>2, <2>1 DEF ClipDataFits, ClipMainRest
<1> QED BY <1>5, <1>8, <1>9, <1>10 DEF ClipInv

\* The request is on its way, or is dropped.
LEMMA ClipPushRequestStep == ASSUME ClipBounds, ClipInv,
   RdpClipboard!PushRequest PROVE ClipInv'
<1>0. /\ UNCHANGED <<s1, s4, s6, s7, s8, s9, s11, s13, s14>>
      /\ s3.at = "push" /\ s2' = FALSE /\ RdpClipboard!Push("ask")
      /\ s3' = [s3 EXCEPT !.at = IF s1.wait = "busy" THEN "wait" ELSE "use"]
      /\ s10' = [s10 EXCEPT !.asked = s10.asked + 1]
      /\ s15' = [s15 EXCEPT !.lost = s4.at = "rejoined" /\ s1.wait # RdpClipboard!None]
      /\ s12' = (s12 \/ (s1.wait = RdpClipboard!None
                         /\ s4.at \notin {"reconnecting", "rejoined"}))
  BY DEF RdpClipboard!PushRequest, RdpClipboard!Reconnecting
<1>1. /\ s3' \in ClipMainType /\ s3'.at \in {"wait", "use"} /\ s3'.info = s3.info
      /\ s3'.serving = s3.serving /\ (s3'.at = "wait" => s1.wait = "busy")
  <2>1. CASE s1.wait = "busy"
    BY <1>0, <2>1, ClipPlaceIs
  <2>2. CASE s1.wait # "busy"
    BY <1>0, <2>2, ClipPlaceIs
  <2> QED BY <2>1, <2>2
<1>2. /\ s5' \in Seq(ClipEventNames) /\ (Has(s5', "echo") <=> Has(s5, "echo"))
      /\ (~Has(s5, "ask") /\ Once(s5, "ask") => Once(s5', "ask"))
      /\ (s4.at \notin {"reconnecting", "rejoined"} => Has(s5', "ask"))
      /\ (s4.at \in {"reconnecting", "rejoined"} => s5' = s5)
  BY <1>0, ClipPushIs DEF ClipEventNames
<1>3. s10' \in ClipCopiesType
  <2>1. s10 \in ClipCopiesType /\ s10.asked \in 0 .. MaxRequests /\ s10.asked < MaxRequests
    BY <1>0 DEF ClipInv, ClipTyped, ClipCopiesType
  <2>2. s10.asked + 1 \in 0 .. MaxRequests
    BY <2>1 DEF ClipBounds
  <2> QED BY <1>0, <2>1, <2>2 DEF ClipCopiesType
<1>4. /\ s15' \in ClipAgainType /\ s15'.count = s15.count
      /\ (s4.at = "rejoined" /\ s1.wait # RdpClipboard!None => s15'.lost)
  BY <1>0 DEF ClipInv, ClipTyped, ClipAgainType
<1>5. /\ s12' \in BOOLEAN
      /\ (~s12' => ~s12 /\ (s4.at \notin {"reconnecting", "rejoined"} =>
                              s1.wait # RdpClipboard!None))
  BY <1>0 DEF ClipInv, ClipTyped
<1>6. ClipTyped'
  BY <1>0, <1>1, <1>2, <1>3, <1>4, <1>5 DEF ClipInv, ClipTyped
<1>7. /\ ~s12 => ~ClipInFlight
      /\ (s4.at \in {"reconnecting", "rejoined"} => (ClipInFlight' <=> ClipInFlight))
      /\ (s4.at \notin {"reconnecting", "rejoined"} => ClipInFlight')
      /\ (ClipAnswering' <=> ClipAnswering)
  BY <1>0, <1>2 DEF ClipInv, ClipOneRequest, ClipInFlight, ClipAnswering
<1>8. ClipGets' /\ ClipLost' /\ ClipAnnounced' /\ ClipFaults'
  BY <1>0, <1>1, <1>2, <1>4, <1>5 DEF ClipInv, ClipGets, ClipLost, ClipAnnounced, ClipFaults
<1>9. ClipBusy'
  BY <1>0, <1>4, <1>7 DEF ClipBusy
<1>10. ClipWaits' /\ ClipClosing'
  <2>1. s1' = s1 /\ s2' = FALSE /\ s3'.at \in {"wait", "use"}
        /\ (s3'.at = "wait" => s1.wait # RdpClipboard!None)
    BY <1>0, <1>1 DEF RdpClipboard!None
  <2>2. s2' <=> s3'.at \in {"push", "iterate"}
    <3>1. ~s2' /\ ~(s3'.at \in {"push", "iterate"})
      BY <2>1
    <3> QED BY <2>1, <3>1
  <2>5. ClipWaits'
    BY <2>1, <2>2 DEF ClipWaits
  <2>3. s13' = s13 /\ ~s13
    BY <1>0 DEF ClipInv, ClipClosing
  <2>4. ClipClosing'
    BY <2>1, <2>3 DEF ClipClosing
  <2> QED BY <2>4, <2>5
<1>11. ClipOneRequest'
  <2> SUFFICES ASSUME ~s12' PROVE ClipOneRequest'
    BY DEF ClipOneRequest
  <2>1. ~s12 /\ ~ClipInFlight /\ Once(s9, "data") /\ s8.asked \in {0, 1} /\ Once(s5, "ask")
    BY <1>5, <1>7 DEF ClipInv, ClipOneRequest
  <2>2. ~Has(s5, "ask") /\ s8.asked = 0 /\ ~Has(s9, "data") /\ ~ClipAnswering
    BY <2>1 DEF ClipInFlight
  <2>3. ClipInFlight' => s1.wait # RdpClipboard!None
    BY <1>5, <1>7, <2>1
  <2> QED BY <1>0, <1>1, <1>2, <1>7, <2>1, <2>2, <2>3 DEF ClipOneRequest
<1>12. ClipDataFits'
  BY <1>0, <1>1, <1>5 DEF ClipInv, ClipDataFits
<1> QED BY <1>6, <1>8, <1>9, <1>10, <1>11, <1>12 DEF ClipInv

\* The wait is interrupted for an iteration of the loop.
LEMMA ClipIterateStep == ASSUME ClipBounds, ClipInv, RdpClipboard!Iterate PROVE ClipInv'
<1>0. /\ ClipMainRest /\ UNCHANGED <<s1, s5, s7, s10, s12, s13, s14>>
      /\ s3.at = "wait" /\ s2' = TRUE
      /\ s3' = [s3 EXCEPT !.at = "iterate", !.ready = s4.at = "ended"]
  BY DEF RdpClipboard!Iterate, ClipMainRest
<1>1. /\ s3' \in ClipMainType /\ s3'.at = "iterate" /\ s3'.info = s3.info
      /\ (s3'.ready => s4.at = "ended") /\ s3'.serving = s3.serving
  <2>1. CASE s4.at = "ended"
    BY <1>0, <2>1 DEF ClipInv, ClipTyped, ClipMainType
  <2>2. CASE s4.at # "ended"
    BY <1>0, <2>2 DEF ClipInv, ClipTyped, ClipMainType
  <2> QED BY <2>1, <2>2
<1>2. ClipTyped'
  BY <1>0, <1>1 DEF ClipInv, ClipTyped, ClipMainRest
<1>3. (ClipAnswering' <=> ClipAnswering) /\ (ClipInFlight' <=> ClipInFlight)
  BY <1>0 DEF ClipInFlight, ClipAnswering, ClipMainRest
<1>4. ClipGets' /\ ClipWaits' /\ ClipBusy' /\ ClipLost' /\ ClipClosing' /\ ClipAnnounced'
      /\ ClipFaults'
  BY <1>0, <1>1, <1>3 DEF ClipInv, ClipGets, ClipWaits, ClipBusy, ClipLost, ClipClosing,
     ClipAnnounced, ClipFaults, ClipMainRest
<1>5. ClipOneRequest' /\ ClipDataFits'
  BY <1>0, <1>1, <1>3 DEF ClipInv, ClipOneRequest, ClipDataFits, ClipMainRest
<1> QED BY <1>2, <1>4, <1>5 DEF ClipInv

\* After it the wait goes on or is over.
LEMMA ClipAgainStep == ASSUME ClipBounds, ClipInv, NEW over \in BOOLEAN,
   RdpClipboard!Again(over) PROVE ClipInv'
<1>0. /\ ClipMainRest /\ UNCHANGED <<s1, s5, s7, s10, s12, s13>>
      /\ s3.at = "iterate" /\ s2' = FALSE /\ (over \/ s1.wait = "busy")
      /\ s3' = [s3 EXCEPT !.at = IF over THEN "use" ELSE "wait"]
      /\ s14' = IF s4.at # "freed" THEN RdpClipboard!None ELSE "freed"
  BY DEF RdpClipboard!Again, ClipMainRest, RdpClipboard!Alive
<1>1. /\ s3' \in ClipMainType /\ s3'.at \in {"use", "wait"} /\ s3'.info = s3.info
      /\ (s3'.at = "wait" => s1.wait = "busy") /\ s3'.serving = s3.serving
  <2>1. CASE over
    BY <1>0, <2>1, ClipPlaceIs
  <2>2. CASE ~over
    BY <1>0, <2>2, ClipPlaceIs
  <2> QED BY <2>1, <2>2
<1>2. ClipTyped'
  BY <1>0, <1>1 DEF ClipInv, ClipTyped, ClipMainRest
<1>3. (ClipAnswering' <=> ClipAnswering) /\ (ClipInFlight' <=> ClipInFlight)
  BY <1>0 DEF ClipInFlight, ClipAnswering, ClipMainRest
<1>4. ClipGets' /\ ClipWaits' /\ ClipBusy' /\ ClipLost' /\ ClipClosing' /\ ClipAnnounced'
  <2>1. ClipGets' /\ ClipLost' /\ ClipAnnounced'
    BY <1>0, <1>1 DEF ClipInv, ClipGets, ClipLost, ClipAnnounced, ClipMainRest
  <2>2. ClipBusy'
    BY <1>0, <1>1, <1>3 DEF ClipInv, ClipBusy, ClipMainRest
  <2>3. ClipWaits'
    <3>1. s1' = s1 /\ s2' = FALSE /\ s3'.at \in {"use", "wait"}
          /\ (s3'.at = "wait" => s1.wait # RdpClipboard!None)
      BY <1>0, <1>1 DEF RdpClipboard!None
    <3>2. ~s2' /\ ~(s3'.at \in {"push", "iterate"})
      BY <3>1
    <3>3. s2' <=> s3'.at \in {"push", "iterate"}
      BY <3>1, <3>2
    <3> QED BY <3>1, <3>3 DEF ClipWaits
  <2>4. ClipClosing'
    <3>1. s1' = s1 /\ s13' = s13 /\ s3'.at \in {"use", "wait"}
      BY <1>0, <1>1
    <3>2. s3'.at = "wait" => ~s13
      BY <1>0, <1>1 DEF ClipInv, ClipClosing
    <3> QED BY <3>1, <3>2 DEF ClipClosing
  <2> QED BY <2>1, <2>2, <2>3, <2>4
<1>5. ClipOneRequest' /\ ClipDataFits'
  BY <1>0, <1>1, <1>3 DEF ClipInv, ClipOneRequest, ClipDataFits, ClipMainRest
<1>6. ClipFaults'
  BY <1>0 DEF ClipInv, ClipClosing, ClipFaults, RdpClipboard!None
<1> QED BY <1>2, <1>4, <1>5, <1>6 DEF ClipInv

\* The data is used, if there is any.
LEMMA ClipUseStep == ASSUME ClipBounds, ClipInv, RdpClipboard!Use PROVE ClipInv'
<1>0. /\ ClipMainRest /\ UNCHANGED <<s2, s5, s7, s10>> /\ s13' = FALSE
      /\ s3.at = "use" /\ s14 = RdpClipboard!None
      /\ s3' = [s3 EXCEPT !.at = "loop", !.info = "text", !.ready = FALSE]
      /\ s12' = (s12 \/ (s1.data # RdpClipboard!None /\ s4.at = "signal"))
      /\ IF s1.data = RdpClipboard!None THEN UNCHANGED <<s1, s14>>
         ELSE /\ s1' = [s1 EXCEPT !.wait = RdpClipboard!None]
              /\ s14' = IF s1.data # s3.info THEN "kind" ELSE RdpClipboard!None
  BY DEF RdpClipboard!Use, ClipMainRest, RdpClipboard!Running
<1>1. s3' \in ClipMainType /\ s3'.at = "loop" /\ s3'.serving = s3.serving
  BY <1>0 DEF ClipInv, ClipTyped, ClipMainType, RdpClipboard!Formats
<1>2. s12' \in BOOLEAN /\ (s12 => s12')
      /\ (~s12' => s1.data = RdpClipboard!None \/ s4.at # "signal")
  BY <1>0 DEF ClipInv, ClipTyped
<1>3. /\ s1' \in ClipType /\ s1'.data = s1.data /\ s1'.format = s1.format
      /\ (s1'.wait # RdpClipboard!None => s1'.wait = s1.wait)
      /\ (s1.data = RdpClipboard!None => s1'.wait = s1.wait)
  <2>1. CASE s1.data = RdpClipboard!None
    BY <1>0, <2>1 DEF ClipInv, ClipTyped
  <2>2. CASE s1.data # RdpClipboard!None
    BY <1>0, <2>2 DEF ClipInv, ClipTyped, ClipType
  <2> QED BY <2>1, <2>2
<1>4. s14' \in {RdpClipboard!None, "kind"}
      /\ (s14' = "kind" => s1.data \notin {RdpClipboard!None, s3.info})
  <2>1. CASE s1.data = RdpClipboard!None
    BY <1>0, <2>1 DEF RdpClipboard!None
  <2>2. CASE s1.data # RdpClipboard!None
    BY <1>0, <2>2 DEF RdpClipboard!None
  <2> QED BY <2>1, <2>2
<1>5. ClipTyped'
  BY <1>0, <1>1, <1>2, <1>3, <1>4 DEF ClipInv, ClipTyped, ClipMainRest
<1>6. (ClipAnswering' <=> ClipAnswering) /\ (ClipInFlight' <=> ClipInFlight)
  BY <1>0 DEF ClipInFlight, ClipAnswering, ClipMainRest
<1>7. ClipGets' /\ ClipWaits' /\ ClipBusy' /\ ClipLost' /\ ClipClosing' /\ ClipAnnounced'
  BY <1>0, <1>1, <1>3, <1>6 DEF ClipInv, ClipGets, ClipWaits, ClipBusy, ClipLost,
     ClipClosing, ClipAnnounced, ClipMainRest
<1>8. ~s12' /\ ClipInFlight => s1.data = RdpClipboard!None
  BY <1>2 DEF ClipInv, ClipDataFits
<1>9. ClipOneRequest'
  BY <1>0, <1>1, <1>2, <1>3, <1>6, <1>8 DEF ClipInv, ClipOneRequest, ClipMainRest
<1>10. ClipDataFits'
  BY <1>0, <1>1, <1>2, <1>3, <1>6 DEF ClipInv, ClipDataFits, ClipMainRest
<1>11. ClipFaults'
  BY <1>0, <1>2, <1>4 DEF ClipInv, ClipDataFits, ClipFaults, RdpClipboard!None
<1> QED BY <1>5, <1>7, <1>9, <1>10, <1>11 DEF ClipInv

\* A wait that is aborted is one still; the rest of the clipboard is left alone.
LEMMA ClipAbortIs ==
    ASSUME ClipInv, RdpClipboard!Abort
    PROVE  /\ s1' \in ClipType /\ s1'.format = s1.format /\ s1'.data = s1.data
           /\ s1'.wait # "busy"
              /\ (s1'.wait = RdpClipboard!None <=> s1.wait = RdpClipboard!None)
<1>1. s1 \in ClipType
  BY DEF ClipInv, ClipTyped
<1>2. CASE s1.wait = "busy"
  BY <1>1, <1>2 DEF RdpClipboard!Abort, ClipType, RdpClipboard!None
<1>3. CASE s1.wait # "busy"
  BY <1>1, <1>3 DEF RdpClipboard!Abort
<1> QED BY <1>2, <1>3

\* A local application copies.
LEMMA ClipLocalCopyStep == ASSUME ClipBounds, ClipInv, RdpClipboard!LocalCopy PROVE ClipInv'
<1>0. /\ ClipMainRest /\ UNCHANGED <<s1, s2, s3, s5, s12, s13, s14>>
      /\ s10.local < MaxLocal /\ s10' = [s10 EXCEPT !.local = s10.local + 1]
      /\ s7' = [who |-> "other", changed |-> TRUE]
  BY DEF RdpClipboard!LocalCopy, ClipMainRest
<1>1. s7' \in ClipOwnerType /\ s7'.who = "other"
  BY <1>0 DEF ClipOwnerType
<1>2. s10' \in ClipCopiesType /\ s10'.asked = s10.asked
  <2>1. s10 \in ClipCopiesType /\ s10.local \in 0 .. MaxLocal
    BY DEF ClipInv, ClipTyped, ClipCopiesType
  <2>2. s10.local + 1 \in 0 .. MaxLocal
    BY <1>0, <2>1 DEF ClipBounds
  <2> QED BY <1>0, <2>1, <2>2 DEF ClipCopiesType
<1>3. ClipTyped'
  BY <1>0, <1>1, <1>2 DEF ClipInv, ClipTyped, ClipMainRest
<1>4. (ClipAnswering' <=> ClipAnswering) /\ (ClipInFlight' <=> ClipInFlight)
  BY <1>0 DEF ClipInFlight, ClipAnswering, ClipMainRest
<1>5. ClipGets' /\ ClipWaits' /\ ClipBusy' /\ ClipLost' /\ ClipClosing' /\ ClipAnnounced'
      /\ ClipFaults'
  BY <1>0, <1>1, <1>4 DEF ClipInv, ClipGets, ClipWaits, ClipBusy, ClipLost, ClipClosing,
     ClipAnnounced, ClipFaults, ClipMainRest
<1>6. ClipOneRequest' /\ ClipDataFits'
  BY <1>0, <1>4 DEF ClipInv, ClipOneRequest, ClipDataFits, ClipMainRest
<1> QED BY <1>3, <1>5, <1>6 DEF ClipInv

\* The owner of the local clipboard has changed.
LEMMA ClipOnClipboardStep == ASSUME ClipBounds, ClipInv,
   RdpClipboard!on_clipboard PROVE ClipInv'
<1>0. /\ ClipMainRest /\ UNCHANGED <<s2, s3, s10, s12, s13, s14>>
      /\ s7' = [s7 EXCEPT !.changed = FALSE] /\ RdpClipboard!Abort
      /\ IF s7.who = "other" THEN RdpClipboard!Push("list") ELSE UNCHANGED s5
  BY DEF RdpClipboard!on_clipboard, ClipMainRest
<1>1. s7' \in ClipOwnerType /\ s7'.who = s7.who
  BY <1>0 DEF ClipInv, ClipTyped, ClipOwnerType
<1>2. /\ s1' \in ClipType /\ s1'.format = s1.format /\ s1'.data = s1.data
      /\ s1'.wait # "busy" /\ (s1'.wait = RdpClipboard!None <=> s1.wait = RdpClipboard!None)
  BY <1>0, ClipAbortIs
<1>3. /\ s5' \in Seq(ClipEventNames)
      /\ (Has(s5', "ask") <=> Has(s5, "ask"))
      /\ (Has(s5', "echo") <=> Has(s5, "echo"))
      /\ (Once(s5, "ask") => Once(s5', "ask"))
  <2>1. CASE s7.who = "other"
    <3>1. RdpClipboard!Push("list") /\ "list" \in ClipEventNames
      BY <1>0, <2>1 DEF ClipEventNames
    <3> QED BY <3>1, ClipPushIs
  <2>2. CASE s7.who # "other"
    BY <1>0, <2>2 DEF ClipInv, ClipTyped
  <2> QED BY <2>1, <2>2
<1>4. ClipTyped'
  BY <1>0, <1>1, <1>2, <1>3 DEF ClipInv, ClipTyped, ClipMainRest
<1>5. (ClipAnswering' <=> ClipAnswering) /\ (ClipInFlight' <=> ClipInFlight)
  BY <1>0, <1>3 DEF ClipInFlight, ClipAnswering, ClipMainRest
<1>6. ClipGets' /\ ClipWaits' /\ ClipBusy' /\ ClipLost' /\ ClipClosing' /\ ClipAnnounced'
      /\ ClipFaults'
  BY <1>0, <1>1, <1>2, <1>3, <1>5
  DEF ClipInv, ClipGets, ClipWaits, ClipBusy, ClipLost, ClipClosing, ClipAnnounced,
     ClipFaults, ClipMainRest
<1>7. ClipOneRequest' /\ ClipDataFits'
  BY <1>0, <1>2, <1>3, <1>5 DEF ClipInv, ClipOneRequest, ClipDataFits, ClipMainRest
<1> QED BY <1>4, <1>6, <1>7 DEF ClipInv

\* What a step that serves the thread leaves alone.
ClipServedRest == UNCHANGED <<s1, s2, s8, s9, s10, s11, s12, s13, s14, s15>>

\* The server is answered.
LEMMA ClipAnswerStep ==
    ASSUME ClipInv, ClipServedRest, s7' = s7, s3' \in ClipMainType, s3'.at = s3.at,
           s3'.info = s3.info, s3'.ready = s3.ready, ~s3'.serving, s4.at = "get",
           s4' = RdpClipboard!Waiting, RdpClipboard!Push("answer"),
           s6' \in Seq(ClipUiNames), \A x : Has(s6', x) => Has(s6, x),
           \A x : Once(s6, x) => Once(s6', x), ~Has(s6', "get"), ~Has(s6', "formats")
    PROVE  ClipInv'
<1>1. s4' \in ClipThreadType /\ s4'.at = "loop"
  BY ClipWaitingIs
<1>2. /\ s5' \in Seq(ClipEventNames) /\ (Has(s5', "ask") <=> Has(s5, "ask"))
      /\ (Has(s5', "echo") <=> Has(s5, "echo")) /\ (Once(s5, "ask") => Once(s5', "ask"))
  BY ClipPushIs DEF ClipEventNames
<1>3. ClipTyped'
  BY <1>1, <1>2 DEF ClipInv, ClipTyped, ClipServedRest
<1>4. ~ClipAnswering /\ ~ClipAnswering' /\ (ClipInFlight' <=> ClipInFlight)
  BY <1>1, <1>2 DEF ClipInFlight, ClipAnswering, ClipServedRest
<1>5. ClipGets' /\ ClipWaits' /\ ClipBusy' /\ ClipLost' /\ ClipClosing' /\ ClipAnnounced'
      /\ ClipFaults'
  BY <1>1, <1>2, <1>4 DEF ClipInv, ClipGets, ClipWaits, ClipBusy, ClipLost, ClipClosing,
     ClipAnnounced, ClipFaults, ClipServedRest
<1>6. ClipOneRequest' /\ ClipDataFits'
  BY <1>1, <1>2, <1>4 DEF ClipInv, ClipOneRequest, ClipDataFits, ClipServedRest
<1> QED BY <1>3, <1>5, <1>6 DEF ClipInv

\* What the thread asks the main thread for is done.
LEMMA ClipProcessClipboardStep == ASSUME ClipBounds, ClipInv,
   RdpClipboard!ProcessClipboard PROVE ClipInv'
<1>0. ClipServedRest /\ s6 # <<>> /\ s6' = Tail(s6)
  BY DEF RdpClipboard!ProcessClipboard, ClipServedRest
<1>1. /\ s6' \in Seq(ClipUiNames) /\ Has(s6, Head(s6))
      /\ (\A x : Has(s6', x) => Has(s6, x))
      /\ (\A x : Once(s6, x) => Once(s6', x))
      /\ (Once(s6, Head(s6)) => ~Has(s6', Head(s6)))
  BY <1>0, TailHas DEF ClipInv, ClipTyped
<1>5. /\ s7 \in ClipOwnerType /\ s3 \in ClipMainType /\ s4 \in ClipThreadType
      /\ s5 \in Seq(ClipEventNames)
  BY DEF ClipInv, ClipTyped
<1>2. CASE Head(s6) = "set" /\ s7' = [who |-> "me", changed |-> TRUE] /\ UNCHANGED <<s3, s4, s5>>
  <2>1. s7' \in ClipOwnerType
    BY <1>2 DEF ClipOwnerType
  <2>2. Has(s6, "set") /\ (s15.count = 0 => ~Has(s9, "ready")
                                            /\ ~(s4.at = "get" /\ s4.msg = "ready"))
    BY <1>1, <1>2 DEF ClipInv, ClipAnnounced
  <2>3. ClipTyped'
    BY <1>0, <1>1, <1>2, <2>1 DEF ClipInv, ClipTyped, ClipServedRest
  <2>4. (ClipAnswering' <=> ClipAnswering) /\ (ClipInFlight' <=> ClipInFlight)
    BY <1>0, <1>2 DEF ClipInFlight, ClipAnswering, ClipServedRest
  <2>5. ClipGets' /\ ClipWaits' /\ ClipBusy' /\ ClipLost' /\ ClipClosing' /\ ClipAnnounced'
        /\ ClipFaults'
    BY <1>0, <1>1, <1>2, <2>2, <2>4 DEF ClipInv, ClipGets, ClipWaits, ClipBusy, ClipLost,
       ClipClosing, ClipAnnounced, ClipFaults, ClipServedRest
  <2>6. ClipOneRequest' /\ ClipDataFits'
    BY <1>0, <1>2, <2>4 DEF ClipInv, ClipOneRequest, ClipDataFits, ClipServedRest
  <2> QED BY <2>3, <2>5, <2>6 DEF ClipInv
<1>3. CASE /\ Head(s6) = "formats" /\ UNCHANGED <<s3, s5, s7>>
           /\ s4' = [s4 EXCEPT !.at = "push", !.msg = RdpClipboard!LocalList]
  <2>1. /\ s4' \in ClipThreadType /\ s4'.at = "push" /\ s4'.msg \in {"list", "echo"}
        /\ (s7.who = "other" => s4'.msg = "list")
    BY <1>3, <1>5 DEF ClipThreadType, ClipStages, RdpClipboard!LocalList,
       RdpClipboard!Messages
  <2>2. /\ s4.at = "get" /\ s4.msg = "ready" /\ ~s3.serving /\ ~Has(s6, "get")
        /\ ~Has(s6', "formats") /\ ~Has(s6', "get")
        /\ (s15.count = 0 => s7.who = "other" /\ ~Has(s9, "ready"))
    BY <1>1, <1>3 DEF ClipInv, ClipGets, ClipAnnounced
  <2>3. ClipTyped'
    BY <1>0, <1>1, <1>3, <2>1 DEF ClipInv, ClipTyped, ClipServedRest
  <2>4. ~ClipAnswering /\ ~ClipAnswering' /\ (ClipInFlight' <=> ClipInFlight)
    BY <1>0, <1>3, <2>1, <2>2 DEF ClipInFlight, ClipAnswering, ClipServedRest
  <2>5. ClipGets' /\ ClipWaits' /\ ClipBusy' /\ ClipLost' /\ ClipClosing' /\ ClipAnnounced'
        /\ ClipFaults'
    BY <1>0, <1>1, <1>3, <2>1, <2>2, <2>4 DEF ClipInv, ClipGets, ClipWaits, ClipBusy,
       ClipLost, ClipClosing, ClipAnnounced, ClipFaults, ClipServedRest
  <2>6. ClipOneRequest' /\ ClipDataFits'
    BY <1>0, <1>3, <2>1, <2>2, <2>4 DEF ClipInv, ClipOneRequest, ClipDataFits, ClipServedRest
  <2> QED BY <2>3, <2>5, <2>6 DEF ClipInv
<1>6. Head(s6) = "get" => /\ s4.at = "get" /\ s4.msg = "request" /\ ~s3.serving
                          /\ ~Has(s6', "get") /\ ~Has(s6', "formats")
  BY <1>1 DEF ClipInv, ClipGets
<1>4. CASE /\ Head(s6) = "get" /\ RdpClipboard!Push("answer") /\ s4' = RdpClipboard!Waiting
           /\ UNCHANGED <<s3, s7>>
  <2>1. s3' \in ClipMainType /\ ~s3'.serving
    BY <1>4, <1>5, <1>6
  <2> QED BY <1>0, <1>1, <1>4, <1>6, <2>1, ClipAnswerStep
<1>7. CASE /\ Head(s6) = "get" /\ s3.at = "loop" /\ s3' = [s3 EXCEPT !.serving = TRUE]
           /\ UNCHANGED <<s4, s5, s7>>
  <2>1. /\ s3' \in ClipMainType /\ s3'.at = "loop" /\ s3'.info = s3.info /\ s3'.ready = s3.ready
    BY <1>5, <1>7 DEF ClipMainType
  <2>2. ClipTyped'
    BY <1>0, <1>1, <1>7, <2>1 DEF ClipInv, ClipTyped, ClipServedRest
  <2>3. (ClipAnswering' <=> ClipAnswering) /\ (ClipInFlight' <=> ClipInFlight)
    BY <1>0, <1>7 DEF ClipInFlight, ClipAnswering, ClipServedRest
  <2>4. ClipGets' /\ ClipWaits' /\ ClipBusy' /\ ClipLost' /\ ClipClosing' /\ ClipAnnounced'
        /\ ClipFaults'
    BY <1>0, <1>1, <1>6, <1>7, <2>1, <2>3 DEF ClipInv, ClipGets, ClipWaits, ClipBusy,
       ClipLost, ClipClosing, ClipAnnounced, ClipFaults, ClipServedRest
  <2>5. ClipOneRequest' /\ ClipDataFits'
    BY <1>0, <1>7, <2>1, <2>3 DEF ClipInv, ClipOneRequest, ClipDataFits, ClipServedRest
  <2> QED BY <2>2, <2>4, <2>5 DEF ClipInv
<1> QED BY <1>2, <1>3, <1>4, <1>7 DEF RdpClipboard!ProcessClipboard

\* The main thread has pasted for the server.
LEMMA ClipServedStep == ASSUME ClipBounds, ClipInv, RdpClipboard!Served PROVE ClipInv'
<1>0. /\ ClipServedRest /\ UNCHANGED <<s6, s7>> /\ s3.serving
      /\ s3' = [s3 EXCEPT !.serving = FALSE] /\ s4' = RdpClipboard!Waiting
      /\ RdpClipboard!Push("answer")
  BY DEF RdpClipboard!Served, ClipServedRest
<1>1. /\ s3' \in ClipMainType /\ s3'.at = s3.at /\ s3'.info = s3.info /\ s3'.ready = s3.ready
      /\ ~s3'.serving
  BY <1>0 DEF ClipInv, ClipTyped, ClipMainType
<1>2. s6 \in Seq(ClipUiNames) /\ s4.at = "get" /\ ~Has(s6, "get") /\ ~Has(s6, "formats")
  BY <1>0 DEF ClipInv, ClipTyped, ClipGets
<1> QED BY <1>0, <1>1, <1>2, ClipAnswerStep

\* The user closes the session.
LEMMA ClipCloseStep == ASSUME ClipBounds, ClipInv, RdpClipboard!Close PROVE ClipInv'
<1>0. /\ ClipMainRest /\ UNCHANGED <<s2, s3, s7, s10, s14, s12>>
      /\ s14 = RdpClipboard!None /\ RdpClipboard!Looping /\ s4.at # "freed"
         /\ RdpClipboard!Abort /\ RdpClipboard!Push("end")
      /\ s13' = (s13 \/ (s3.at = "iterate" /\ s4.at # "ended"))
  BY DEF RdpClipboard!Close, ClipMainRest, RdpClipboard!Running, RdpClipboard!Alive
<1>1. s13' \in BOOLEAN /\ (s13' => s13 \/ (s3.at = "iterate" /\ s4.at # "ended"))
  BY <1>0 DEF ClipInv, ClipTyped
<1>2. /\ s1' \in ClipType /\ s1'.format = s1.format /\ s1'.data = s1.data
      /\ s1'.wait # "busy" /\ (s1'.wait = RdpClipboard!None <=> s1.wait = RdpClipboard!None)
  BY <1>0, ClipAbortIs
<1>3. /\ s5' \in Seq(ClipEventNames)
      /\ (Has(s5', "ask") <=> Has(s5, "ask"))
      /\ (Has(s5', "echo") <=> Has(s5, "echo"))
      /\ (Once(s5, "ask") => Once(s5', "ask"))
  BY <1>0, ClipPushIs DEF ClipEventNames
<1>4. ClipTyped'
  BY <1>0, <1>1, <1>2, <1>3 DEF ClipInv, ClipTyped, ClipMainRest
<1>5. (ClipAnswering' <=> ClipAnswering) /\ (ClipInFlight' <=> ClipInFlight)
  BY <1>0, <1>3 DEF ClipInFlight, ClipAnswering, ClipMainRest
<1>6. ClipGets' /\ ClipWaits' /\ ClipBusy' /\ ClipLost' /\ ClipAnnounced' /\ ClipFaults'
  BY <1>0, <1>2, <1>3, <1>5 DEF ClipInv, ClipGets, ClipWaits, ClipBusy, ClipLost,
     ClipAnnounced, ClipFaults, ClipMainRest, RdpClipboard!None
<1>7. ClipClosing'
  BY <1>0, <1>1, <1>2 DEF ClipInv, ClipClosing, RdpClipboard!Looping, ClipMainRest
<1>8. ClipOneRequest' /\ ClipDataFits'
  BY <1>0, <1>2, <1>3, <1>5 DEF ClipInv, ClipOneRequest, ClipDataFits, ClipMainRest
<1> QED BY <1>4, <1>6, <1>7, <1>8 DEF ClipInv

\* The session is cleaned up.
LEMMA ClipCleanUpStep == ASSUME ClipBounds, ClipInv, RdpClipboard!CleanUp PROVE ClipInv'
<1>0. /\ UNCHANGED <<s2, s3, s10, s11, s12, s13, s15>>
      /\ s4.at = "ended" /\ (s3.at = "loop" \/ s3.ready) /\ RdpClipboard!Looping
      /\ s1' = [s1 EXCEPT !.data = RdpClipboard!None]
      /\ s14' = IF RdpClipboard!FreesWrong THEN "kind" ELSE RdpClipboard!None
      /\ s7' = [who |-> "other", changed |-> FALSE]
      /\ s6' = <<>> /\ s5' = <<>> /\ s9' = <<>> /\ s8' = [s8 EXCEPT !.asked = 0]
      /\ s4' = [s4 EXCEPT !.at = "freed"]
  BY DEF RdpClipboard!CleanUp
<1>1. s4' \in ClipThreadType /\ s4'.at = "freed"
  BY <1>0, ClipStageIs DEF ClipStages
<1>2. /\ s1' \in ClipType /\ s1'.data = RdpClipboard!None /\ s1'.wait = s1.wait
      /\ s1'.format = s1.format /\ (RdpClipboard!FreesWrong => s12)
  BY <1>0, ClipFreesRight
<1>3. s7' \in ClipOwnerType
  BY <1>0 DEF ClipOwnerType
<1>4. s8' \in ClipServerType /\ s8'.asked = 0
  BY <1>0 DEF ClipInv, ClipTyped, ClipServerType
<1>5. /\ s5' \in Seq(ClipEventNames) /\ s6' \in Seq(ClipUiNames)
         /\ s9' \in Seq(RdpClipboard!Messages)
      /\ \A x : ~Has(s5', x) /\ ~Has(s6', x) /\ ~Has(s9', x)
      /\ \A x : Once(s5', x) /\ Once(s6', x) /\ Once(s9', x)
  BY <1>0 DEF Has, Once
<1>6. ClipTyped'
  BY <1>0, <1>1, <1>2, <1>3, <1>4, <1>5 DEF ClipInv, ClipTyped
<1>7. ~ClipInFlight' /\ ~ClipAnswering' /\ ~s3.serving
  BY <1>0, <1>1, <1>4, <1>5 DEF ClipInFlight, ClipAnswering, ClipInv, ClipGets
<1>8. ClipGets' /\ ClipWaits' /\ ClipBusy' /\ ClipLost' /\ ClipAnnounced'
  BY <1>0, <1>1, <1>2, <1>3, <1>5, <1>7 DEF ClipInv, ClipGets, ClipWaits, ClipBusy,
     ClipLost, ClipAnnounced, ReadyFirst
<1>9. ClipClosing'
  BY <1>0, <1>1, <1>2 DEF ClipInv, ClipClosing, RdpClipboard!Looping
<1>10. ClipOneRequest' /\ ClipDataFits'
  BY <1>0, <1>1, <1>2, <1>4, <1>5, <1>7 DEF ClipInv, ClipOneRequest, ClipDataFits
<1>11. ClipFaults'
  BY <1>0, <1>2 DEF ClipInv, ClipFaults, RdpClipboard!None
<1> QED BY <1>6, <1>8, <1>9, <1>10, <1>11 DEF ClipInv

\* Every step, of either thread, keeps the invariant.
LEMMA ClipStepInv == ASSUME ClipBounds, ClipInv,
   [RdpClipboard!Next]_(RdpClipboard!vars) PROVE ClipInv'
<1>1. CASE UNCHANGED RdpClipboard!vars
  <2>1. UNCHANGED <<s1, s2, s3, s4, s5, s6, s7>>
    BY <1>1 DEF RdpClipboard!vars
  <2>2. UNCHANGED <<s8, s9, s10, s11, s12, s13, s14, s15>>
    BY <1>1 DEF RdpClipboard!vars
  <2>3. ClipTyped' /\ ClipGets' /\ ClipWaits' /\ ClipLost' /\ ClipClosing' /\ ClipAnnounced'
        /\ ClipFaults'
    BY <2>1, <2>2 DEF ClipInv, ClipTyped, ClipGets, ClipWaits, ClipLost, ClipClosing,
       ClipAnnounced, ClipFaults
  <2>4. (ClipAnswering' <=> ClipAnswering) /\ (ClipInFlight' <=> ClipInFlight)
    BY <2>1, <2>2 DEF ClipInFlight, ClipAnswering
  <2>5. ClipBusy' /\ ClipOneRequest' /\ ClipDataFits'
    BY <2>1, <2>2, <2>4 DEF ClipInv, ClipBusy, ClipOneRequest, ClipDataFits
  <2> QED BY <2>3, <2>5 DEF ClipInv
<1>2. CASE RdpClipboard!Next
  BY <1>2, ClipServerStep, ClipReceivesStep, ClipAnnounceStep, ClipFreeStep, ClipSetStep,
     ClipDecodeStep, ClipSignalStep, ClipProcessEventStep, ClipServerEndsStep, ClipLoseStep,
     ClipRejoinStep, ClipResumeStep, ClipPasteStep, ClipFreeForPasteStep, ClipAskServerStep,
     ClipPushRequestStep, ClipIterateStep, ClipUseStep, ClipAgainStep, ClipLocalCopyStep,
     ClipOnClipboardStep, ClipProcessClipboardStep, ClipServedStep, ClipCloseStep,
     ClipCleanUpStep DEF RdpClipboard!Next
<1> QED BY <1>1, <1>2

-----------------------------------------------------------------------------
(* A session of SPICE (src/plugins/spice/spice_plugin.c).                  *)
(* The variables: s1 session, s2 asking, s3 displays, s4 keys, s5 files,   *)
(* s6 dialog, s7 told, s8 logins, s9 hist, s10 fault.                      *)

SpiceKeysType == [queue : {Spice!None, "there", "freed"}, waiting : 0 .. MaxKeys,
   idle : BOOLEAN]
SpiceFilesType == [table : {Spice!None, "there", "freed"}, listed : SUBSET Tasks,
              running : SUBSET Tasks, done : SUBSET Tasks]
SpiceToldType == [opened : Nat, closed : Nat, error : BOOLEAN]
SpiceHistType == [tunnel : BOOLEAN, keys : BOOLEAN, files : BOOLEAN]
SpiceShownType == [channel : SUBSET Displays, ready : SUBSET Displays]

\* The end was not told yet, or nothing is there that could tell it once more.
SpiceEnds ==
    /\ s1 = "new" => ~s2
    /\ s7.closed = 0 \/ s1 = Spice!None \/ (s1 = "lost" /\ ~s2)

\* What was freed is known to be, and is not used for a new session.
SpiceFreed ==
    /\ s4.queue = "freed" => s9.keys
    /\ s5.table = "freed" => s9.files /\ s1 = Spice!None
    /\ s5.table = Spice!None => s5.listed = {} /\ s5.running = {}

SpiceInv ==
    /\ Spice!TypeOK /\ SpiceEnds /\ SpiceFreed /\ IsFiniteSet(s3.ready)
    /\ Spice!ClosedOnce /\ Spice!OpenedOnce /\ Spice!EndTold /\ Spice!FreedUse
       /\ Spice!DialogLasts

\* The module counts as the library does.
LEMMA SpiceCardinality == \A S : Spice!Cardinality(S) = Cardinality(S)
BY DEF Spice!Cardinality, Cardinality

\* It holds before the session is opened.
LEMMA SpiceInitInv == ASSUME MaxKeys \in Nat, MaxLogins \in Nat, Spice!Init PROVE SpiceInv
<1>1. 0 \in 0 .. MaxKeys /\ 0 \in 0 .. MaxLogins
  OBVIOUS
<1>2. s3 \in SpiceShownType /\ s3.ready = {}
  BY DEF Spice!Init, SpiceShownType
<1>3. s4 \in SpiceKeysType /\ s4.queue = Spice!None
  BY <1>1 DEF Spice!Init, SpiceKeysType
<1>4. s5 \in SpiceFilesType /\ s5.table = Spice!None /\ s5.listed = {} /\ s5.running = {}
  BY DEF Spice!Init, SpiceFilesType
<1>5. s7 \in SpiceToldType /\ s7.opened = 0 /\ s7.closed = 0
  BY DEF Spice!Init, SpiceToldType
<1>6. s9 \in SpiceHistType
  BY DEF Spice!Init, SpiceHistType
<1>7. Spice!TypeOK
  BY <1>1, <1>2, <1>3, <1>4, <1>5, <1>6
  DEF Spice!Init, Spice!TypeOK, SpiceShownType, SpiceKeysType, SpiceFilesType,
     SpiceToldType, SpiceHistType
<1>8. IsFiniteSet(s3.ready) /\ Spice!Cardinality(s3.ready) = 0
  BY SpiceCardinality, <1>2, FS_EmptySet
<1> QED
  BY <1>3, <1>4, <1>5, <1>7, <1>8
  DEF Spice!Init, SpiceInv, SpiceEnds, SpiceFreed, Spice!ClosedOnce, Spice!OpenedOnce,
     Spice!EndTold, Spice!FreedUse, Spice!DialogLasts, Spice!None

\* What close_connection leaves behind.
LEMMA SpiceCloseDoes ==
    ASSUME SpiceInv, Spice!Running, NEW error \in BOOLEAN, Spice!close_connection(error)
    PROVE  /\ s1' = Spice!None
           /\ s4' \in SpiceKeysType /\ (s4'.queue = "freed" => s9'.keys)
           /\ s5' \in SpiceFilesType /\ s5'.running = s5.running
           /\ s5'.table \in {Spice!None, "freed"} /\ (s5'.table = Spice!None => s5' = s5)
           /\ (s5'.table = "freed" => s9'.files)
           /\ s7' \in SpiceToldType /\ s7'.opened = s7.opened
           /\ s7'.closed = IF s1 = Spice!None THEN s7.closed ELSE s7.closed + 1
           /\ s9' \in SpiceHistType /\ s9'.tunnel = s9.tunnel
           /\ s10' \in {Spice!None, "keys", "files"}
           /\ (s10' = "keys" => s9'.keys) /\ (s10' = "files" => s9'.files)
<1>0. s4 \in SpiceKeysType /\ s5 \in SpiceFilesType /\ s7 \in SpiceToldType
      /\ s9 \in SpiceHistType
  BY DEF SpiceInv, Spice!TypeOK, SpiceKeysType, SpiceFilesType, SpiceToldType, SpiceHistType
<1>1. /\ s1' = Spice!None
      /\ s4' = IF s4.queue = Spice!None THEN s4 ELSE [s4 EXCEPT !.queue = "freed"]
      /\ s5' = IF s5.table = Spice!None THEN s5
                  ELSE [s5 EXCEPT !.table = "freed", !.listed = {}]
      /\ s10' = IF s4.queue = "freed" THEN "keys"
                  ELSE IF s5.table = "freed" THEN "files" ELSE Spice!None
      /\ s7' = [s7 EXCEPT !.closed = IF s1 = Spice!None THEN s7.closed ELSE s7.closed + 1,
                              !.error = s7.error \/ error]
      /\ s9' = [s9 EXCEPT !.keys = s9.keys \/ s4.queue # Spice!None,
                              !.files = s9.files \/ s5.table # Spice!None]
  BY DEF Spice!close_connection
<1>2. /\ s9' \in SpiceHistType /\ s9'.tunnel = s9.tunnel
      /\ s9'.keys = (s9.keys \/ s4.queue # Spice!None)
      /\ s9'.files = (s9.files \/ s5.table # Spice!None)
  BY <1>0, <1>1 DEF SpiceHistType
<1>3. /\ s4' \in SpiceKeysType /\ (s4.queue = Spice!None => s4' = s4)
  BY <1>0, <1>1 DEF SpiceKeysType
<1>4. /\ s5' \in SpiceFilesType /\ s5'.running = s5.running
      /\ s5'.table \in {Spice!None, "freed"} /\ (s5'.table = Spice!None => s5' = s5)
      /\ (s5'.table = "freed" => s5.table # Spice!None)
  BY <1>0, <1>1 DEF SpiceFilesType, Spice!None
<1>5. s7.closed \in Nat /\ s7.closed + 1 \in Nat /\ (s7.error \/ error) \in BOOLEAN
  BY <1>0 DEF SpiceToldType
<1>6. /\ s7' \in SpiceToldType /\ s7'.opened = s7.opened
      /\ s7'.closed = IF s1 = Spice!None THEN s7.closed ELSE s7.closed + 1
  BY <1>0, <1>1, <1>5 DEF SpiceToldType
<1>7. s4'.queue = "freed" => s9'.keys
  BY <1>1, <1>2, <1>3 DEF Spice!None
<1>8. /\ s10' \in {Spice!None, "keys", "files"}
      /\ (s10' = "keys" => s9'.keys) /\ (s10' = "files" => s9'.files)
  BY <1>1, <1>2 DEF Spice!None
<1> QED BY <1>1, <1>2, <1>3, <1>4, <1>6, <1>7, <1>8

\* The session is closed by the server, by the user, or because no password is given.
LEMMA SpiceCloseStep == ASSUME SpiceInv, Spice!ChannelFails \/ Spice!Cancel
   \/ Spice!UserCloses PROVE SpiceInv'
<1>1. /\ Spice!Running /\ \E error \in BOOLEAN : Spice!close_connection(error)
      /\ UNCHANGED <<s3, s6, s8>>
      /\ s2' = s2 \/ s2' = FALSE
  BY DEF Spice!ChannelFails, Spice!Cancel, Spice!UserCloses
<1>12. s2' \in BOOLEAN
  BY <1>1 DEF SpiceInv, Spice!TypeOK
<1>2. /\ s1' = Spice!None
      /\ s4' \in SpiceKeysType /\ (s4'.queue = "freed" => s9'.keys)
      /\ s5' \in SpiceFilesType /\ s5'.running = s5.running
      /\ s5'.table \in {Spice!None, "freed"} /\ (s5'.table = Spice!None => s5' = s5)
      /\ (s5'.table = "freed" => s9'.files)
      /\ s7' \in SpiceToldType /\ s7'.opened = s7.opened
      /\ s7'.closed = IF s1 = Spice!None THEN s7.closed ELSE s7.closed + 1
      /\ s9' \in SpiceHistType /\ s9'.tunnel = s9.tunnel
      /\ s10' \in {Spice!None, "keys", "files"}
      /\ (s10' = "keys" => s9'.keys) /\ (s10' = "files" => s9'.files)
  BY <1>1, SpiceCloseDoes
<1>3. /\ s7.closed \in Nat /\ s7.closed <= 1
      /\ s7.closed = 0 \/ s1 = Spice!None \/ (s1 = "lost" /\ ~s2)
  BY DEF SpiceInv, Spice!TypeOK, Spice!ClosedOnce, SpiceEnds
<1>4. s1 = Spice!None \/ s7.closed = 0
  BY <1>3 DEF Spice!ChannelFails, Spice!Cancel, Spice!UserCloses, Spice!None
<1>5. s7'.closed <= 1 /\ (s1 # Spice!None => s7'.closed = 1)
      /\ (s1 = Spice!None => s7'.closed = s7.closed)
  BY <1>2, <1>3, <1>4
<1>6. Spice!TypeOK'
  BY <1>1, <1>2, <1>12 DEF SpiceInv, Spice!TypeOK, SpiceKeysType, SpiceFilesType,
     SpiceToldType, SpiceHistType
<1>7. SpiceEnds' /\ Spice!ClosedOnce'
  BY <1>2, <1>5 DEF SpiceEnds, Spice!ClosedOnce, Spice!None
<1>8. Spice!EndTold'
  BY <1>2, <1>5 DEF SpiceInv, Spice!EndTold, Spice!None
<1>9. SpiceFreed' /\ Spice!FreedUse'
  BY <1>2 DEF SpiceInv, SpiceFreed, Spice!FreedUse, Spice!None
<1>10. Spice!OpenedOnce' /\ IsFiniteSet(s3'.ready)
  BY <1>1, <1>2 DEF SpiceInv, Spice!OpenedOnce
<1>11. Spice!DialogLasts'
  BY <1>2 DEF Spice!DialogLasts, Spice!None
<1> QED BY <1>6, <1>7, <1>8, <1>9, <1>10, <1>11 DEF SpiceInv

\* It is opened, or connects anew after a password.
LEMMA SpiceOpenStep ==
    ASSUME SpiceInv, NEW ok \in BOOLEAN, Spice!open_connection(ok) \/ Spice!Answer(ok)
    PROVE  SpiceInv'
<1>0. s7 \in SpiceToldType /\ s9 \in SpiceHistType
  BY DEF SpiceInv, Spice!TypeOK, SpiceToldType, SpiceHistType
<1>1. CASE Spice!open_connection(ok)
  <2>1. /\ s1 = "new" /\ s1' = IF ok THEN "connecting" ELSE "lost"
        /\ s7' = IF ok THEN s7 ELSE [s7 EXCEPT !.closed = s7.closed + 1]
        /\ UNCHANGED <<s2, s3, s4, s5, s6, s8, s9, s10>>
    BY <1>1 DEF Spice!open_connection
  <2>2. s7.closed = 0 /\ ~s2
    BY <2>1 DEF SpiceInv, SpiceEnds, Spice!None
  <2>3. 0 + 1 = 1 /\ 1 \in Nat
    OBVIOUS
  <2>4. /\ s7' \in SpiceToldType /\ s7'.opened = s7.opened
        /\ s7'.closed = IF ok THEN 0 ELSE 1
    BY <1>0, <2>1, <2>2, <2>3 DEF SpiceToldType
  <2>5. Spice!TypeOK'
    BY <2>1, <2>4 DEF SpiceInv, Spice!TypeOK, SpiceToldType
  <2>6. SpiceEnds' /\ Spice!ClosedOnce' /\ Spice!EndTold'
    BY <2>1, <2>2, <2>4 DEF SpiceEnds, Spice!ClosedOnce, Spice!EndTold, Spice!None
  <2> QED
    BY <2>1, <2>4, <2>5, <2>6 DEF SpiceInv, SpiceFreed, Spice!OpenedOnce, Spice!FreedUse,
       Spice!DialogLasts, Spice!None
<1>2. CASE Spice!Answer(ok)
  <2>1. /\ s2 /\ s2' = FALSE
        /\ s1' = IF s1 = Spice!None THEN Spice!None ELSE IF ok THEN "connecting" ELSE "lost"
        /\ s9' = [s9 EXCEPT !.tunnel = s9.tunnel \/ (s1 # Spice!None /\ ~ok)]
        /\ UNCHANGED <<s3, s4, s5, s6, s7, s8, s10>>
    BY <1>2 DEF Spice!Answer
  <2>2. /\ s9' \in SpiceHistType /\ s9'.keys = s9.keys /\ s9'.files = s9.files
        /\ s9'.tunnel = (s9.tunnel \/ (s1 # Spice!None /\ ~ok))
    BY <1>0, <2>1 DEF SpiceHistType
  <2>3. Spice!TypeOK'
    BY <2>1, <2>2 DEF SpiceInv, Spice!TypeOK, SpiceHistType
  <2>4. SpiceEnds' /\ Spice!ClosedOnce' /\ Spice!EndTold'
    BY <2>1, <2>2 DEF SpiceInv, SpiceEnds, Spice!ClosedOnce, Spice!EndTold, Spice!None
  <2>5. SpiceFreed' /\ Spice!FreedUse'
    BY <2>1, <2>2 DEF SpiceInv, SpiceFreed, Spice!FreedUse
  <2> QED BY <2>1, <2>3, <2>4, <2>5 DEF SpiceInv, Spice!OpenedOnce, Spice!DialogLasts
<1> QED BY <1>1, <1>2

\* The channels and the displays.
LEMMA SpiceDisplayStep ==
    ASSUME MaxLogins \in Nat, SpiceInv,
           Spice!MainChannel \/ Spice!AskAuth
              \/ \E d \in Displays : Spice!DisplayChannel(d) \/ Spice!display_ready(d)
    PROVE  SpiceInv'
<1>0. s3 \in SpiceShownType /\ s7 \in SpiceToldType
  BY DEF SpiceInv, Spice!TypeOK, SpiceShownType, SpiceToldType
<1>1. CASE Spice!MainChannel
  BY <1>1 DEF Spice!MainChannel, SpiceInv, Spice!TypeOK, SpiceEnds, SpiceFreed,
     Spice!ClosedOnce, Spice!OpenedOnce, Spice!EndTold, Spice!FreedUse, Spice!DialogLasts,
     Spice!None
<1>2. CASE Spice!AskAuth
  <2>1. /\ s1 = "up" /\ s8 < MaxLogins /\ s2' = TRUE /\ s8' = s8 + 1
        /\ UNCHANGED <<s1, s3, s4, s5, s6, s7, s9, s10>>
    BY <1>2 DEF Spice!AskAuth
  <2>2. s8 \in Nat /\ s8 \in 0 .. MaxLogins
    BY DEF SpiceInv, Spice!TypeOK
  <2>3. s8' \in 0 .. MaxLogins
    BY <2>1, <2>2
  <2>4. Spice!TypeOK'
    BY <2>1, <2>3 DEF SpiceInv, Spice!TypeOK
  <2> QED
    BY <2>1, <2>4 DEF SpiceInv, SpiceEnds, SpiceFreed, Spice!ClosedOnce, Spice!OpenedOnce,
       Spice!EndTold, Spice!FreedUse, Spice!DialogLasts, Spice!None
<1>3. ASSUME NEW d \in Displays, Spice!DisplayChannel(d) PROVE SpiceInv'
  <2>1. /\ s3' = [s3 EXCEPT !.channel = s3.channel \cup {d}]
        /\ UNCHANGED <<s1, s2, s4, s5, s6, s7, s8, s9, s10>>
    BY <1>3 DEF Spice!DisplayChannel
  <2>2. s3.channel \cup {d} \in SUBSET Displays
    BY <1>0 DEF SpiceShownType
  <2>3. s3' \in SpiceShownType /\ s3'.ready = s3.ready
    BY <1>0, <2>1, <2>2 DEF SpiceShownType
  <2>4. Spice!TypeOK'
    BY <2>1, <2>3 DEF SpiceInv, Spice!TypeOK, SpiceShownType
  <2> QED
    BY <2>1, <2>3, <2>4 DEF SpiceInv, SpiceEnds, SpiceFreed, Spice!ClosedOnce,
       Spice!OpenedOnce, Spice!EndTold, Spice!FreedUse, Spice!DialogLasts
<1>4. ASSUME NEW d \in Displays, Spice!display_ready(d) PROVE SpiceInv'
  <2>1. /\ s3' = [s3 EXCEPT !.ready = s3.ready \cup {d}]
        /\ s7' = [s7 EXCEPT !.opened = s7.opened + 1]
        /\ d \notin s3.ready
        /\ UNCHANGED <<s1, s2, s4, s5, s6, s8, s9, s10>>
    BY <1>4 DEF Spice!display_ready
  <2>2. s3.ready \cup {d} \in SUBSET Displays
    BY <1>0 DEF SpiceShownType
  <2>3. s3' \in SpiceShownType /\ s3'.ready = s3.ready \cup {d}
    BY <1>0, <2>1, <2>2 DEF SpiceShownType
  <2>4. s7.opened \in Nat /\ s7.opened + 1 \in Nat
    BY <1>0 DEF SpiceToldType
  <2>5. /\ s7' \in SpiceToldType /\ s7'.opened = s7.opened + 1 /\ s7'.closed = s7.closed
    BY <1>0, <2>1, <2>4 DEF SpiceToldType
  <2>6. /\ IsFiniteSet(s3.ready) /\ Spice!Cardinality(s3.ready) \in Nat
        /\ s7.opened <= Spice!Cardinality(s3.ready)
    BY SpiceCardinality, FS_CardinalityType DEF SpiceInv, Spice!OpenedOnce
  <2>7. /\ IsFiniteSet(s3.ready \cup {d})
        /\ Spice!Cardinality(s3.ready \cup {d}) = Spice!Cardinality(s3.ready) + 1
    BY SpiceCardinality, <2>1, <2>6, FS_AddElement
  <2>8. s7.opened + 1 <= Spice!Cardinality(s3.ready \cup {d})
    BY <2>4, <2>6, <2>7
  <2>9. Spice!TypeOK'
    BY <2>1, <2>3, <2>5 DEF SpiceInv, Spice!TypeOK, SpiceShownType, SpiceToldType
  <2>10. Spice!OpenedOnce' /\ IsFiniteSet(s3'.ready)
    BY <2>3, <2>5, <2>7, <2>8 DEF Spice!OpenedOnce
  <2> QED
    BY <2>1, <2>5, <2>9, <2>10 DEF SpiceInv, SpiceEnds, SpiceFreed, Spice!ClosedOnce,
       Spice!EndTold, Spice!FreedUse, Spice!DialogLasts
<1> QED BY <1>1, <1>2, <1>3, <1>4

\* A key is typed, or the idle source sends one.
LEMMA SpiceKeyStep ==
    ASSUME MaxKeys \in Nat, SpiceInv, Spice!keystroke \/ Spice!send_key_strokes
    PROVE  SpiceInv'
<1>0. s4 \in SpiceKeysType /\ s4.waiting \in 0 .. MaxKeys /\ s4.waiting \in Nat
  BY DEF SpiceInv, Spice!TypeOK, SpiceKeysType
<1>1. UNCHANGED <<s1, s2, s3, s5, s6, s7, s8, s9>>
  BY DEF Spice!keystroke, Spice!send_key_strokes
<1>2. /\ s4' \in SpiceKeysType /\ (s4'.queue = "freed" => s4.queue = "freed")
      /\ s10' = s10 \/ (s10' = "keys" /\ s4.queue = "freed")
  <2>1. CASE Spice!keystroke
    <3>1. /\ s4' = [queue |-> "there", waiting |-> s4.waiting + 1, idle |-> TRUE]
          /\ s4.waiting < MaxKeys /\ s10' = s10
      BY <2>1 DEF Spice!keystroke
    <3>2. s4.waiting + 1 \in 0 .. MaxKeys
      BY <1>0, <3>1
    <3> QED BY <3>1, <3>2 DEF SpiceKeysType
  <2>2. CASE Spice!send_key_strokes
    <3>1. CASE s4.queue = "freed"
      BY <1>0, <2>2, <3>1 DEF Spice!send_key_strokes
    <3>2. CASE s4.queue # "freed"
      <4>1. CASE s4.waiting = 0
        <5>1. s4' = [s4 EXCEPT !.idle = FALSE] /\ s10' = s10
          BY <2>2, <3>2, <4>1 DEF Spice!send_key_strokes
        <5> QED BY <1>0, <5>1 DEF SpiceKeysType
      <4>2. CASE s4.waiting # 0
        <5>1. s4' = [s4 EXCEPT !.waiting = s4.waiting - 1] /\ s10' = s10
          BY <2>2, <3>2, <4>2 DEF Spice!send_key_strokes
        <5>2. s4.waiting - 1 \in 0 .. MaxKeys
          BY <1>0, <4>2
        <5> QED BY <1>0, <5>1, <5>2 DEF SpiceKeysType
      <4> QED BY <4>1, <4>2
    <3> QED BY <3>1, <3>2
  <2> QED BY <2>1, <2>2
<1>3. Spice!TypeOK'
  BY <1>1, <1>2 DEF SpiceInv, Spice!TypeOK, SpiceKeysType
<1> QED
  BY <1>1, <1>2, <1>3 DEF SpiceInv, SpiceEnds, SpiceFreed, Spice!ClosedOnce,
     Spice!OpenedOnce, Spice!EndTold, Spice!FreedUse, Spice!DialogLasts

\* A transfer begins or ends, or the user cancels them all.
LEMMA SpiceFileStep ==
    ASSUME SpiceInv,
           Spice!DialogCancel \/ \E t \in Tasks : Spice!file_transfer_new(t)
              \/ Spice!file_transfer_finished(t)
    PROVE  SpiceInv'
<1>0. /\ s5 \in SpiceFilesType /\ s5.listed \in SUBSET Tasks /\ s5.running \in SUBSET Tasks
      /\ s5.done \in SUBSET Tasks
  BY DEF SpiceInv, Spice!TypeOK, SpiceFilesType
<1>1. CASE Spice!DialogCancel
  <2>1. /\ s10' = s10 \/ (s10' = "files" /\ s5.table = "freed")
        /\ UNCHANGED <<s1, s2, s3, s4, s5, s6, s7, s8, s9>>
    BY <1>1 DEF Spice!DialogCancel
  <2>2. Spice!TypeOK' /\ Spice!FreedUse'
    BY <2>1 DEF SpiceInv, Spice!TypeOK, SpiceFreed, Spice!FreedUse, Spice!None
  <2> QED
    BY <2>1, <2>2 DEF SpiceInv, SpiceEnds, SpiceFreed, Spice!ClosedOnce, Spice!OpenedOnce,
       Spice!EndTold, Spice!DialogLasts
<1>2. ASSUME NEW t \in Tasks, Spice!file_transfer_new(t) PROVE SpiceInv'
  <2>1. /\ s1 = "up"
        /\ s5' = [s5 EXCEPT !.table = "there", !.listed = s5.listed \cup {t},
                                  !.running = s5.running \cup {t}]
        /\ s6' = TRUE
        /\ UNCHANGED <<s1, s2, s3, s4, s7, s8, s9, s10>>
    BY <1>2 DEF Spice!file_transfer_new
  <2>2. s5.listed \cup {t} \in SUBSET Tasks /\ s5.running \cup {t} \in SUBSET Tasks
    BY <1>0
  <2>3. /\ s5' \in SpiceFilesType /\ s5'.table = "there"
        /\ s5'.listed = s5.listed \cup {t} /\ s5'.running = s5.running \cup {t}
    BY <1>0, <2>1, <2>2 DEF SpiceFilesType
  <2>4. s5.listed = s5.running
    BY <1>0, <2>1 DEF SpiceInv, SpiceFreed, Spice!DialogLasts, SpiceFilesType, Spice!None
  <2>5. Spice!TypeOK'
    BY <2>1, <2>3 DEF SpiceInv, Spice!TypeOK, SpiceFilesType
  <2>6. Spice!DialogLasts' /\ SpiceFreed'
    BY <2>1, <2>3, <2>4 DEF Spice!DialogLasts, SpiceInv, SpiceFreed, Spice!None
  <2> QED
    BY <2>1, <2>5, <2>6 DEF SpiceInv, SpiceEnds, Spice!ClosedOnce, Spice!OpenedOnce,
       Spice!EndTold, Spice!FreedUse
<1>3. ASSUME NEW t \in Tasks, Spice!file_transfer_finished(t) PROVE SpiceInv'
  <2>1. /\ t \in s5.running
        /\ s5' = [s5 EXCEPT !.running = s5.running \ {t}, !.done = s5.done \cup {t},
                                  !.listed = s5.listed \ {t}]
        /\ IF s5.table = "freed" THEN s10' = "files" /\ UNCHANGED s6
           ELSE s6' = (s6 /\ s5'.listed # {}) /\ UNCHANGED s10
        /\ UNCHANGED <<s1, s2, s3, s4, s7, s8, s9>>
    BY <1>3 DEF Spice!file_transfer_finished
  <2>2. /\ s5.running \ {t} \in SUBSET Tasks /\ s5.done \cup {t} \in SUBSET Tasks
        /\ s5.listed \ {t} \in SUBSET Tasks
    BY <1>0
  <2>3. /\ s5' \in SpiceFilesType /\ s5'.table = s5.table
        /\ s5'.listed = s5.listed \ {t} /\ s5'.running = s5.running \ {t}
    BY <1>0, <2>1, <2>2 DEF SpiceFilesType
  <2>4. /\ s6' \in BOOLEAN
        /\ s10' = s10 \/ (s10' = "files" /\ s5.table = "freed")
    BY <2>1 DEF SpiceInv, Spice!TypeOK
  <2>5. Spice!TypeOK'
    BY <2>1, <2>3, <2>4 DEF SpiceInv, Spice!TypeOK, SpiceFilesType
  <2>6. SpiceFreed' /\ Spice!FreedUse'
    BY <2>1, <2>3, <2>4 DEF SpiceInv, SpiceFreed, Spice!FreedUse
  <2>7. Spice!DialogLasts'
    <3>1. SUFFICES ASSUME s5'.table = "there"
                   PROVE  s6' = (s5'.listed # {}) /\ s5'.listed = s5'.running
      BY DEF Spice!DialogLasts
    <3>2. s5.table = "there" /\ s5.listed = s5.running /\ s6 = (s5.listed # {})
      BY <2>3, <3>1 DEF SpiceInv, Spice!DialogLasts
    <3>3. s6
      BY <2>1, <3>2
    <3>4. s6' = (s6 /\ s5'.listed # {})
      BY <2>1, <3>2
    <3> QED BY <2>3, <3>2, <3>3, <3>4
  <2> QED
    BY <2>1, <2>3, <2>5, <2>6, <2>7 DEF SpiceInv, SpiceEnds, Spice!ClosedOnce,
       Spice!OpenedOnce, Spice!EndTold
<1> QED BY <1>1, <1>2, <1>3

\* Every step keeps the invariant.
LEMMA SpiceStepInv == ASSUME MaxKeys \in Nat, MaxLogins \in Nat, SpiceInv,
   [Spice!Next]_(Spice!vars) PROVE SpiceInv'
<1>1. CASE UNCHANGED Spice!vars
  BY <1>1 DEF Spice!vars, SpiceInv, Spice!TypeOK, SpiceEnds, SpiceFreed, Spice!ClosedOnce,
     Spice!OpenedOnce, Spice!EndTold, Spice!FreedUse, Spice!DialogLasts
<1> QED
  BY <1>1, SpiceOpenStep, SpiceDisplayStep, SpiceCloseStep, SpiceKeyStep,
     SpiceFileStep DEF Spice!Next

-----------------------------------------------------------------------------
(* A session of GVNC (src/plugins/gvnc/gvnc_plugin.c).                     *)
(* The variables: s1 widget, s2 lib, s3 signal, s4 asking, s5 profile, s6  *)
(* typed, s7 clipboard, s8 clipstr, s9 changed, s10 sent, s11 told, s12    *)
(* keys, s13 fault.                                                        *)

GvncClipType == [owner : {"other", "gp"}, text : Texts]
GvncToldType == [opened : 0 .. 1, closed : 0 .. 1, error : BOOLEAN]
GvncKeysType == [used : SUBSET Gvnc!Tools, got : SUBSET Gvnc!Tools]

\* Before the session is opened nothing is connected; after it is closed nothing is any more.
GvncStages ==
    /\ s1 = "new" => s2 = "off" /\ s3 = Gvnc!None /\ s11.opened = 0
    /\ s1 = "open" => s2 # "off"
    /\ s1 \in {"closed", "freed"} => s2 \in {"off", "over"}
    /\ s2 # "off" => s11.opened = 1
    /\ s3 # Gvnc!None => s2 # "off"

\* The clipboard keeps the widget that owns it.
GvncOwnerLives == s1 = "freed" => s7.owner = "other"

GvncInv ==
    /\ Gvnc!TypeOK /\ GvncStages /\ GvncOwnerLives
    /\ Gvnc!NoEcho /\ Gvnc!FaultsKnown /\ Gvnc!ToldOnce /\ Gvnc!KeysArrive

\* It holds before the session is opened.
LEMMA GvncInitInv == ASSUME Gvnc!Init PROVE GvncInv
<1>1. PICK t \in Texts : s7 = [owner |-> "other", text |-> t]
  BY DEF Gvnc!Init
<1>2. s7 \in GvncClipType
  BY <1>1 DEF GvncClipType
<1>3. s11 \in GvncToldType /\ s11.opened = 0 /\ s11.closed = 0 /\ ~s11.error
  BY DEF Gvnc!Init, GvncToldType
<1>4. s12 \in GvncKeysType /\ s12.used = {}
  BY DEF Gvnc!Init, GvncKeysType
<1>5. Gvnc!TypeOK
  BY <1>2, <1>3, <1>4 DEF Gvnc!Init, Gvnc!TypeOK, GvncClipType, GvncToldType, GvncKeysType
<1> QED
  BY <1>3, <1>4, <1>5
  DEF GvncInv, Gvnc!Init, GvncStages, GvncOwnerLives, Gvnc!NoEcho, Gvnc!FaultsKnown,
     Gvnc!ToldOnce, Gvnc!KeysArrive, Gvnc!None

\* What leaves the clipboard, what was sent and the keys alone keeps what is known of them.
GvncRest == UNCHANGED <<s7, s8, s9, s10, s12, s13>>

\* The library emits a signal.
LEMMA GvncEmitsStep == ASSUME GvncInv, Gvnc!Emits PROVE GvncInv'
<1>1. /\ UNCHANGED <<s1, s4, s5, s6, s11>> /\ GvncRest
      /\ s2 # "off" /\ s2' \in {"auth", "up", "over"}
      /\ s2 = "over" => FALSE
      /\ s3' \in Gvnc!Signals
  BY DEF Gvnc!Emits, GvncRest, Gvnc!Signals, GvncInv, Gvnc!TypeOK
<1>2. s1 = "open"
  BY <1>1 DEF GvncInv, GvncStages, Gvnc!TypeOK
<1>3. Gvnc!TypeOK'
  BY <1>1 DEF GvncInv, Gvnc!TypeOK, GvncRest
<1>4. s11.opened = 1 /\ s11.closed # 1
  BY <1>1, <1>2 DEF GvncInv, GvncStages, Gvnc!ToldOnce
<1>5. s11.closed = 0
  BY <1>4 DEF GvncInv, Gvnc!TypeOK
<1> QED
  BY <1>1, <1>2, <1>3, <1>4, <1>5
  DEF GvncInv, GvncStages, GvncOwnerLives, Gvnc!NoEcho, Gvnc!FaultsKnown, Gvnc!ToldOnce,
     Gvnc!KeysArrive, GvncRest

\* The main loop handles it.
LEMMA GvncHandleStep == ASSUME GvncInv, Gvnc!Handle PROVE GvncInv'
<1>1. /\ UNCHANGED <<s1, s2, s5, s6, s10, s12>>
      /\ s3' = Gvnc!None /\ s3 # Gvnc!None /\ s13 = Gvnc!None /\ s1 # "freed"
  BY DEF Gvnc!Handle
<1>2. s2 # "off" /\ s11.opened = 1 /\ s1 \in {"open", "closed"}
      /\ (s1 = "closed" => s2 = "over")
  BY <1>1 DEF GvncInv, GvncStages, Gvnc!TypeOK
<1>3. s13' = s13 \/ (s13' = "data" /\ s1 = "closed")
  BY <1>1, <1>2 DEF Gvnc!Handle, Gvnc!CutText, Gvnc!Reports, Gvnc!HasData
<1>4. s11' = s11 \/ s11' = [s11 EXCEPT !.error = s11.error \/ (Gvnc!HasData /\ s3 # "error")]
  BY DEF Gvnc!Handle, Gvnc!Reports
<1>5. s11' \in GvncToldType /\ s11'.opened = s11.opened /\ s11'.closed = s11.closed
  BY <1>4 DEF GvncInv, Gvnc!TypeOK, GvncToldType
<1>6. /\ s7' \in GvncClipType /\ s8' \in Texts \cup {Gvnc!None} /\ s9' \in BOOLEAN
      /\ s4' \in BOOLEAN
  <2>0. /\ s7 \in GvncClipType /\ s8 \in Texts \cup {Gvnc!None} /\ s9 \in BOOLEAN
        /\ s4 \in BOOLEAN
    BY DEF GvncInv, Gvnc!TypeOK, GvncClipType
  <2>1. ASSUME NEW t \in Texts, Gvnc!CutText(t)
        PROVE  s7' \in GvncClipType /\ s8' \in Texts \cup {Gvnc!None} /\ s9' \in BOOLEAN
    <3>1. [owner |-> "gp", text |-> t] \in GvncClipType
      BY DEF GvncClipType
    <3> QED BY <2>0, <2>1, <3>1 DEF Gvnc!CutText
  <2> QED BY <2>0, <2>1 DEF Gvnc!Handle
<1>7. Gvnc!TypeOK'
  BY <1>1, <1>3, <1>5, <1>6 DEF GvncInv, Gvnc!TypeOK, GvncClipType, GvncToldType
<1> QED
  BY <1>1, <1>2, <1>3, <1>5, <1>7
  DEF GvncInv, GvncStages, GvncOwnerLives, Gvnc!NoEcho, Gvnc!FaultsKnown, Gvnc!ToldOnce,
     Gvnc!KeysArrive, Gvnc!None

\* The session is opened, or cannot be.
LEMMA GvncOpenStep == ASSUME GvncInv, Gvnc!OpenConnection PROVE GvncInv'
<1>1. /\ s1 = "new" /\ UNCHANGED <<s3, s4, s5, s6>> /\ GvncRest
      /\ s11 \in GvncToldType /\ s11.opened = 0 /\ s11.closed = 0 /\ s3 = Gvnc!None
         /\ s2 = "off"
  BY DEF Gvnc!OpenConnection, GvncRest, GvncInv, Gvnc!TypeOK, GvncToldType, GvncStages,
     Gvnc!ToldOnce
<1>2. CASE s1' = "open"
  <2>1. s11' = [s11 EXCEPT !.opened = 1] /\ s2' = "opening"
    BY <1>2 DEF Gvnc!OpenConnection
  <2>2. s11' \in GvncToldType /\ s11'.opened = 1 /\ s11'.closed = 0
    BY <1>1, <2>1 DEF GvncToldType
  <2>3. Gvnc!TypeOK'
    BY <1>1, <1>2, <2>1, <2>2 DEF GvncInv, Gvnc!TypeOK, GvncRest, GvncToldType
  <2> QED
    BY <1>1, <1>2, <2>1, <2>2, <2>3 DEF GvncInv, GvncStages, GvncOwnerLives, Gvnc!NoEcho,
       Gvnc!FaultsKnown, Gvnc!ToldOnce, Gvnc!KeysArrive, GvncRest
<1>3. CASE s1' = "closed"
  <2>1. s11' = [s11 EXCEPT !.closed = 1, !.error = TRUE] /\ s2' = s2
    BY <1>3 DEF Gvnc!OpenConnection
  <2>2. s11' \in GvncToldType /\ s11'.opened = 0 /\ s11'.closed = 1
    <3>1. 1 \in 0 .. 1 /\ TRUE \in BOOLEAN
      OBVIOUS
    <3> QED BY <1>1, <2>1, <3>1 DEF GvncToldType
  <2>3. Gvnc!TypeOK'
    BY <1>1, <1>3, <2>1, <2>2 DEF GvncInv, Gvnc!TypeOK, GvncRest, GvncToldType
  <2> QED
    BY <1>1, <1>3, <2>1, <2>2, <2>3 DEF GvncInv, GvncStages, GvncOwnerLives, Gvnc!NoEcho,
       Gvnc!FaultsKnown, Gvnc!ToldOnce, Gvnc!KeysArrive, GvncRest
<1> QED BY <1>2, <1>3 DEF Gvnc!OpenConnection

\* It is closed.
LEMMA GvncCloseStep == ASSUME GvncInv, Gvnc!CloseConnection PROVE GvncInv'
<1>1. /\ s1 = "open" /\ s1' = "closed" /\ s2' = "over" /\ s4' = FALSE
      /\ s11' = [s11 EXCEPT !.closed = s11.closed + 1]
      /\ UNCHANGED <<s3, s5, s6>> /\ GvncRest
      /\ s11 \in GvncToldType
  BY DEF Gvnc!CloseConnection, GvncRest, GvncInv, Gvnc!TypeOK, GvncToldType
<1>2. s11.closed \in 0 .. 1 /\ s11.closed # 1 /\ s11.opened = 1 /\ s2 # "off"
  BY <1>1 DEF GvncInv, Gvnc!ToldOnce, GvncToldType, GvncStages
<1>3. s11.closed + 1 = 1
  BY <1>2
<1>4. s11' \in GvncToldType /\ s11'.opened = 1 /\ s11'.closed = 1
  BY <1>1, <1>2, <1>3 DEF GvncToldType
<1>5. Gvnc!TypeOK'
  BY <1>1, <1>4 DEF GvncInv, Gvnc!TypeOK, GvncRest, GvncToldType
<1> QED
  BY <1>1, <1>2, <1>4, <1>5
  DEF GvncInv, GvncStages, GvncOwnerLives, Gvnc!NoEcho, Gvnc!FaultsKnown, Gvnc!ToldOnce,
     Gvnc!KeysArrive, GvncRest

\* The clipboard is another's, and what is there is sent only then.
LEMMA GvncClipboardStep == ASSUME GvncInv, Gvnc!UserCopies \/ Gvnc!OwnerChanged PROVE GvncInv'
<1>1. UNCHANGED <<s1, s2, s3, s4, s5, s6, s8, s11, s12>>
  BY DEF Gvnc!UserCopies, Gvnc!OwnerChanged
<1>2. CASE Gvnc!UserCopies
  <2>1. PICK t \in Texts : s7' = [owner |-> "other", text |-> t]
    BY <1>2 DEF Gvnc!UserCopies
  <2>2. s7' \in GvncClipType /\ s7'.owner = "other"
    BY <2>1 DEF GvncClipType
  <2>3. s9' = TRUE /\ UNCHANGED <<s10, s13>>
    BY <1>2 DEF Gvnc!UserCopies
  <2>4. Gvnc!TypeOK'
    BY <1>1, <2>2, <2>3 DEF GvncInv, Gvnc!TypeOK, GvncClipType
  <2> QED
    BY <1>1, <2>2, <2>3, <2>4 DEF GvncInv, GvncStages, GvncOwnerLives, Gvnc!NoEcho,
       Gvnc!FaultsKnown, Gvnc!ToldOnce, Gvnc!KeysArrive
<1>3. CASE Gvnc!OwnerChanged
  <2>0. s7 \in GvncClipType /\ s7.owner \in {"other", "gp"} /\ s7' = s7
    BY <1>3 DEF GvncInv, Gvnc!TypeOK, GvncClipType, Gvnc!OwnerChanged
  <2>1. /\ s13' = s13 \/ (s13' = "widget" /\ s1 = "freed")
        /\ s10' = s10 \/ (s10' = s10 \cup {s7} /\ s7.owner = "other")
        /\ s9' = FALSE
    BY <1>3, <2>0 DEF Gvnc!OwnerChanged, Gvnc!Foreign
  <2>2. s10' \in SUBSET [text : Texts, owner : {"other", "gp"}]
    BY <2>0, <2>1 DEF GvncInv, Gvnc!TypeOK, GvncClipType
  <2>3. Gvnc!NoEcho'
    BY <2>1 DEF GvncInv, Gvnc!NoEcho
  <2>4. Gvnc!TypeOK'
    <3>1. s13' \in {Gvnc!None, "data", "widget"} /\ s9' \in BOOLEAN
      BY <2>1 DEF GvncInv, Gvnc!TypeOK
    <3> QED BY <1>1, <2>0, <2>2, <3>1 DEF GvncInv, Gvnc!TypeOK, GvncClipType
  <2> QED
    BY <1>1, <2>0, <2>1, <2>3, <2>4 DEF GvncInv, GvncStages, GvncOwnerLives,
       Gvnc!FaultsKnown, Gvnc!ToldOnce, Gvnc!KeysArrive
<1> QED BY <1>2, <1>3

\* Every step keeps the invariant.
LEMMA GvncStepInv == ASSUME GvncInv, [Gvnc!Next]_(Gvnc!vars) PROVE GvncInv'
<1>1. ASSUME (\E save \in BOOLEAN : Gvnc!Answer(save)) \/ Gvnc!Cancel PROVE GvncInv'
  <2>1. /\ UNCHANGED <<s1, s2, s3, s11>> /\ GvncRest /\ s4' \in BOOLEAN
        /\ s6' \in {Gvnc!None, "keep", "forget"} /\ s5' \in {Gvnc!None, "old", "typed"}
    BY <1>1 DEF Gvnc!Answer, Gvnc!Cancel, GvncRest, GvncInv, Gvnc!TypeOK
  <2>2. Gvnc!TypeOK'
    BY <2>1 DEF GvncInv, Gvnc!TypeOK, GvncRest
  <2> QED
    BY <2>1, <2>2 DEF GvncInv, GvncStages, GvncOwnerLives, Gvnc!NoEcho, Gvnc!FaultsKnown,
       Gvnc!ToldOnce, Gvnc!KeysArrive, GvncRest
<1>2. CASE Gvnc!FreeWidget
  <2>1. /\ s1 = "closed" /\ s1' = "freed" /\ s3' = Gvnc!None /\ s7.owner # "gp"
        /\ UNCHANGED <<s2, s4, s5, s6, s11>> /\ GvncRest
    BY <1>2 DEF Gvnc!FreeWidget, GvncRest
  <2>2. s7.owner = "other"
    BY <2>1 DEF GvncInv, Gvnc!TypeOK
  <2>3. Gvnc!TypeOK'
    BY <2>1 DEF GvncInv, Gvnc!TypeOK, GvncRest
  <2> QED
    BY <2>1, <2>2, <2>3 DEF GvncInv, GvncStages, GvncOwnerLives, Gvnc!NoEcho,
       Gvnc!FaultsKnown, Gvnc!ToldOnce, Gvnc!KeysArrive, GvncRest
<1>3. ASSUME NEW k \in Gvnc!Tools, Gvnc!CallFeature(k) PROVE GvncInv'
  <2>1. /\ s12' = [used |-> s12.used \cup {k},
                    got |-> IF k = "F8" THEN s12.got ELSE s12.got \cup {k}]
        /\ UNCHANGED <<s1, s2, s3, s4, s5, s6, s7, s8, s9,
                       s10, s11, s13>>
    BY <1>3 DEF Gvnc!CallFeature
  <2>2. s12.used \in SUBSET Gvnc!Tools /\ s12.got \in SUBSET Gvnc!Tools
    BY DEF GvncInv, Gvnc!TypeOK
  <2>3. s12' \in GvncKeysType /\ Gvnc!KeysArrive'
    BY <2>1, <2>2 DEF GvncKeysType, GvncInv, Gvnc!KeysArrive
  <2>4. Gvnc!TypeOK'
    BY <2>1, <2>3 DEF GvncInv, Gvnc!TypeOK, GvncKeysType
  <2> QED
    BY <2>1, <2>3, <2>4 DEF GvncInv, GvncStages, GvncOwnerLives, Gvnc!NoEcho,
       Gvnc!FaultsKnown, Gvnc!ToldOnce
<1>4. CASE UNCHANGED Gvnc!vars
  BY <1>4 DEF Gvnc!vars, GvncInv, Gvnc!TypeOK, GvncStages, GvncOwnerLives, Gvnc!NoEcho,
     Gvnc!FaultsKnown, Gvnc!ToldOnce, Gvnc!KeysArrive
<1> QED
  BY <1>1, <1>2, <1>3, <1>4, GvncEmitsStep, GvncHandleStep, GvncOpenStep, GvncCloseStep,
     GvncClipboardStep DEF Gvnc!Next

-----------------------------------------------------------------------------
(* The remote screen on the widget (src/plugins/vnc/vnc_plugin.c,          *)
(* rdp/rdp_event.c).                                                       *)
(* The variables: s1 width, s2 widget, s3 scaled, s4 queued, s5 stale.     *)

\* The quotient is the whole part: ...
LEMMA ScreenDivIs ==
    ASSUME NEW a \in Int, NEW n \in Nat \ {0}
    PROVE  a \div n \in Int /\ n * (a \div n) <= a /\ a < n * (a \div n) + n
OBVIOUS

\* ... it is at most k below the next multiple ...
LEMMA ScreenDivBelow ==
    ASSUME NEW a \in Int, NEW n \in Nat \ {0}, NEW k \in Int, a < n * k + n
    PROVE  a \div n <= k
<1> DEFINE q == a \div n
<1>1. q \in Int /\ n * q <= a
  BY ScreenDivIs
<1> HIDE DEF q
<1>2. n * q < n * k + n
  BY <1>1
<1>3. n * q < n * (k + 1)
  BY <1>1, <1>2
<1>4. q < k + 1
  BY <1>1, <1>3
<1> QED BY <1>1, <1>4 DEF q

\* ... and at least k from a multiple on.
LEMMA ScreenDivAbove ==
    ASSUME NEW a \in Int, NEW n \in Nat \ {0}, NEW k \in Int, n * k <= a
    PROVE  k <= a \div n
<1> DEFINE q == a \div n
<1>1. q \in Int /\ a < n * q + n
  BY ScreenDivIs
<1> HIDE DEF q
<1>2. n * k < n * q + n
  BY <1>1
<1>3. n * k < n * (q + 1)
  BY <1>1, <1>2
<1>4. k < q + 1
  BY <1>1, <1>3
<1> QED BY <1>1, <1>4 DEF q

\* A larger number has no smaller quotient.
LEMMA ScreenDivGrows ==
    ASSUME NEW a \in Int, NEW b \in Int, NEW n \in Nat \ {0}, a <= b
    PROVE  a \div n <= b \div n
<1>1. a \div n \in Int /\ n * (a \div n) <= b
  BY ScreenDivIs
<1> QED BY <1>1, ScreenDivAbove

\* A product does not shrink with one of its factors.
LEMMA ScreenTimesGrows ==
    ASSUME NEW a \in Int, NEW b \in Int, NEW n \in Nat, a <= b
    PROVE  a * n <= b * n
OBVIOUS

\* The pixels of the widget that show those of the server are within the area that scale_area
\* gives for them: it begins early enough ...
LEMMA ScreenScaledBegins ==
    ASSUME NEW W \in Nat \ {0}, NEW V \in Nat \ {0}, NEW x \in Nat, NEW p \in Nat, x <= p
    PROVE  LET one == V \div W
           IN  Screen!Least(Screen!Greatest(0, ((x * V) \div W) - one - 2),
              V - 1) <= (p * V) \div W
<1> DEFINE one == V \div W
           q == (x * V) \div W
           r == (p * V) \div W
<1>1. one \in Int /\ 0 <= one
  BY ScreenDivIs, ScreenDivAbove
<1>2. x * V \in Int /\ p * V \in Int /\ 0 <= x * V /\ x * V <= p * V
  BY ScreenTimesGrows
<1>3. q \in Int /\ r \in Int /\ q <= r
  BY <1>2, ScreenDivIs, ScreenDivGrows
<1>4. 0 <= q
  BY <1>2, ScreenDivAbove
<1> HIDE DEF one, q, r
<1>5. Screen!Least(Screen!Greatest(0, q - one - 2), V - 1) <= r
  BY <1>1, <1>3, <1>4 DEF Screen!Least, Screen!Greatest
<1> QED BY <1>5 DEF one, q, r

\* ... and ends late enough.
LEMMA ScreenScaledEnds ==
    ASSUME NEW W \in Nat \ {0}, NEW V \in Nat \ {0}, NEW x \in Nat, NEW w \in Nat \ {0},
           NEW p \in Nat, p + 1 <= x + w, x + w <= W
    PROVE  LET one == V \div W
               sx == Screen!Least(Screen!Greatest(0, ((x * V) \div W) - one - 2), V - 1)
           IN  ((p + 1) * V + W - 1) \div W <=
                  sx + Screen!Least(V - sx, ((w * V) \div W) + one + 4)
<1> DEFINE one == V \div W
           q == (x * V) \div W
           r == (w * V) \div W
           sx == Screen!Least(Screen!Greatest(0, q - one - 2), V - 1)
           e == (p + 1) * V + W - 1
<1>0. one \in Int /\ 0 <= one
  BY ScreenDivIs, ScreenDivAbove
<1>1. x * V \in Int /\ w * V \in Int /\ (p + 1) * V \in Int /\ e \in Int
  OBVIOUS
<1>2. (p + 1) * V <= x * V + w * V
  <2>1. (p + 1) * V <= (x + w) * V
    BY ScreenTimesGrows
  <2>2. (x + w) * V = x * V + w * V
    OBVIOUS
  <2> QED BY <2>1, <2>2
<1>3. (p + 1) * V <= W * V
  BY ScreenTimesGrows
<1>4. q \in Int /\ x * V < W * q + W
  BY <1>1, ScreenDivIs
<1>5. r \in Int /\ w * V < W * r + W
  BY <1>1, ScreenDivIs
<1>6. q <= V - 1
  <2>1. x <= W - 1
    OBVIOUS
  <2>2. x * V <= (W - 1) * V
    BY <2>1, ScreenTimesGrows
  <2>3. (W - 1) * V = W * V - V /\ W * (V - 1) + W = W * V
    OBVIOUS
  <2>4. x * V < W * (V - 1) + W
    BY <1>1, <2>2, <2>3
  <2> QED BY <1>1, <2>4, ScreenDivBelow
<1>7. sx \in Int /\ q - one - 2 <= sx
  BY <1>0, <1>4, <1>6 DEF Screen!Least, Screen!Greatest
<1>8. e \div W <= V
  <2>1. e < W * V + W
    BY <1>1, <1>3
  <2> QED BY <1>1, <2>1, ScreenDivBelow
<1>9. e \div W <= q + r + 2
  <2> DEFINE k == q + r + 2
  <2>1. k \in Int /\ W * k = W * q + W * r + W + W
    BY <1>4, <1>5
  <2>2. W * q \in Int /\ W * r \in Int /\ W * k \in Int
    BY <1>4, <1>5
  <2>3. e < W * k + W
    BY <1>1, <1>2, <1>4, <1>5, <2>1, <2>2
  <2> HIDE DEF k
  <2>4. e \div W <= k
    BY <1>1, <2>1, <2>3, ScreenDivBelow
  <2> QED BY <2>4 DEF k
<1>10. e \div W \in Int
  BY <1>1, ScreenDivIs
<1> HIDE DEF one, q, r, e, sx
<1>11. e \div W <= sx + Screen!Least(V - sx, r + one + 4)
  BY <1>0, <1>4, <1>5, <1>7, <1>8, <1>9, <1>10 DEF Screen!Least
<1> QED BY <1>11 DEF one, q, r, e, sx

\* The area that must be drawn lies on the widget, when it is scaled.
LEMMA ScreenScaledFits ==
    ASSUME NEW W \in Nat \ {0}, NEW V \in Nat \ {0}, NEW x \in Nat, NEW w \in Nat \ {0}
    PROVE  LET one == V \div W
               sx == Screen!Least(Screen!Greatest(0, ((x * V) \div W) - one - 2), V - 1)
               sw == Screen!Least(V - sx, ((w * V) \div W) + one + 4)
           IN  sx \in Nat /\ sw \in Nat /\ sx + sw <= V
<1> DEFINE one == V \div W
           q == (x * V) \div W
           r == (w * V) \div W
           sx == Screen!Least(Screen!Greatest(0, q - one - 2), V - 1)
           sw == Screen!Least(V - sx, r + one + 4)
<1>0. one \in Int /\ 0 <= one
  BY ScreenDivIs, ScreenDivAbove
<1>1. x * V \in Int /\ w * V \in Int /\ 0 <= x * V /\ 0 <= w * V
  OBVIOUS
<1>2. q \in Int
  BY <1>1, ScreenDivIs
<1>3. r \in Int /\ 0 <= r
  BY <1>1, ScreenDivIs, ScreenDivAbove
<1> HIDE DEF one, q, r
<1>4. sx \in Nat /\ sx <= V - 1
  BY <1>0, <1>2 DEF Screen!Least, Screen!Greatest
<1> HIDE DEF sx
<1>5. sw \in Nat /\ sx + sw <= V
  BY <1>0, <1>3, <1>4 DEF Screen!Least
<1> QED BY <1>4, <1>5 DEF one, q, r, sx

ScreenBounds == MaxServer \in Nat /\ MaxWidget \in Nat

ScreenAreaType == [x : Nat, w : Nat]
ScreenOnScreen(a) == a.x + a.w <= Screen!Greatest(s1, s2)
ScreenCovers(a, p) == Screen!Shown(p) \subseteq a.x .. a.x + a.w - 1

\* One area is queued as long as the widget does not show all that the server has sent, and it
\* covers what is missing.
ScreenInv ==
    /\ s1 \in 1 .. MaxServer /\ s2 \in 1 .. MaxWidget /\ s3 \in BOOLEAN
    /\ s5 \subseteq 0 .. s1 - 1
    /\ \/ s4 = {} /\ s5 = {}
       \/ \E a \in ScreenAreaType : s4 = {a} /\ ScreenOnScreen(a)
          /\ \A p \in s5 : ScreenCovers(a, p)

\* The area that an update asks for covers its pixels.
LEMMA ScreenUpdateCovers ==
    ASSUME s1 \in Nat \ {0}, s2 \in Nat \ {0}, s3 \in BOOLEAN,
           NEW x \in Nat, NEW w \in Nat \ {0}, x + w <= s1,
           NEW a, a = (IF s3 THEN Screen!scale_area([x |-> x, w |-> w]) ELSE [x |-> x, w |-> w])
    PROVE  /\ a \in ScreenAreaType /\ ScreenOnScreen(a)
           /\ \A p \in x .. x + w - 1 : ScreenCovers(a, p)
<1>1. CASE ~s3
  <2>1. a = [x |-> x, w |-> w]
    BY <1>1
  <2>2. a.x = x /\ a.w = w /\ a \in ScreenAreaType
    BY <2>1 DEF ScreenAreaType
  <2>3. ScreenOnScreen(a)
    BY <2>2 DEF ScreenOnScreen, Screen!Greatest
  <2>4. ASSUME NEW p \in x .. x + w - 1 PROVE ScreenCovers(a, p)
    BY <1>1, <2>2 DEF ScreenCovers, Screen!Shown
  <2> QED BY <2>2, <2>3, <2>4
<1>2. CASE s3 /\ s2 = s1
  <2>1. a = [x |-> x, w |-> w]
    BY <1>2 DEF Screen!scale_area
  <2>2. a.x = x /\ a.w = w /\ a \in ScreenAreaType
    BY <2>1 DEF ScreenAreaType
  <2>3. ScreenOnScreen(a)
    BY <2>2 DEF ScreenOnScreen, Screen!Greatest
  <2>4. ASSUME NEW p \in x .. x + w - 1 PROVE ScreenCovers(a, p)
    <3> DEFINE b == p * s1
               e == (p + 1) * s1 + s1 - 1
    <3>1. p \in Nat /\ b \in Int /\ e \in Int /\ s1 * p = b /\ s1 * (p + 1) = e - s1 + 1
      OBVIOUS
    <3>2. p <= b \div s1
      BY <3>1, ScreenDivAbove
    <3>3. e \div s1 <= p + 1
      <4>1. p + 1 \in Int /\ e < s1 * (p + 1) + s1
        BY <3>1
      <4> QED BY <3>1, <4>1, ScreenDivBelow
    <3>4. b \div s1 \in Int /\ e \div s1 \in Int
      BY <3>1, ScreenDivIs
    <3>5. Screen!Shown(p) = b \div s1 .. e \div s1 - 1
      BY <1>2 DEF Screen!Shown
    <3> HIDE DEF b, e
    <3> QED BY <2>2, <3>1, <3>2, <3>3, <3>4, <3>5 DEF ScreenCovers
  <2> QED BY <2>2, <2>3, <2>4
<1>3. CASE s3 /\ s2 # s1
  <2> DEFINE one == s2 \div s1
             sx == Screen!Least(Screen!Greatest(0, ((x * s2) \div s1) - one - 2), s2 - 1)
             sw == Screen!Least(s2 - sx, ((w * s2) \div s1) + one + 4)
  <2>1. a = [x |-> sx, w |-> sw]
    BY <1>3 DEF Screen!scale_area
  <2>2. sx \in Nat /\ sw \in Nat /\ sx + sw <= s2
    BY ScreenScaledFits
  <2>3. \A p \in x .. x + w - 1 : sx <= (p * s2) \div s1
    <3>1. ASSUME NEW p \in x .. x + w - 1 PROVE sx <= (p * s2) \div s1
      <4>1. p \in Nat /\ x <= p
        OBVIOUS
      <4> QED BY <4>1, ScreenScaledBegins
    <3> QED BY <3>1
  <2>4. \A p \in x .. x + w - 1 : ((p + 1) * s2 + s1 - 1) \div s1 <= sx + sw
    <3>1. ASSUME NEW p \in x .. x + w - 1
          PROVE  ((p + 1) * s2 + s1 - 1) \div s1 <= sx + sw
      <4>1. p \in Nat /\ p + 1 <= x + w
        OBVIOUS
      <4> QED BY <4>1, ScreenScaledEnds
    <3> QED BY <3>1
  <2> HIDE DEF sx, sw
  <2>5. a.x = sx /\ a.w = sw /\ a \in ScreenAreaType
    BY <2>1, <2>2 DEF ScreenAreaType
  <2>6. ScreenOnScreen(a)
    BY <2>2, <2>5 DEF ScreenOnScreen, Screen!Greatest
  <2>7. ASSUME NEW p \in x .. x + w - 1 PROVE ScreenCovers(a, p)
    <3> DEFINE l == (p * s2) \div s1
               h == ((p + 1) * s2 + s1 - 1) \div s1
    <3>1. l \in Int /\ h \in Int
      <4>1. p * s2 \in Int /\ (p + 1) * s2 + s1 - 1 \in Int
        OBVIOUS
      <4> QED BY <4>1, ScreenDivIs
    <3>2. Screen!Shown(p) = l .. h - 1
      BY <1>3 DEF Screen!Shown
    <3>3. sx <= l /\ h <= sx + sw
      BY <2>3, <2>4
    <3> HIDE DEF l, h
    <3> QED BY <2>2, <2>5, <3>1, <3>2, <3>3 DEF ScreenCovers
  <2> QED BY <2>5, <2>6, <2>7
<1> QED BY <1>1, <1>2, <1>3

\* Two areas that are joined cover what each did.
LEMMA ScreenJoinedCovers ==
    ASSUME s1 \in Nat, s2 \in Nat, NEW a \in ScreenAreaType, NEW o \in ScreenAreaType,
           ScreenOnScreen(a), ScreenOnScreen(o), NEW j,
           j = [x |-> Screen!Least(o.x, a.x),
                w |-> Screen!Greatest(o.x + o.w, a.x + a.w) - Screen!Least(o.x, a.x)]
    PROVE  /\ j \in ScreenAreaType /\ ScreenOnScreen(j)
           /\ \A p : ScreenCovers(a, p) \/ ScreenCovers(o, p) => ScreenCovers(j, p)
<1>1. a.x \in Nat /\ a.w \in Nat /\ o.x \in Nat /\ o.w \in Nat
  BY DEF ScreenAreaType
<1>2. j.x = Screen!Least(o.x, a.x)
      /\ j.w = Screen!Greatest(o.x + o.w, a.x + a.w) - Screen!Least(o.x, a.x)
  OBVIOUS
<1>3. /\ j.x \in Nat /\ j.w \in Nat /\ j.x <= o.x /\ j.x <= a.x
      /\ j.x + j.w = Screen!Greatest(o.x + o.w, a.x + a.w)
  BY <1>1, <1>2 DEF Screen!Least, Screen!Greatest
<1>4. /\ o.x + o.w <= j.x + j.w /\ a.x + a.w <= j.x + j.w
      /\ j.x + j.w \in {o.x + o.w, a.x + a.w}
  BY <1>1, <1>3 DEF Screen!Greatest
<1>5. j \in ScreenAreaType
  BY <1>3 DEF ScreenAreaType
<1>6. ScreenOnScreen(j)
  BY <1>4 DEF ScreenOnScreen
<1>7. /\ a.x .. a.x + a.w - 1 \subseteq j.x .. j.x + j.w - 1
      /\ o.x .. o.x + o.w - 1 \subseteq j.x .. j.x + j.w - 1
  BY <1>1, <1>3, <1>4
<1>8. \A p : ScreenCovers(a, p) \/ ScreenCovers(o, p) => ScreenCovers(j, p)
  BY <1>7 DEF ScreenCovers
<1> QED BY <1>5, <1>6, <1>8

\* It holds before the first update.
LEMMA ScreenInitInv == ASSUME Screen!Init PROVE ScreenInv
BY DEF Screen!Init, ScreenInv

\* The area of an update is queued, ...
LEMMA ScreenUpdateStep ==
    ASSUME ScreenBounds, ScreenInv, NEW x \in 0 .. MaxServer - 1, NEW w \in 1 .. MaxServer,
           Screen!updatefb(x, w)
    PROVE  ScreenInv'
<1> DEFINE a == IF s3 THEN Screen!scale_area([x |-> x, w |-> w]) ELSE [x |-> x, w |-> w]
<1>1. /\ x + w <= s1 /\ s5' = s5 \cup x .. x + w - 1
      /\ s1' = s1 /\ s2' = s2 /\ s3' = s3 /\ Screen!queue_draw_area(a)
  BY DEF Screen!updatefb
<1>2. /\ s1 \in Nat \ {0} /\ s2 \in Nat \ {0} /\ s3 \in BOOLEAN
      /\ x \in Nat /\ w \in Nat \ {0} /\ s1 \in 1 .. MaxServer /\ s2 \in 1 .. MaxWidget
  BY DEF ScreenInv, ScreenBounds
<1>3. /\ a \in ScreenAreaType /\ ScreenOnScreen(a)
      /\ \A p \in x .. x + w - 1 : ScreenCovers(a, p)
  BY <1>1, <1>2, ScreenUpdateCovers
<1> HIDE DEF a
<1>4. s5' \subseteq 0 .. s1' - 1
  BY <1>1, <1>2 DEF ScreenInv
<1>5. \A b, p : (ScreenOnScreen(b) => ScreenOnScreen(b)')
      /\ (ScreenCovers(b, p) => ScreenCovers(b, p)')
  BY <1>1 DEF ScreenOnScreen, ScreenCovers, Screen!Shown
<1>6. \E b \in ScreenAreaType : s4' = {b} /\ ScreenOnScreen(b)
      /\ \A p \in s5' : ScreenCovers(b, p)
  <2>1. CASE s4 = {}
    <3>1. s5 = {} /\ s4' = {a}
      BY <1>1, <2>1 DEF ScreenInv, Screen!queue_draw_area
    <3> QED BY <1>1, <1>3, <3>1
  <2>2. CASE s4 # {}
    <3>1. PICK o \in ScreenAreaType :
             s4 = {o} /\ ScreenOnScreen(o) /\ \A p \in s5 : ScreenCovers(o, p)
      BY <2>2 DEF ScreenInv
    <3> DEFINE j == [x |-> Screen!Least(o.x, a.x),
                     w |-> Screen!Greatest(o.x + o.w, a.x + a.w) - Screen!Least(o.x, a.x)]
    <3>2. s4' = {j}
      BY <1>1, <2>2, <3>1 DEF Screen!queue_draw_area
    <3>3. /\ j \in ScreenAreaType /\ ScreenOnScreen(j)
          /\ \A p : ScreenCovers(a, p) \/ ScreenCovers(o, p) => ScreenCovers(j, p)
      BY <1>2, <1>3, <3>1, ScreenJoinedCovers
    <3> HIDE DEF j
    <3> QED BY <1>1, <1>3, <3>1, <3>2, <3>3
  <2> QED BY <2>1, <2>2
<1> QED BY <1>1, <1>2, <1>4, <1>5, <1>6 DEF ScreenInv

\* ... drawn, and nothing is left of it; so it is when all of the widget is drawn.
LEMMA ScreenStepInv == ASSUME ScreenBounds, ScreenInv,
   [Screen!Next]_(Screen!vars) PROVE ScreenInv'
<1>1. ASSUME NEW x \in 0 .. MaxServer - 1, NEW w \in 1 .. MaxServer, Screen!updatefb(x, w)
      PROVE  ScreenInv'
  BY <1>1, ScreenUpdateStep
<1>2. CASE Screen!queue_draw_area_real
  <2>1. /\ s4 # {} /\ s4' = {} /\ UNCHANGED <<s1, s2, s3>>
        /\ s5' = {p \in s5 : \A a \in s4 : ~Screen!Shown(p) \subseteq a.x .. a.x + a.w - 1}
    BY <1>2 DEF Screen!queue_draw_area_real
  <2>2. \E a \in ScreenAreaType : s4 = {a} /\ \A p \in s5 : ScreenCovers(a, p)
    BY <2>1 DEF ScreenInv
  <2>3. s5' = {}
    BY <2>1, <2>2 DEF ScreenCovers
  <2> QED BY <2>1, <2>3 DEF ScreenInv
<1>3. ASSUME NEW w \in 1 .. MaxWidget, NEW s \in BOOLEAN, Screen!Reshape(w, s) PROVE ScreenInv'
  BY <1>3 DEF Screen!Reshape, ScreenInv
<1>4. CASE UNCHANGED Screen!vars
  BY <1>4 DEF ScreenInv, ScreenOnScreen, ScreenCovers, Screen!Shown, Screen!vars
<1> QED BY <1>1, <1>2, <1>3, <1>4 DEF Screen!Next

-----------------------------------------------------------------------------
(* What the invariant means.                                               *)

\* The size of a set, as the module of the screen says it.
LEMMA ScreenCardinality == \A S : Screen!Cardinality(S) = Cardinality(S)
BY DEF Screen!Cardinality, Cardinality

\* What was missing is drawn when nothing is queued, and the variables are in their types.
LEMMA ScreenInvTyped == ASSUME ScreenBounds, ScreenInv PROVE Screen!TypeOK /\ Screen!DrawnCovers
<1>1. /\ s1 \in 1 .. MaxServer /\ s2 \in 1 .. MaxWidget /\ s3 \in BOOLEAN
      /\ MaxServer \in Nat /\ MaxWidget \in Nat
  BY DEF ScreenInv, ScreenBounds
<1>2. s5 \subseteq 0 .. MaxServer - 1
  BY <1>1 DEF ScreenInv
<1>3. s4 \subseteq Screen!Areas /\ Screen!Cardinality(s4) <= 1
  <2>1. CASE s4 = {}
    <3>1. Screen!Cardinality({}) = 0
      BY FS_EmptySet, ScreenCardinality
    <3> QED BY <2>1, <3>1
  <2>2. ASSUME NEW a \in ScreenAreaType, s4 = {a}, ScreenOnScreen(a)
        PROVE  s4 \subseteq Screen!Areas /\ Screen!Cardinality(s4) <= 1
    <3>1. Screen!Cardinality({a}) = 1
      BY FS_Singleton, ScreenCardinality
    <3>2. a.x \in Nat /\ a.w \in Nat /\ a = [x |-> a.x, w |-> a.w]
      BY DEF ScreenAreaType
    <3>3. a.x \in 0 .. MaxServer + MaxWidget /\ a.w \in 0 .. MaxServer + MaxWidget
      BY <1>1, <2>2, <3>2 DEF ScreenOnScreen, Screen!Greatest
    <3>4. a \in Screen!Areas
      BY <3>2, <3>3 DEF Screen!Areas
    <3> QED BY <2>2, <3>1, <3>4
  <2> QED BY <2>1, <2>2 DEF ScreenInv
<1>4. Screen!DrawnCovers
  BY DEF ScreenInv, Screen!DrawnCovers
<1> QED BY <1>1, <1>2, <1>3, <1>4 DEF Screen!TypeOK

\* A position that is turned into one of the widget and back.
LEMMA ScreenPointerIs == ASSUME ScreenBounds, ScreenInv PROVE Screen!PointerReturns
<1> DEFINE W == s1
           V == s2
<1>1. W \in Nat \ {0} /\ V \in Nat \ {0} /\ s3 \in BOOLEAN
  BY DEF ScreenInv, ScreenBounds
<1>2. ASSUME NEW o \in 0 .. W - 1
      PROVE  LET back == Screen!translate_pos(Screen!reverse_translate_pos(o))
             IN  back <= o /\ (o - back) * V <= W + V
  <2>1. CASE ~s3
    <3>1. Screen!translate_pos(Screen!reverse_translate_pos(o)) = o
      BY <2>1 DEF Screen!translate_pos, Screen!reverse_translate_pos
    <3>2. o <= o /\ (o - o) * V <= W + V
      BY <1>1
    <3> QED BY <3>1, <3>2
  <2>2. CASE s3
    <3> DEFINE r == (o * V) \div W
               b == (r * W) \div V
    <3>0. o \in Nat /\ o * V \in Int
      BY <1>1
    <3>1. r \in Int /\ W * r <= o * V /\ o * V < W * r + W
      BY <1>1, <3>0, ScreenDivIs
    <3> HIDE DEF r
    <3>2. r * W \in Int /\ r * W = W * r
      BY <1>1, <3>1
    <3>3. b \in Int /\ r * W < V * b + V
      BY <1>1, <3>2, ScreenDivIs
    <3>4. b <= o
      <4>1. o * V = V * o
        BY <1>1
      <4>2. r * W < V * o + V
        BY <1>1, <3>0, <3>1, <3>2, <4>1
      <4> QED BY <1>1, <3>0, <3>2, <4>2, ScreenDivBelow
    <3> HIDE DEF b
    <3>5. (o - b) * V = o * V - V * b
      BY <1>1, <3>0, <3>3
    <3>6. V * b \in Int
      BY <1>1, <3>3
    <3>7. (o - b) * V <= W + V
      BY <1>1, <3>0, <3>1, <3>2, <3>3, <3>5, <3>6
    <3>8. Screen!translate_pos(Screen!reverse_translate_pos(o)) = b
      BY <2>2 DEF Screen!translate_pos, Screen!reverse_translate_pos, b, r
    <3> QED BY <3>4, <3>7, <3>8
  <2> QED BY <1>1, <2>1, <2>2
<1> QED BY <1>2 DEF Screen!PointerReturns

\* A turn of the wheel that fits is told by its bits.
LEMMA ScreenWheelIs ==
    ASSUME NEW d \in -600 .. 600
    PROVE  Screen!WheelMeant(Screen!WheelRotation(d)) = Screen!Least(Screen!Greatest(d,
           -256), 255)
<1> DEFINE k == Screen!Least(Screen!Greatest(d, -256), 255)
<1>1. k \in -256 .. 255
  BY DEF Screen!Least, Screen!Greatest
<1> HIDE DEF k
<1>2. k % 512 = IF k < 0 THEN k + 512 ELSE k
  BY <1>1
<1>3. Screen!WheelRotation(d) = k % 512
  BY DEF Screen!WheelRotation, k
<1>4. Screen!WheelMeant(k % 512) = k
  BY <1>1, <1>2 DEF Screen!WheelMeant
<1> QED BY <1>3, <1>4 DEF k

\* The turns that the property looks at all fit in the range of the lemma.
LEMMA ScreenWheelTold == Screen!WheelArrives
<1>1. {-600, -257, -256, -255, -120, -1, 0, 1, 120, 254, 255, 256, 600} \subseteq -600 .. 600
  OBVIOUS
<1> QED BY <1>1, ScreenWheelIs DEF Screen!WheelArrives

\* The primary monitor is at the origin when it was chosen.
LEMMA ScreenPrimaryThere == Screen!PrimaryAtOrigin
<1> SUFFICES ASSUME NEW chosen \in SUBSET (1 .. 3) \ {{}}, NEW at \in [1 .. 3 -> 0 .. 2],
                    NEW primary \in 1 .. 3, primary \in chosen
             PROVE  /\ Screen!monitor_get(chosen, at, primary)[primary] = [x |-> 0,
                       empty |-> FALSE]
                    /\ \A m \in Screen!IsPrimary(chosen, at, primary) \ {primary} :
                          m < primary /\ at[m] = 0
  BY DEF Screen!PrimaryAtOrigin
<1>1. Screen!Primary(chosen, at, primary) = primary
  BY DEF Screen!Primary
<1>2. Screen!monitor_get(chosen, at, primary)[primary] = [x |-> 0, empty |-> FALSE]
  <2>1. at[primary] - at[primary] = 0 /\ DOMAIN at = 1 .. 3
    OBVIOUS
  <2> QED BY <1>1, <2>1 DEF Screen!monitor_get
<1>3. ASSUME NEW m \in Screen!IsPrimary(chosen, at, primary) \ {primary}
      PROVE  m < primary /\ at[m] = 0
  <2> DEFINE zeros == {n \in chosen : at[n] = 0 /\ (primary \in chosen => n < primary)}
  <2>1. zeros # {} /\ m = CHOOSE k \in zeros : \A n \in zeros : k <= n
    BY <1>3 DEF Screen!IsPrimary
  <2>2. \E k \in zeros : \A n \in zeros : k <= n
    <3>1. zeros \subseteq 1 .. 3
      OBVIOUS
    <3> HIDE DEF zeros
    <3>2. CASE 1 \in zeros
      BY <3>1, <3>2
    <3>3. CASE 1 \notin zeros /\ 2 \in zeros
      BY <3>1, <3>3
    <3>4. CASE zeros = {3}
      BY <3>4
    <3>5. ASSUME 1 \notin zeros, 2 \notin zeros PROVE zeros = {3}
      <4>1. zeros # {} /\ zeros \subseteq {1, 2, 3}
        BY <2>1, <3>1
      <4> QED BY <3>5, <4>1
    <3> QED BY <3>2, <3>3, <3>4, <3>5
  <2>3. m \in zeros
    BY <2>1, <2>2
  <2> QED BY <2>3
<1> QED BY <1>2, <1>3

\* What it says of the screen.
LEMMA ScreenInvMeans ==
    ASSUME ScreenBounds, ScreenInv
    PROVE  Screen!TypeOK /\ Screen!DrawnCovers /\ Screen!PointerReturns
           /\ Screen!WheelArrives /\ Screen!PrimaryAtOrigin
BY ScreenInvTyped, ScreenPointerIs, ScreenWheelTold, ScreenPrimaryThere

-----------------------------------------------------------------------------
(* The tool bar of a window (src/src/rcw.c).                               *)
(* The variables: s1 startdynres, s2 vis, s3 pend, s4 tabs, s5 btn, s6     *)
(* sens, s7 aligns, s8 shown, s9 behind, s10 stale, s11 viewodd.           *)

BarBounds == Toolbar!None \notin BarTabs
             /\ Features \in [BarTabs -> [scale : BOOLEAN, dynres : BOOLEAN,
                viewonly : BOOLEAN]]

BarTabType == [connected : {"no", "yes", "ended"}, unlocked : BOOLEAN, mode : Toolbar!Modes,
            expand : BOOLEAN, viewonly : BOOLEAN, frame : BOOLEAN]

\* The toggles that are active, and those that can be, are of the tab the bar was set for.
BarCan ==
    s8 # Toolbar!None =>
       /\ "dynres" \in s5 \cup s6 => Features[s8].dynres
       /\ "scale" \in s5 \cup s6 => Features[s8].scale

\* The toggles say the mode of the tab the bar was set for, be it in view or not.
BarTells ==
    s8 # Toolbar!None /\ Toolbar!Connected(s8) /\ ~s1 =>
       s5 \ {"viewonly"} = Toolbar!Toggles(Toolbar!Allowed(s8, s4[s8].mode))

BarInv ==
    /\ Toolbar!TypeOK /\ BarCan /\ BarTells
    /\ Toolbar!BarFollows /\ Toolbar!ModePossible /\ Toolbar!ViewonlyTold /\ Toolbar!FrameRight

\* What a plugin is allowed is what it can.
LEMMA BarAllowedIs ==
    ASSUME BarBounds, NEW t \in BarTabs, NEW mode \in Toolbar!Modes
    PROVE  /\ Toolbar!Allowed(t, mode) \in Toolbar!Modes
           /\ Toolbar!Allowed(t, mode) = "dynres" => Features[t].dynres
           /\ Toolbar!Allowed(t, mode) = "scaled" => Features[t].scale
           /\ ~s1 => Toolbar!Allowed(t, Toolbar!Allowed(t, mode)) = Toolbar!Allowed(t, mode)
BY DEF Toolbar!Allowed, Toolbar!Modes, BarBounds

\* The toggles of a mode.
LEMMA BarTogglesAre ==
    /\ Toolbar!Toggles("dynres") = {"dynres"} /\ Toolbar!Toggles("scaled") = {"scale"}
       /\ Toolbar!Toggles("none") = {}
BY DEF Toolbar!Toggles

\* It holds of a new window.
LEMMA BarInitInv == ASSUME BarBounds, Toolbar!Init PROVE BarInv
<1>1. PICK mode \in [BarTabs -> Toolbar!Modes], expand \in BOOLEAN, viewonly \in BOOLEAN :
         s4 = [t \in BarTabs |-> [connected |-> "no", unlocked |-> FALSE,
                     mode |-> Toolbar!Allowed(t, mode[t]), expand |-> expand,
                     viewonly |-> viewonly, frame |-> FALSE]]
  BY DEF Toolbar!Init
<1>2. ASSUME NEW t \in BarTabs
      PROVE  /\ s4[t] \in BarTabType /\ s4[t].connected = "no"
             /\ s4[t].mode = Toolbar!Allowed(t, mode[t])
  <2>1. mode[t] \in Toolbar!Modes /\ Toolbar!Allowed(t, mode[t]) \in Toolbar!Modes
    BY BarAllowedIs
  <2> QED BY <1>1, <2>1 DEF BarTabType
<1>3. s4 \in [BarTabs -> BarTabType]
  BY <1>1, <1>2
<1>4. Toolbar!TypeOK
  BY <1>3 DEF Toolbar!Init, Toolbar!TypeOK, BarTabType, Toolbar!Buttons
<1>5. Toolbar!ModePossible
  <2>1. ASSUME NEW t \in BarTabs, ~s1 PROVE Toolbar!Allowed(t, s4[t].mode) = s4[t].mode
    <3>1. mode[t] \in Toolbar!Modes
      OBVIOUS
    <3> QED BY <1>2, <2>1, <3>1, BarAllowedIs
  <2> QED BY <2>1 DEF Toolbar!ModePossible
<1>6. Toolbar!FrameRight
  BY <1>2 DEF Toolbar!FrameRight, Toolbar!Connected
<1>7. Toolbar!BarFollows
  BY DEF Toolbar!Init, Toolbar!BarFollows, BarBounds
<1> QED BY <1>4, <1>5, <1>6, <1>7 DEF Toolbar!Init, BarInv, BarCan, BarTells,
   Toolbar!ViewonlyTold

\* What setting the bar for a tab leaves.
LEMMA BarUpdateIs ==
    ASSUME BarBounds, NEW t \in BarTabs, NEW now \in [BarTabs -> BarTabType],
           s5 \subseteq Toolbar!Buttons,
           s2 \in BarTabs, Toolbar!rco_update_toolbar(t, now)
    PROVE  /\ s5' \subseteq Toolbar!Buttons /\ s6' \subseteq Toolbar!Buttons \cup {"option"}
           /\ s8' = t /\ s9' = (t # s2)
           /\ "viewonly" \in s5' <=> "viewonly" \in s5
           /\ s5' \ {"viewonly"} = Toolbar!Toggles(Toolbar!Allowed(t, now[t].mode))
           /\ "dynres" \in s5' \cup s6' => Features[t].dynres
           /\ "scale" \in s5' \cup s6' => Features[t].scale
<1> DEFINE mode == Toolbar!Allowed(t, now[t].mode)
           can == [dynres |-> Features[t].dynres /\ now[t].unlocked,
                   scale |-> Features[t].scale, viewonly |-> Features[t].viewonly]
<1>1. now[t].mode \in Toolbar!Modes
  BY DEF BarTabType
<1>2. /\ mode \in Toolbar!Modes
      /\ mode = "dynres" => Features[t].dynres
      /\ mode = "scaled" => Features[t].scale
  BY <1>1, BarAllowedIs
<1>3. /\ s5' = (s5 \cap {"viewonly"}) \cup Toolbar!Toggles(mode)
      /\ s6' = IF now[t].connected # "yes" THEN {}
                 ELSE {b \in Toolbar!Buttons : can[b]} \cup (IF mode = "scaled"
                    THEN {"option"} ELSE {})
      /\ s8' = t /\ s9' = (t # s2)
  BY DEF Toolbar!rco_update_toolbar
<1> HIDE DEF mode
<1>4. /\ Toolbar!Toggles(mode) \subseteq {"dynres", "scale"}
      /\ "dynres" \in Toolbar!Toggles(mode) => Features[t].dynres
      /\ "scale" \in Toolbar!Toggles(mode) => Features[t].scale
  <2>1. CASE mode = "dynres"
    BY <1>2, <2>1, BarTogglesAre
  <2>2. CASE mode = "scaled"
    BY <1>2, <2>2, BarTogglesAre
  <2>3. CASE mode = "none"
    BY <2>3, BarTogglesAre
  <2> QED BY <1>2, <2>1, <2>2, <2>3 DEF Toolbar!Modes
<1>5. /\ s6' \subseteq Toolbar!Buttons \cup {"option"}
      /\ "dynres" \in s6' => can["dynres"]
      /\ "scale" \in s6' => can["scale"]
  BY <1>3
<1>6. (can["dynres"] => Features[t].dynres) /\ (can["scale"] => Features[t].scale)
  OBVIOUS
<1> HIDE DEF can
<1>7. s5' \subseteq Toolbar!Buttons /\ ("viewonly" \in s5' <=> "viewonly" \in s5)
  BY <1>3, <1>4 DEF Toolbar!Buttons
<1>8. s5' \ {"viewonly"} = Toolbar!Toggles(mode)
  BY <1>3, <1>4
<1> QED BY <1>3, <1>4, <1>5, <1>6, <1>7, <1>8 DEF mode

\* The bar is set for a tab, whose mode is what it was: ...
LEMMA BarSet ==
    ASSUME BarBounds, BarInv, NEW t \in BarTabs, NEW now \in [BarTabs -> BarTabType],
           Toolbar!rco_update_toolbar(t, now), s4' = now, UNCHANGED <<s1, s2, s10, s11>>,
           s3' \in {s3, Toolbar!None}, s3 # Toolbar!None => s3' = s3 \/ t = s3,
           \A u \in BarTabs : now[u].mode = s4[u].mode /\ now[u].viewonly = s4[u].viewonly,
           s7' \subseteq BarTabs, Toolbar!FrameRight'
    PROVE  BarInv'
<1>1. s5 \subseteq Toolbar!Buttons /\ s2 \in BarTabs
  BY DEF BarInv, Toolbar!TypeOK
<1>2. /\ s5' \subseteq Toolbar!Buttons /\ s6' \subseteq Toolbar!Buttons \cup {"option"}
      /\ s8' = t /\ s9' = (t # s2)
      /\ "viewonly" \in s5' <=> "viewonly" \in s5
      /\ s5' \ {"viewonly"} = Toolbar!Toggles(Toolbar!Allowed(t, now[t].mode))
      /\ "dynres" \in s5' \cup s6' => Features[t].dynres
      /\ "scale" \in s5' \cup s6' => Features[t].scale
  BY <1>1, BarUpdateIs
<1>3. Toolbar!TypeOK'
  <2>1. s4' \in [BarTabs -> BarTabType]
    OBVIOUS
  <2>2. s9' \in BOOLEAN
    BY <1>2
  <2> QED BY <1>2, <2>1, <2>2 DEF BarInv, Toolbar!TypeOK, BarTabType
<1>4. BarCan'
  BY <1>2 DEF BarCan
<1>5. \A u \in BarTabs, m \in Toolbar!Modes : Toolbar!Allowed(u, m)' = Toolbar!Allowed(u, m)
  BY DEF Toolbar!Allowed
<1>6. BarTells'
  <2>1. now[t].mode \in Toolbar!Modes
    BY DEF BarTabType
  <2>2. Toolbar!Allowed(t, now[t].mode)' = Toolbar!Allowed(t, now[t].mode)
    BY DEF Toolbar!Allowed
  <2>3. Toolbar!Allowed(s8, s4[s8].mode)' = Toolbar!Allowed(t, now[t].mode)
    BY <1>2, <2>2 DEF Toolbar!Allowed
  <2> QED BY <1>2, <2>3 DEF BarTells, Toolbar!Toggles
<1>7. Toolbar!BarFollows'
  BY <1>2 DEF Toolbar!BarFollows
<1>8. Toolbar!ModePossible'
  BY DEF BarInv, Toolbar!ModePossible, Toolbar!Allowed
<1>9. Toolbar!ViewonlyTold'
  BY <1>1, <1>2 DEF BarInv, Toolbar!ViewonlyTold
<1> QED BY <1>3, <1>4, <1>6, <1>7, <1>8, <1>9 DEF BarInv

\* ... when the idle source runs, a tab connects, or a server changes what it allows.
LEMMA BarSetStep ==
    ASSUME BarBounds, BarInv,
           \/ Toolbar!rcw_on_switch_page_finalsel
           \/ \E t \in BarTabs : Toolbar!Connect(t)
           \/ \E t \in BarTabs, b \in BOOLEAN : Toolbar!LockDynres(t, b)
    PROVE  BarInv'
<1>0. /\ s4 \in [BarTabs -> BarTabType] /\ s7 \subseteq BarTabs
         /\ s3 \in BarTabs \cup {Toolbar!None}
      /\ Toolbar!FrameRight
  BY DEF BarInv, Toolbar!TypeOK, BarTabType
<1>1. CASE Toolbar!rcw_on_switch_page_finalsel
  <2>1. /\ s3 # Toolbar!None /\ Toolbar!rco_update_toolbar(s3, s4) /\ s3' = Toolbar!None
        /\ UNCHANGED <<s1, s2, s4, s7, s10, s11>>
    BY <1>1 DEF Toolbar!rcw_on_switch_page_finalsel
  <2>2. Toolbar!FrameRight'
    BY <1>0, <2>1 DEF Toolbar!FrameRight, Toolbar!Connected, Toolbar!Allowed
  <2> QED BY <1>0, <2>1, <2>2, BarSet
<1>2. ASSUME NEW t \in BarTabs, Toolbar!Connect(t) PROVE BarInv'
  <2> DEFINE now == [s4 EXCEPT ![t].connected = "yes"]
  <2>1. /\ s4' = now /\ Toolbar!rco_update_toolbar(t, now) /\ s7' = s7 \cup {t}
        /\ UNCHANGED <<s1, s2, s3, s10, s11>>
    BY <1>2 DEF Toolbar!Connect
  <2>2. now \in [BarTabs -> BarTabType]
    BY <1>0 DEF BarTabType
  <2>3. \A u \in BarTabs : /\ now[u].mode = s4[u].mode /\ now[u].viewonly = s4[u].viewonly
                           /\ u # t => now[u] = s4[u]
    BY <1>0 DEF BarTabType
  <2> HIDE DEF now
  <2>4. Toolbar!FrameRight'
    BY <1>0, <2>1, <2>3 DEF Toolbar!FrameRight, Toolbar!Connected, Toolbar!Allowed
  <2>5. s3' = s3 /\ s7' \subseteq BarTabs
    BY <1>0, <2>1
  <2> QED BY <2>1, <2>2, <2>3, <2>4, <2>5, BarSet
<1>3. ASSUME NEW t \in BarTabs, NEW b \in BOOLEAN, Toolbar!LockDynres(t, b) PROVE BarInv'
  <2> DEFINE now == [s4 EXCEPT ![t].unlocked = b]
  <2>1. /\ s4' = now /\ Toolbar!rco_update_toolbar(t, now)
        /\ UNCHANGED <<s1, s2, s3, s7, s10, s11>>
    BY <1>3 DEF Toolbar!LockDynres
  <2>2. now \in [BarTabs -> BarTabType]
    BY <1>0 DEF BarTabType
  <2>3. \A u \in BarTabs : /\ now[u].mode = s4[u].mode /\ now[u].viewonly = s4[u].viewonly
                           /\ now[u].connected = s4[u].connected
                           /\ now[u].frame = s4[u].frame /\ now[u].expand = s4[u].expand
    BY <1>0 DEF BarTabType
  <2> HIDE DEF now
  <2>4. Toolbar!FrameRight'
    BY <1>0, <2>1, <2>3 DEF Toolbar!FrameRight, Toolbar!Connected, Toolbar!Allowed
  <2>5. s3' = s3 /\ s7' \subseteq BarTabs
    BY <1>0, <2>1
  <2> QED BY <2>1, <2>2, <2>3, <2>4, <2>5, BarSet
<1> QED BY <1>1, <1>2, <1>3

\* The mode that the toggles say is given to the tab in view, and the bar was used for it.
LEMMA BarModeChanged ==
    ASSUME BarBounds, BarInv, NEW active, active \subseteq Toolbar!Buttons, s5' = active,
           Toolbar!rco_change_scalemode("dynres" \in active, "scale" \in active), Toolbar!Used,
           UNCHANGED <<s1, s2, s3, s9, s11>>,
           "viewonly" \in active <=> "viewonly" \in s5,
           s8 = s2 => /\ "dynres" \in active => Features[s2].dynres
                      /\ "scale" \in active => Features[s2].scale,
           s8 = s2 /\ Toolbar!Connected(s2) /\ ~s1 =>
              ~("dynres" \in active /\ "scale" \in active)
    PROVE  BarInv'
<1> DEFINE mode == IF "dynres" \in active THEN "dynres"
                   ELSE IF "scale" \in active THEN "scaled" ELSE "none"
<1>0. /\ s4 \in [BarTabs -> BarTabType] /\ s2 \in BarTabs /\ s8 \in BarTabs \cup {Toolbar!None}
      /\ s7 \subseteq BarTabs /\ s10 \subseteq BarTabs
         /\ s6 \subseteq Toolbar!Buttons \cup {"option"}
      /\ s1 \in BOOLEAN /\ Toolbar!None \notin BarTabs
  BY DEF BarInv, Toolbar!TypeOK, BarTabType, BarBounds
<1>1. /\ s4' = [s4 EXCEPT ![s2].mode = mode]
      /\ s6' = IF mode = "scaled" THEN s6 \cup {"option"} ELSE s6 \ {"option"}
      /\ s7' = IF Features[s2].scale THEN s7 \cup {s2} ELSE s7
      /\ s10' = IF s8 # s2 /\ Toolbar!Allowed(s2, mode) # mode
                  THEN s10 \cup {s2} ELSE s10 \ {s2}
  BY DEF Toolbar!rco_change_scalemode
<1>2. mode \in Toolbar!Modes
  BY DEF Toolbar!Modes
<1>3. s8 = s2 => /\ mode = "dynres" => Features[s2].dynres
                 /\ mode = "scaled" => Features[s2].scale
  OBVIOUS
<1>4. /\ s4' \in [BarTabs -> BarTabType] /\ s4'[s2].mode = mode
      /\ \A u \in BarTabs : /\ s4'[u].connected = s4[u].connected
                            /\ s4'[u].viewonly = s4[u].viewonly
                            /\ u # s2 => s4'[u] = s4[u]
  BY <1>0, <1>1, <1>2 DEF BarTabType
<1>5. s8' = IF s8 = s2 THEN s8 ELSE Toolbar!None
  BY DEF Toolbar!Used
<1>6. \A u, m : Toolbar!Allowed(u, m)' = Toolbar!Allowed(u, m)
  BY DEF Toolbar!Allowed
<1>7. s8 = s2 /\ ~s1 => Toolbar!Allowed(s2, mode) = mode
  BY <1>3 DEF Toolbar!Allowed
<1>8. /\ "dynres" \in s6' => "dynres" \in s6
      /\ "scale" \in s6' => "scale" \in s6
      /\ s6' \subseteq Toolbar!Buttons \cup {"option"}
  BY <1>0, <1>1
<1>9. s8 = s2 /\ Toolbar!Connected(s2) /\ ~s1 => active \ {"viewonly"} = Toolbar!Toggles(mode)
  BY BarTogglesAre DEF Toolbar!Buttons
<1> HIDE DEF mode
<1>10. Toolbar!TypeOK'
  <2>1. s7' \subseteq BarTabs /\ s10' \subseteq BarTabs /\ s8' \in BarTabs \cup {Toolbar!None}
    BY <1>0, <1>1, <1>5
  <2> QED BY <1>0, <1>4, <1>8, <2>1 DEF BarInv, Toolbar!TypeOK, BarTabType
<1>11. BarCan'
  BY <1>0, <1>5, <1>8 DEF BarInv, BarCan
<1>12. BarTells'
  <2>1. CASE s8' = Toolbar!None
    BY <2>1 DEF BarTells
  <2>2. CASE s8' # Toolbar!None
    <3>1. s8 = s2 /\ s8' = s2
      BY <1>5, <2>2
    <3>2. Toolbar!Connected(s8)' => Toolbar!Connected(s2)
      BY <1>0, <1>4, <3>1 DEF Toolbar!Connected
    <3>3. ~s1 => Toolbar!Allowed(s8, s4[s8].mode)' = mode
      BY <1>4, <1>6, <1>7, <3>1 DEF Toolbar!Allowed
    <3> QED BY <1>9, <3>1, <3>2, <3>3 DEF BarTells, Toolbar!Toggles
  <2> QED BY <2>1, <2>2
<1>13. Toolbar!BarFollows'
  BY <1>0, <1>5 DEF BarInv, Toolbar!BarFollows
<1>14. Toolbar!ModePossible'
  <2>1. ASSUME NEW u \in BarTabs, u \notin s10', ~s1
        PROVE  Toolbar!Allowed(u, s4'[u].mode) = s4'[u].mode
    <3>1. CASE u = s2
      BY <1>1, <1>4, <1>7, <2>1, <3>1
    <3>2. CASE u # s2
      <4>1. u \notin s10 /\ s4'[u] = s4[u]
        BY <1>1, <1>4, <2>1, <3>2
      <4> QED BY <2>1, <4>1 DEF BarInv, Toolbar!ModePossible
    <3> QED BY <3>1, <3>2
  <2> QED BY <2>1 DEF Toolbar!ModePossible, Toolbar!Allowed
<1>15. Toolbar!ViewonlyTold'
  BY <1>0, <1>4 DEF BarInv, Toolbar!ViewonlyTold
<1>16. Toolbar!FrameRight'
  <2>1. ASSUME NEW t \in BarTabs \ s7', Toolbar!Connected(t)', Features[t].scale
        PROVE  s4'[t].frame <=> Toolbar!Allowed(t, s4'[t].mode) = "scaled" /\ ~s4'[t].expand
    <3>1. t # s2 /\ t \notin s7
      BY <1>1, <2>1
    <3>2. s4'[t] = s4[t]
      BY <1>4, <3>1
    <3> QED BY <2>1, <3>1, <3>2 DEF BarInv, Toolbar!FrameRight, Toolbar!Connected
  <2> QED BY <2>1 DEF Toolbar!FrameRight, Toolbar!Allowed
<1> QED BY <1>10, <1>11, <1>12, <1>13, <1>14, <1>15, <1>16 DEF BarInv

\* A toggle of the scale mode is used.
LEMMA BarToggleStep ==
    ASSUME BarBounds, BarInv, Toolbar!rcw_toolbar_dynres \/ Toolbar!rcw_toolbar_scaled_mode
    PROVE  BarInv'
<1>0. /\ s4 \in [BarTabs -> BarTabType] /\ s2 \in BarTabs /\ s8 \in BarTabs \cup {Toolbar!None}
      /\ s5 \subseteq Toolbar!Buttons /\ Toolbar!None \notin BarTabs
  BY DEF BarInv, Toolbar!TypeOK, BarTabType, BarBounds
<1>1. s8 = s2 => /\ "dynres" \in s5 \cup s6 => Features[s2].dynres
                 /\ "scale" \in s5 \cup s6 => Features[s2].scale
  BY <1>0 DEF BarInv, BarCan
<1>2. s8 = s2 /\ Toolbar!Connected(s2) /\ ~s1 => ~("dynres" \in s5 /\ "scale" \in s5)
  <2>1. \A m : ~("dynres" \in Toolbar!Toggles(m) /\ "scale" \in Toolbar!Toggles(m))
    BY DEF Toolbar!Toggles
  <2>2. s8 = s2 /\ Toolbar!Connected(s2) /\ ~s1 =>
           s5 \ {"viewonly"} = Toolbar!Toggles(Toolbar!Allowed(s2, s4[s2].mode))
    BY <1>0 DEF BarInv, BarTells
  <2> QED BY <2>1, <2>2
<1>3. CASE Toolbar!rcw_toolbar_dynres
  <2> DEFINE active == Toolbar!Exclusive("dynres", Toolbar!Flip("dynres"))
  <2>1. CASE Toolbar!Connected(s2)
    <3>1. /\ "dynres" \in s6 /\ s5' = active /\ Toolbar!Used
          /\ Toolbar!rco_change_scalemode("dynres" \in s5', "scale" \in s5')
          /\ UNCHANGED <<s1, s2, s3, s9, s11>>
      BY <1>3, <2>1 DEF Toolbar!rcw_toolbar_dynres
    <3>2. /\ active \subseteq Toolbar!Buttons /\ ("viewonly" \in active <=> "viewonly" \in s5)
          /\ "scale" \in active => "scale" \in s5
          /\ "dynres" \in active => "scale" \notin active
      BY <1>0 DEF Toolbar!Exclusive, Toolbar!Flip, Toolbar!Buttons
    <3> HIDE DEF active
    <3>3. Toolbar!rco_change_scalemode("dynres" \in active, "scale" \in active)
      BY <3>1
    <3>4. s8 = s2 => /\ "dynres" \in active => Features[s2].dynres
                     /\ "scale" \in active => Features[s2].scale
      BY <1>1, <3>1, <3>2
    <3>5. ~("dynres" \in active /\ "scale" \in active)
      BY <3>2
    <3> QED BY <3>1, <3>2, <3>3, <3>4, <3>5, BarModeChanged
  <2>2. CASE ~Toolbar!Connected(s2)
    <3>1. /\ "dynres" \in s6 /\ s5' = Toolbar!Flip("dynres") /\ Toolbar!Used
          /\ UNCHANGED <<s1, s2, s3, s9, s11, s4, s6, s7, s10>>
      BY <1>3, <2>2 DEF Toolbar!rcw_toolbar_dynres
    <3>2. /\ s5' \subseteq Toolbar!Buttons /\ ("viewonly" \in s5' <=> "viewonly" \in s5)
          /\ "scale" \in s5' => "scale" \in s5
      BY <1>0, <3>1 DEF Toolbar!Flip, Toolbar!Buttons
    <3>3. s8' = IF s8 = s2 THEN s8 ELSE Toolbar!None
      BY <3>1 DEF Toolbar!Used
    <3>4. BarCan'
      BY <1>0, <1>1, <3>1, <3>2, <3>3 DEF BarCan
    <3>5. BarTells'
      BY <2>2, <3>1, <3>3 DEF BarTells, Toolbar!Connected
    <3>6. Toolbar!BarFollows'
      BY <1>0, <3>1, <3>3 DEF BarInv, Toolbar!BarFollows
    <3>7. Toolbar!ModePossible' /\ Toolbar!FrameRight'
      BY <3>1 DEF BarInv, Toolbar!ModePossible, Toolbar!FrameRight, Toolbar!Connected,
         Toolbar!Allowed
    <3>8. Toolbar!ViewonlyTold'
      BY <3>1, <3>2 DEF BarInv, Toolbar!ViewonlyTold
    <3>9. Toolbar!TypeOK'
      BY <1>0, <3>1, <3>2, <3>3 DEF BarInv, Toolbar!TypeOK
    <3> QED BY <3>4, <3>5, <3>6, <3>7, <3>8, <3>9 DEF BarInv
  <2> QED BY <2>1, <2>2
<1>4. CASE Toolbar!rcw_toolbar_scaled_mode
  <2> DEFINE active == Toolbar!Exclusive("scale", Toolbar!Flip("scale"))
  <2>1. /\ "scale" \in s6 /\ s5' = active /\ Toolbar!Used
        /\ Toolbar!rco_change_scalemode("dynres" \in s5', "scale" \in s5')
        /\ UNCHANGED <<s1, s2, s3, s9, s11>>
    BY <1>4 DEF Toolbar!rcw_toolbar_scaled_mode
  <2>2. /\ active \subseteq Toolbar!Buttons /\ ("viewonly" \in active <=> "viewonly" \in s5)
        /\ "dynres" \in active => "dynres" \in s5
        /\ "scale" \in active => "dynres" \notin active
    BY <1>0 DEF Toolbar!Exclusive, Toolbar!Flip, Toolbar!Buttons
  <2> HIDE DEF active
  <2>3. Toolbar!rco_change_scalemode("dynres" \in active, "scale" \in active)
    BY <2>1
  <2>4. s8 = s2 => /\ "dynres" \in active => Features[s2].dynres
                   /\ "scale" \in active => Features[s2].scale
    BY <1>1, <2>1, <2>2
  <2>5. ~("dynres" \in active /\ "scale" \in active)
    BY <2>2
  <2> QED BY <2>1, <2>2, <2>3, <2>4, <2>5, BarModeChanged
<1> QED BY <1>3, <1>4

\* The other steps leave the modes as they are.
LEMMA BarStepInv == ASSUME BarBounds, BarInv, [Toolbar!Next]_(Toolbar!vars) PROVE BarInv'
<1>0. /\ s4 \in [BarTabs -> BarTabType] /\ s2 \in BarTabs /\ s8 \in BarTabs \cup {Toolbar!None}
      /\ s5 \subseteq Toolbar!Buttons /\ s6 \subseteq Toolbar!Buttons \cup {"option"}
      /\ s7 \subseteq BarTabs /\ s10 \subseteq BarTabs /\ s3 \in BarTabs \cup {Toolbar!None}
      /\ s1 \in BOOLEAN /\ s9 \in BOOLEAN /\ s11 \in BOOLEAN
      /\ Toolbar!None \notin BarTabs
  BY DEF BarInv, Toolbar!TypeOK, BarTabType, BarBounds
<1>1. CASE Toolbar!rcw_on_switch_page_finalsel
  BY <1>1, BarSetStep
<1>2. CASE Toolbar!Migrate
  BY <1>0, <1>2 DEF Toolbar!Migrate, Toolbar!NewWindow, BarInv, Toolbar!TypeOK, BarCan,
     BarTells, Toolbar!BarFollows, Toolbar!ModePossible, Toolbar!ViewonlyTold,
     Toolbar!FrameRight, Toolbar!Connected, Toolbar!Allowed
<1>3. CASE Toolbar!rcw_toolbar_dynres \/ Toolbar!rcw_toolbar_scaled_mode
  BY <1>3, BarToggleStep
<1>4. ASSUME s1' = s1, s2' = s2, s3' = s3, s6' = s6,
             s7' = s7, s8' = s8, s9' = s9, s10' = s10,
             s5' \subseteq Toolbar!Buttons, s5' \ {"viewonly"} = s5 \ {"viewonly"},
             s11' \in BOOLEAN, Toolbar!ViewonlyTold', s4' \in [BarTabs -> BarTabType],
             \A u \in BarTabs : /\ s4'[u].mode = s4[u].mode
                                /\ s4'[u].connected = s4[u].connected
                                /\ s4'[u].frame = s4[u].frame
                                /\ s4'[u].expand = s4[u].expand
      PROVE  BarInv'
  <2>1. Toolbar!TypeOK'
    BY <1>0, <1>4 DEF BarInv, Toolbar!TypeOK, BarTabType
  <2>2. BarCan'
    BY <1>4 DEF BarInv, BarCan
  <2>3. BarTells'
    <3>1. CASE s8 = Toolbar!None
      BY <1>4, <3>1 DEF BarTells
    <3>2. CASE s8 \in BarTabs
      <4>1. s4'[s8].mode = s4[s8].mode /\ s4'[s8].connected = s4[s8].connected
        BY <1>4, <3>2
      <4> QED BY <1>0, <1>4, <3>2, <4>1 DEF BarInv, BarTells, Toolbar!Connected,
         Toolbar!Allowed, Toolbar!Toggles
    <3> QED BY <1>0, <3>1, <3>2
  <2>4. Toolbar!BarFollows'
    BY <1>4 DEF BarInv, Toolbar!BarFollows
  <2>5. Toolbar!ModePossible'
    BY <1>4 DEF BarInv, Toolbar!ModePossible, Toolbar!Allowed
  <2>6. Toolbar!FrameRight'
    BY <1>4 DEF BarInv, Toolbar!FrameRight, Toolbar!Connected, Toolbar!Allowed
  <2> QED BY <1>4, <2>1, <2>2, <2>3, <2>4, <2>5, <2>6 DEF BarInv
<1>5. CASE Toolbar!rcw_toolbar_viewonly_mode
  <2>1. /\ s5' = Toolbar!Flip("viewonly") /\ s11' = ~Toolbar!Connected(s2)
        /\ UNCHANGED <<s1, s2, s3, s6, s7, s8, s9, s10>>
    BY <1>5 DEF Toolbar!rcw_toolbar_viewonly_mode
  <2>2. PICK active \in BOOLEAN :
           /\ Toolbar!Connected(s2) => active = ("viewonly" \in s5')
           /\ s4' = [s4 EXCEPT ![s2].viewonly = active]
    BY <1>5 DEF Toolbar!rcw_toolbar_viewonly_mode
  <2>3. /\ s4' \in [BarTabs -> BarTabType] /\ s4'[s2].viewonly = active
        /\ \A u \in BarTabs : /\ s4'[u].mode = s4[u].mode
                              /\ s4'[u].connected = s4[u].connected
                              /\ s4'[u].frame = s4[u].frame
                              /\ s4'[u].expand = s4[u].expand
    BY <1>0, <2>2 DEF BarTabType
  <2>4. s5' \subseteq Toolbar!Buttons /\ s5' \ {"viewonly"} = s5 \ {"viewonly"}
    BY <1>0, <2>1 DEF Toolbar!Flip, Toolbar!Buttons
  <2>5. Toolbar!ViewonlyTold'
    BY <2>1, <2>2, <2>3 DEF Toolbar!ViewonlyTold
  <2>6. s11' \in BOOLEAN
    BY <2>1 DEF Toolbar!Connected
  <2> QED BY <1>4, <2>1, <2>3, <2>4, <2>5, <2>6
<1>6. CASE Toolbar!ViewonlyShortcut
  <2> DEFINE other == ~s4[s2].viewonly
  <2>1. /\ s4' = [s4 EXCEPT ![s2].viewonly = other] /\ s11' = TRUE
        /\ UNCHANGED <<s1, s2, s3, s5, s6, s7, s8, s9, s10>>
    BY <1>6 DEF Toolbar!ViewonlyShortcut
  <2>2. other \in BOOLEAN
    OBVIOUS
  <2> HIDE DEF other
  <2>3. /\ s4' \in [BarTabs -> BarTabType]
        /\ \A u \in BarTabs : /\ s4'[u].mode = s4[u].mode
                              /\ s4'[u].connected = s4[u].connected
                              /\ s4'[u].frame = s4[u].frame
                              /\ s4'[u].expand = s4[u].expand
    BY <1>0, <2>1, <2>2 DEF BarTabType
  <2>4. Toolbar!ViewonlyTold'
    BY <2>1 DEF Toolbar!ViewonlyTold
  <2> QED BY <1>0, <1>4, <2>1, <2>3, <2>4
<1>7. ASSUME NEW t \in BarTabs, Toolbar!SwitchPage(t) PROVE BarInv'
  BY <1>0, <1>7 DEF Toolbar!SwitchPage, BarInv, Toolbar!TypeOK, BarCan, BarTells,
     Toolbar!BarFollows, Toolbar!ModePossible, Toolbar!ViewonlyTold, Toolbar!FrameRight,
     Toolbar!Connected, Toolbar!Allowed
<1>8. ASSUME NEW t \in BarTabs, Toolbar!Connect(t) PROVE BarInv'
  BY <1>8, BarSetStep
<1>9. ASSUME NEW t \in BarTabs, Toolbar!Disconnect(t) PROVE BarInv'
  <2>1. /\ s4' = [s4 EXCEPT ![t].connected = "ended"]
        /\ UNCHANGED <<s1, s2, s3, s5, s6, s7, s8, s9, s10, s11>>
    BY <1>9 DEF Toolbar!Disconnect
  <2>2. /\ s4' \in [BarTabs -> BarTabType] /\ s4'[t].connected = "ended"
        /\ \A u \in BarTabs : /\ s4'[u].mode = s4[u].mode
                              /\ s4'[u].viewonly = s4[u].viewonly
                              /\ u # t => s4'[u] = s4[u]
    BY <1>0, <2>1 DEF BarTabType
  <2>3. Toolbar!TypeOK'
    BY <1>0, <2>1, <2>2 DEF Toolbar!TypeOK, BarTabType
  <2>4. BarCan' /\ Toolbar!BarFollows'
    BY <2>1 DEF BarInv, BarCan, Toolbar!BarFollows
  <2>5. BarTells'
    <3>1. CASE s8 = Toolbar!None \/ s8 = t
      BY <2>1, <2>2, <3>1 DEF BarTells, Toolbar!Connected
    <3>2. CASE s8 \in BarTabs /\ s8 # t
      <4>1. s4'[s8] = s4[s8]
        BY <2>2, <3>2
      <4> QED BY <1>0, <2>1, <3>2, <4>1 DEF BarInv, BarTells, Toolbar!Connected,
         Toolbar!Allowed, Toolbar!Toggles
    <3> QED BY <1>0, <3>1, <3>2
  <2>6. Toolbar!ModePossible'
    BY <2>1, <2>2 DEF BarInv, Toolbar!ModePossible, Toolbar!Allowed
  <2>7. Toolbar!ViewonlyTold'
    BY <1>0, <2>1, <2>2 DEF BarInv, Toolbar!ViewonlyTold
  <2>8. Toolbar!FrameRight'
    BY <2>1, <2>2 DEF BarInv, Toolbar!FrameRight, Toolbar!Connected, Toolbar!Allowed
  <2> QED BY <2>3, <2>4, <2>5, <2>6, <2>7, <2>8 DEF BarInv
<1>10. ASSUME NEW t \in BarTabs, NEW now \in [BarTabs -> BarTabType],
              s4' = Toolbar!Framed(t, now),
              s7' = s7 \/ s7' = s7 \ {t},
              \A u \in BarTabs : /\ now[u].mode = s4[u].mode
                                 /\ now[u].connected = s4[u].connected
                                 /\ now[u].viewonly = s4[u].viewonly
                                 /\ u # t => now[u] = s4[u],
              UNCHANGED <<s1, s2, s3, s5, s6, s8, s9, s10, s11>>
       PROVE  BarInv'
  <2> DEFINE framed == IF Features[t].scale
                       THEN Toolbar!Allowed(t, now[t].mode) = "scaled" /\ ~now[t].expand
                       ELSE now[t].frame
  <2>1. s4' = [now EXCEPT ![t].frame = framed]
    BY <1>10 DEF Toolbar!Framed
  <2>2. framed \in BOOLEAN
    BY <1>10 DEF BarTabType
  <2>3. Features[t].scale => (framed <=> Toolbar!Allowed(t, now[t].mode) = "scaled"
        /\ ~now[t].expand)
    OBVIOUS
  <2> HIDE DEF framed
  <2>4. /\ s4' \in [BarTabs -> BarTabType] /\ s4'[t].frame = framed
        /\ s4'[t].expand = now[t].expand
        /\ \A u \in BarTabs : /\ s4'[u].mode = s4[u].mode
                              /\ s4'[u].connected = s4[u].connected
                              /\ s4'[u].viewonly = s4[u].viewonly
                              /\ u # t => s4'[u] = s4[u]
    BY <1>10, <2>1, <2>2 DEF BarTabType
  <2>5. Toolbar!TypeOK'
    BY <1>0, <1>10, <2>4 DEF Toolbar!TypeOK, BarTabType
  <2>6. BarCan' /\ Toolbar!BarFollows'
    BY <1>10 DEF BarInv, BarCan, Toolbar!BarFollows
  <2>7. BarTells'
    <3>1. CASE s8 = Toolbar!None
      BY <1>10, <3>1 DEF BarTells
    <3>2. CASE s8 \in BarTabs
      <4>1. s4'[s8].mode = s4[s8].mode /\ s4'[s8].connected = s4[s8].connected
        BY <2>4, <3>2
      <4> QED BY <1>0, <1>10, <3>2, <4>1 DEF BarInv, BarTells, Toolbar!Connected,
         Toolbar!Allowed, Toolbar!Toggles
    <3> QED BY <1>0, <3>1, <3>2
  <2>8. Toolbar!ModePossible'
    BY <1>10, <2>4 DEF BarInv, Toolbar!ModePossible, Toolbar!Allowed
  <2>9. Toolbar!ViewonlyTold'
    BY <1>0, <1>10, <2>4 DEF BarInv, Toolbar!ViewonlyTold
  <2>10. Toolbar!FrameRight'
    <3>1. ASSUME NEW u \in BarTabs \ s7', Toolbar!Connected(u)', Features[u].scale
          PROVE  s4'[u].frame <=> Toolbar!Allowed(u, s4'[u].mode) = "scaled" /\ ~s4'[u].expand
      <4>1. CASE u = t
        BY <1>10, <2>3, <2>4, <3>1, <4>1
      <4>2. CASE u # t
        <5>1. u \notin s7 /\ s4'[u] = s4[u]
          BY <1>10, <2>4, <3>1, <4>2
        <5> QED BY <3>1, <5>1 DEF BarInv, Toolbar!FrameRight, Toolbar!Connected
      <4> QED BY <4>1, <4>2
    <3> QED BY <1>10, <3>1 DEF Toolbar!FrameRight, Toolbar!Allowed
  <2> QED BY <2>5, <2>6, <2>7, <2>8, <2>9, <2>10 DEF BarInv
<1>11. ASSUME NEW t \in BarTabs, Toolbar!UpdateAlign(t) PROVE BarInv'
  <2>1. /\ s4' = Toolbar!Framed(t, s4) /\ s7' = s7 \ {t}
        /\ UNCHANGED <<s1, s2, s3, s5, s6, s8, s9, s10, s11>>
    BY <1>11 DEF Toolbar!UpdateAlign
  <2> QED BY <1>0, <1>10, <2>1
<1>12. ASSUME NEW t \in BarTabs, NEW b \in BOOLEAN, Toolbar!LockDynres(t, b) PROVE BarInv'
  BY <1>12, BarSetStep
<1>13. ASSUME NEW b \in BOOLEAN, Toolbar!Scaler(b) PROVE BarInv'
  <2> DEFINE now == [s4 EXCEPT ![s2].expand = b]
  <2>1. /\ s4' = Toolbar!Framed(s2, now) /\ s7' = s7
        /\ UNCHANGED <<s1, s2, s3, s5, s6, s8, s9, s10, s11>>
    BY <1>13 DEF Toolbar!Scaler
  <2>2. /\ now \in [BarTabs -> BarTabType]
        /\ \A u \in BarTabs : /\ now[u].mode = s4[u].mode
                              /\ now[u].connected = s4[u].connected
                              /\ now[u].viewonly = s4[u].viewonly
                              /\ u # s2 => now[u] = s4[u]
    BY <1>0 DEF BarTabType
  <2> HIDE DEF now
  <2> QED BY <1>0, <1>10, <2>1, <2>2
<1>14. CASE UNCHANGED Toolbar!vars
  BY <1>0, <1>14 DEF Toolbar!vars, BarInv, Toolbar!TypeOK, BarCan, BarTells,
     Toolbar!BarFollows, Toolbar!ModePossible, Toolbar!ViewonlyTold, Toolbar!FrameRight,
     Toolbar!Connected, Toolbar!Allowed, Toolbar!Toggles
<1> QED BY <1>1, <1>2, <1>3, <1>5, <1>6, <1>7, <1>8, <1>9, <1>11, <1>12, <1>13,
   <1>14 DEF Toolbar!Next

\* What it says of the bar.
LEMMA BarInvMeans ==
    ASSUME BarBounds, BarInv
    PROVE  Toolbar!TypeOK /\ Toolbar!BarFollows /\ Toolbar!TogglesTell
           /\ Toolbar!ModePossible /\ Toolbar!ViewonlyTold /\ Toolbar!FrameRight
<1>1. s2 # Toolbar!None
  BY DEF BarInv, Toolbar!TypeOK, BarBounds
<1>2. Toolbar!TogglesTell
  BY <1>1 DEF BarInv, BarTells, Toolbar!TogglesTell
<1> QED BY <1>2 DEF BarInv

-----------------------------------------------------------------------------
(* The components together.                                                *)

HandlersInv ==
    /\ component = "VncInput" => ViInv
    /\ component = "RdpInput" => RiInv
    /\ component = "HostKey" => HkInv
    /\ component = "SshAuth" => LoginInv
    /\ component = "SshShell" => ShellInv
    /\ component = "X11" => X11Inv
    /\ component = "Unlock" => UnlockInv
    /\ component = "RdpClipboard" => ClipInv
    /\ component = "Spice" => SpiceInv
    /\ component = "Gvnc" => GvncInv
    /\ component = "Screen" => ScreenInv
    /\ component = "Toolbar" => BarInv

\* What the screen and the tool bar need of the constants.
LEMMA HandlersNeeds == ScreenBounds /\ BarBounds
BY HandlersBounds DEF HandlersBounds, ScreenBounds, BarBounds

\* It holds whatever the behaviour is about.
LEMMA HandlersInitInv == ASSUME HandlersInit PROVE HandlersInv
<1> USE HandlersBounds DEF HandlersBounds, ClipBounds
<1>1. component = "VncInput" => ViInv
  BY ViInitInv DEF HandlersInit
<1>2. component = "RdpInput" => RiInv
  BY RiInitInv DEF HandlersInit
<1>3. component = "HostKey" => HkInv
  BY HkInitInv DEF HandlersInit
<1>4. component = "SshAuth" => LoginInv
  BY LoginInitInv DEF HandlersInit, LoginRounds
<1>5. component = "SshShell" => ShellInv
  BY ShellInitInv DEF HandlersInit
<1>6. component = "X11" => X11Inv
  BY X11InitInv DEF HandlersInit
<1>7. component = "Unlock" => UnlockInv
  BY UnlockInitInv DEF HandlersInit
<1>8. component = "RdpClipboard" => ClipInv
  BY ClipInitInv DEF HandlersInit
<1>9. component = "Spice" => SpiceInv
  BY SpiceInitInv DEF HandlersInit
<1>10. component = "Gvnc" => GvncInv
  BY GvncInitInv DEF HandlersInit
<1>11. component = "Screen" => ScreenInv
  BY ScreenInitInv DEF HandlersInit
<1>12. component = "Toolbar" => BarInv
  BY HandlersNeeds, BarInitInv DEF HandlersInit
<1> QED
  BY <1>1, <1>2, <1>3, <1>4, <1>5, <1>6, <1>7, <1>8, <1>9, <1>10, <1>11, <1>12
  DEF HandlersInv

\* Every step of a component keeps its invariant, and says nothing of the others.
LEMMA HandlersStepInv ==
    ASSUME HandlersInv, [HandlersNext]_HandlersVars
    PROVE  HandlersInv'
<1> USE HandlersBounds DEF HandlersBounds, ClipBounds
<1>0. component' = component
  BY DEF HandlersNext, HandlersVars
<1>1. ASSUME component = "VncInput" PROVE ViInv'
  <2>1. [VncInput!Next]_(VncInput!vars)
    BY <1>1 DEF HandlersNext, HandlersVars, VncInput!vars
  <2>2. ViInv
    BY <1>1 DEF HandlersInv
  <2> QED BY <2>1, <2>2, ViStepInv
<1>2. ASSUME component = "RdpInput" PROVE RiInv'
  <2>1. [RdpInput!Next]_(RdpInput!vars)
    BY <1>2 DEF HandlersNext, HandlersVars, RdpInput!vars
  <2>2. RiInv
    BY <1>2 DEF HandlersInv
  <2> QED BY <2>1, <2>2, RiStepInv
<1>3. ASSUME component = "HostKey" PROVE HkInv'
  <2>1. [HostKey!Next]_(HostKey!vars)
    BY <1>3 DEF HandlersNext, HandlersVars, HostKey!vars
  <2>2. HkInv
    BY <1>3 DEF HandlersInv
  <2> QED BY <2>1, <2>2, HkStepInv
<1>4. ASSUME component = "SshAuth" PROVE LoginInv'
  <2>1. [SshAuth!Next]_(SshAuth!vars)
    BY <1>4 DEF HandlersNext, HandlersVars, SshAuth!vars
  <2>2. LoginInv
    BY <1>4 DEF HandlersInv
  <2> QED BY <2>1, <2>2, LoginStepInv
<1>5. ASSUME component = "SshShell" PROVE ShellInv'
  <2>1. [SshShell!Next]_(SshShell!vars)
    BY <1>5 DEF HandlersNext, HandlersVars, SshShell!vars
  <2>2. ShellInv
    BY <1>5 DEF HandlersInv
  <2> QED BY <2>1, <2>2, ShellStepInv
<1>6. ASSUME component = "X11" PROVE X11Inv'
  <2>1. [X11!Next]_(X11!vars)
    BY <1>6 DEF HandlersNext, HandlersVars, X11!vars
  <2>2. X11Inv
    BY <1>6 DEF HandlersInv
  <2> QED BY <2>1, <2>2, X11StepInv
<1>7. ASSUME component = "Unlock" PROVE UnlockInv'
  <2>1. [Unlock!Next]_(Unlock!vars)
    BY <1>7 DEF HandlersNext, HandlersVars, Unlock!vars
  <2>2. UnlockInv
    BY <1>7 DEF HandlersInv
  <2> QED BY <2>1, <2>2, UnlockStepInv
<1>8. ASSUME component = "RdpClipboard" PROVE ClipInv'
  <2>1. [RdpClipboard!Next]_(RdpClipboard!vars)
    BY <1>8 DEF HandlersNext, HandlersVars, RdpClipboard!vars
  <2>2. ClipInv
    BY <1>8 DEF HandlersInv
  <2> QED BY <2>1, <2>2, ClipStepInv
<1>9. ASSUME component = "Spice" PROVE SpiceInv'
  <2>1. [Spice!Next]_(Spice!vars)
    BY <1>9 DEF HandlersNext, HandlersVars, Spice!vars
  <2>2. SpiceInv
    BY <1>9 DEF HandlersInv
  <2> QED BY <2>1, <2>2, SpiceStepInv
<1>10. ASSUME component = "Gvnc" PROVE GvncInv'
  <2>1. [Gvnc!Next]_(Gvnc!vars)
    BY <1>10 DEF HandlersNext, HandlersVars, Gvnc!vars
  <2>2. GvncInv
    BY <1>10 DEF HandlersInv
  <2> QED BY <2>1, <2>2, GvncStepInv
<1>11. ASSUME component = "Screen" PROVE ScreenInv'
  <2>1. [Screen!Next]_(Screen!vars)
    BY <1>11 DEF HandlersNext, HandlersVars, Screen!vars
  <2>2. ScreenInv
    BY <1>11 DEF HandlersInv
  <2> QED BY <2>1, <2>2, HandlersNeeds, ScreenStepInv
<1>12. ASSUME component = "Toolbar" PROVE BarInv'
  <2>1. [Toolbar!Next]_(Toolbar!vars)
    BY <1>12 DEF HandlersNext, HandlersVars, Toolbar!vars
  <2>2. BarInv
    BY <1>12 DEF HandlersInv
  <2> QED BY <2>1, <2>2, HandlersNeeds, BarStepInv
<1> QED
  BY <1>0, <1>1, <1>2, <1>3, <1>4, <1>5, <1>6, <1>7, <1>8, <1>9, <1>10, <1>11, <1>12
  DEF HandlersInv

\* The invariants of the components hold throughout the run.
THEOREM HandlersInvariance == HandlersSpec => []HandlersInv
BY HandlersInitInv, HandlersStepInv, PTL DEF HandlersSpec

\* What a VNC or an RDP server takes to be pressed is remembered or held, and is let go when
\* the focus is lost, but for the keys that the host key or the view-only mode kept; the host
\* key stays here (vnc_plugin.c, rdp_event.c, rcw.c).
THEOREM NothingSticks == HandlersSpec => []NothingStuck
<1>1. HandlersInv => NothingStuck
  BY DEF HandlersInv, NothingStuck, ViInv, RiInv, HkInv
<1> QED BY <1>1, HandlersInvariance, PTL

\* Nobody is let in but whom the server and the user accepted, a shell is used after its end
\* only where it is known to be, a channel of X11 has its own socket, and what is locked is
\* open only to those who gave the password a short while ago (remmina_ssh.c,
\* remmina_unlock.c).
THEOREM LoginsStaySound == HandlersSpec => []LoginsSound
<1>1. LoginInv => SshAuth!SuccessMeansAccepted /\ SshAuth!FewAttempts /\ SshAuth!SessionThere
  BY LoginInvMeans
<1>2. ShellInv => SshShell!FaultKnown /\ SshShell!HungKnown /\ SshShell!EndIsTold
  BY ShellInvMeans
<1>3. X11Inv => X11!OwnSockets /\ X11!NodeFound
  BY X11InvMeans
<1>4. UnlockInv => Unlock!LetThrough /\ Unlock!DialogThere
  BY DEF UnlockInv
<1>5. HandlersInv => LoginsSound
  BY <1>1, <1>2, <1>3, <1>4 DEF HandlersInv, LoginsSound
<1> QED BY <1>5, HandlersInvariance, PTL

\* The clipboard of RDP, and the sessions of SPICE and GVNC: a paste waits, an end goes
\* untold and freed data is used only where it is known to be, a session opens and closes
\* once, and no text comes back to its owner (rdp_cliprdr.c, spice_plugin.c, gvnc_plugin.c).
THEOREM SessionsStaySound == HandlersSpec => []SessionsSound
<1>1. ClipInv => /\ RdpClipboard!NoSelfLock /\ RdpClipboard!BusyEnds /\ RdpClipboard!KindsKnown
                 /\ RdpClipboard!CloseAborts /\ RdpClipboard!NoEcho
  BY ClipInvMeans
<1>2. SpiceInv => /\ Spice!ClosedOnce /\ Spice!OpenedOnce /\ Spice!EndTold
                  /\ Spice!FreedUse /\ Spice!DialogLasts
  BY DEF SpiceInv
<1>3. GvncInv => Gvnc!NoEcho /\ Gvnc!FaultsKnown /\ Gvnc!ToldOnce /\ Gvnc!KeysArrive
  BY DEF GvncInv
<1>4. HandlersInv => SessionsSound
  BY <1>1, <1>2, <1>3 DEF HandlersInv, SessionsSound
<1> QED BY <1>4, HandlersInvariance, PTL

\* What an update of the server changes is drawn again, however the widget is scaled; the
\* pointer and the wheel arrive, the first monitor is at the origin.  The tool bar says how the
\* tab in view is scaled, and its frame keeps the aspect ratio (vnc_plugin.c, rdp_event.c,
\* rdp_monitor.c, rcw.c).
THEOREM ScreenStaysRight == HandlersSpec => []ScreenRight
<1>1. ScreenInv => /\ Screen!DrawnCovers /\ Screen!PointerReturns
                   /\ Screen!WheelArrives /\ Screen!PrimaryAtOrigin
  BY HandlersNeeds, ScreenInvMeans
<1>2. BarInv => /\ Toolbar!BarFollows /\ Toolbar!TogglesTell /\ Toolbar!ModePossible
                /\ Toolbar!ViewonlyTold /\ Toolbar!FrameRight
  BY HandlersNeeds, BarInvMeans
<1>3. HandlersInv => ScreenRight
  BY <1>1, <1>2 DEF HandlersInv, ScreenRight
<1> QED BY <1>3, HandlersInvariance, PTL

\* Every handler of a session leaves the variables of its component in their types: the area
\* that is drawn is on the screen, the lists of keys and channels hold what they are for.
THEOREM HandlersStayTyped == HandlersSpec => []HandlersTyped
<1>1. /\ ViInv => VncInput!TypeOK
      /\ RiInv => RdpInput!TypeOK
      /\ HkInv => HostKey!TypeOK
      /\ UnlockInv => Unlock!TypeOK
      /\ SpiceInv => Spice!TypeOK
      /\ GvncInv => Gvnc!TypeOK
  BY DEF ViInv, RiInv, HkInv, UnlockInv, SpiceInv, GvncInv
<1>2. LoginInv => SshAuth!TypeOK
  BY LoginInvMeans
<1>3. ShellInv => SshShell!TypeOK
  BY ShellInvMeans
<1>4. X11Inv => X11!TypeOK
  BY X11InvMeans
<1>5. ClipInv => RdpClipboard!TypeOK
  BY ClipInvMeans
<1>6. ScreenInv => Screen!TypeOK
  BY HandlersNeeds, ScreenInvMeans
<1>7. BarInv => Toolbar!TypeOK
  BY HandlersNeeds, BarInvMeans
<1>8. HandlersInv => HandlersTyped
  BY <1>1, <1>2, <1>3, <1>4, <1>5, <1>6, <1>7 DEF HandlersInv, HandlersTyped
<1> QED BY <1>8, HandlersInvariance, PTL
===============================================================================
