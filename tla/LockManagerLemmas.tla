------------------------- MODULE LockManagerLemmas -------------------------
(***************************************************************************)
(* The inductive invariant of LockManager and the first half of its proof: *)
(* the tables of the modes, what becomes of a list when an entry joins,    *)
(* leaves or changes, the total mode, the invariant, what a step at one    *)
(* resource leaves of it, and that it is kept by every step that requests a *)
(* lock, waits, wakes up, gives up or takes an entry out of a list; last,  *)
(* what a granting loop may rely on.                                       *)
(***************************************************************************)
EXTENDS LockManager, WellFoundedInduction, TLAPS

(* The leaves of the proofs are for Zenon, unless they say SMT.            *)
USE ZenonT(40)

-----------------------------------------------------------------------------
(* The modes.                                                              *)

(* The modes are four numbers, from the null lock to the exclusive one.    *)
LEMMA ModeIs == Mode = {1, 2, 3, 4}
BY SMTT(30) DEF Mode, NULL_LOCK, X_LOCK

(* Two modes are compatible when they add up to at most five ...           *)
LEMMA CompIs ==
    ASSUME NEW a \in Mode, NEW b \in Mode
    PROVE  lock_Comp[a][b] <=> a + b <= 5
<1>1. /\ lock_Comp[1][1] /\ lock_Comp[1][2] /\ lock_Comp[1][3] /\ lock_Comp[1][4]
      /\ lock_Comp[2][1] /\ lock_Comp[2][2] /\ lock_Comp[2][3] /\ ~lock_Comp[2][4]
      /\ lock_Comp[3][1] /\ lock_Comp[3][2] /\ ~lock_Comp[3][3] /\ ~lock_Comp[3][4]
      /\ lock_Comp[4][1] /\ ~lock_Comp[4][2] /\ ~lock_Comp[4][3] /\ ~lock_Comp[4][4]
  BY SMTT(30) DEF lock_Comp
<1> QED BY <1>1, ModeIs, SMTT(30)

(* ... and convert into the stronger of the two.                           *)
LEMMA ConvIs ==
    ASSUME NEW a \in Mode, NEW b \in Mode
    PROVE  lock_Conv[a][b] = IF a >= b THEN a ELSE b
BY SMTT(30) DEF lock_Conv, Mode, NULL_LOCK, X_LOCK, S_LOCK, U_LOCK

(* A nonempty set of numbers has a least element.                          *)
LEMMA LeastNat ==
  ASSUME NEW T, T \subseteq Nat, T # {}
  PROVE  \E x \in T : \A y \in T : x <= y
<1> DEFINE R == OpToRel(<, Nat)
<1>1. IsWellFoundedOn(R, Nat)
  BY NatLessThanWellFounded
<1>2. \A x, y \in Nat : x < y => <<x, y>> \in R
  BY SMTT(30) DEF OpToRel
<1> HIDE DEF R
<1>3. PICK x \in T : \A y \in T : ~ (<<y, x>> \in R)
  BY <1>1, WFMin
<1>4. ASSUME NEW y \in T PROVE x <= y
  <2>1. x \in Nat /\ y \in Nat
    BY SMTT(30)
  <2>2. ~ (y < x)
    BY <1>2, <1>3, <2>1
  <2> QED BY <2>1, <2>2, SMTT(30)
<1> QED BY <1>4

-----------------------------------------------------------------------------
(* The lists.                                                              *)

(* What is where in a concatenation of lists.                              *)
LEMMA ConcatIs ==
    ASSUME NEW a \in Seq(Entry), NEW b \in Seq(Entry)
    PROVE  /\ a \o b \in Seq(Entry)
           /\ Len(a \o b) = Len(a) + Len(b)
           /\ \A j \in 1 .. Len(a) + Len(b) :
                 (a \o b)[j] = IF j <= Len(a) THEN a[j] ELSE b[j - Len(a)]
<1>1. a \o b \in Seq(Entry)
  BY SMTT(30)
<1>2. Len(a \o b) = Len(a) + Len(b)
  BY SMTT(30)
<1>3. ASSUME NEW j \in 1 .. Len(a) + Len(b)
      PROVE (a \o b)[j] = IF j <= Len(a) THEN a[j] ELSE b[j - Len(a)]
  BY SMTT(30)
<1> QED BY <1>1, <1>2, <1>3

(* r is s without its i-th entry.                                          *)
Removed(r, s, i) ==
    /\ r \in Seq(Entry) /\ Len(r) = Len(s) - 1
    /\ \A j \in 1 .. Len(s) - 1 : r[j] = IF j < i THEN s[j] ELSE s[j + 1]

(* RemoveAt takes out one entry and keeps the others in order.             *)
LEMMA RemoveAtIs ==
    ASSUME NEW s \in Seq(Entry), NEW i \in 1 .. Len(s)
    PROVE  Removed(RemoveAt(s, i), s, i)
<1> DEFINE a == SubSeq(s, 1, i - 1)
           b == SubSeq(s, i + 1, Len(s))
<1>1. a \in Seq(Entry) /\ Len(a) = i - 1 /\ \A j \in 1 .. i - 1 : a[j] = s[j]
  BY SMTT(30)
<1>2. b \in Seq(Entry) /\ Len(b) = Len(s) - i /\ \A j \in 1 .. Len(s) - i : b[j] = s[i + j]
  BY SMTT(30)
<1>3. RemoveAt(s, i) = a \o b
  BY SMTT(30) DEF RemoveAt, Before, After
<1> HIDE DEF a, b
<1>4. /\ a \o b \in Seq(Entry) /\ Len(a \o b) = Len(a) + Len(b)
      /\ \A j \in 1 .. Len(a) + Len(b) :
            (a \o b)[j] = IF j <= Len(a) THEN a[j] ELSE b[j - Len(a)]
  BY <1>1, <1>2, ConcatIs
<1>5. ASSUME NEW j \in 1 .. Len(s) - 1
      PROVE  (a \o b)[j] = IF j < i THEN s[j] ELSE s[j + 1]
  <2>1. Len(s) \in Nat /\ Len(s) - 1 = Len(a) + Len(b)
    BY <1>1, <1>2, SMTT(30)
  <2>2. CASE j < i
    <3>1. j \in 1 .. i - 1 /\ j <= Len(a)
      BY <2>1, <2>2, <1>1, SMTT(30)
    <3> QED BY <1>1, <1>4, <2>1, <2>2, <3>1
  <2>3. CASE ~(j < i)
    <3>1. j - (i - 1) \in 1 .. Len(s) - i /\ ~(j <= Len(a)) /\ i + (j - (i - 1)) = j + 1
      BY <2>1, <2>3, <1>1, SMTT(30)
    <3>2. (a \o b)[j] = b[j - Len(a)] /\ Len(a) = i - 1
      BY <1>1, <1>4, <2>1, <3>1
    <3>3. b[j - (i - 1)] = s[i + (j - (i - 1))]
      BY <1>2, <3>1
    <3> QED BY <2>3, <3>1, <3>2, <3>3
  <2> QED BY <2>2, <2>3
<1> QED BY <1>1, <1>2, <1>3, <1>4, <1>5, SMTT(30) DEF Removed

(* n is s with e before its p-th entry.                                    *)
Inserted(n, s, p, e) ==
    /\ n \in Seq(Entry) /\ Len(n) = Len(s) + 1
    /\ \A j \in 1 .. Len(s) + 1 :
          n[j] = IF j < p THEN s[j] ELSE IF j = p THEN e ELSE s[j - 1]

(* InsertAt puts in one entry and keeps the others in order.               *)
LEMMA InsertAtIs ==
    ASSUME NEW s \in Seq(Entry), NEW p \in 1 .. Len(s) + 1, NEW e \in Entry
    PROVE  Inserted(InsertAt(s, p, e), s, p, e)
<1> DEFINE a == SubSeq(s, 1, p - 1)
           b == SubSeq(s, p, Len(s))
           c == a \o <<e>>
<1>1. a \in Seq(Entry) /\ Len(a) = p - 1 /\ \A j \in 1 .. p - 1 : a[j] = s[j]
  BY SMTT(30)
<1>2. b \in Seq(Entry) /\ Len(b) = Len(s) - p + 1
      /\ \A j \in 1 .. Len(s) - p + 1 : b[j] = s[p + j - 1]
  BY SMTT(30)
<1>3. InsertAt(s, p, e) = c \o b
  <2>1. (p - 1) + 1 = p
    BY SMTT(30)
  <2> QED BY <2>1 DEF InsertAt, Before, After
<1>4. <<e>> \in Seq(Entry) /\ Len(<<e>>) = 1 /\ <<e>>[1] = e
  BY SMTT(30)
<1> HIDE DEF a, b
<1>5. /\ c \in Seq(Entry) /\ Len(c) = Len(a) + Len(<<e>>)
      /\ \A j \in 1 .. Len(a) + Len(<<e>>) :
            c[j] = IF j <= Len(a) THEN a[j] ELSE <<e>>[j - Len(a)]
  BY <1>1, <1>4, ConcatIs
<1>6. Len(c) = p /\ c[p] = e /\ \A j \in 1 .. p - 1 : c[j] = s[j]
  BY <1>1, <1>4, <1>5, SMTT(30)
<1>c. c \in Seq(Entry)
  BY <1>5, SMTT(30)
<1> HIDE DEF c
<1>7. /\ c \o b \in Seq(Entry) /\ Len(c \o b) = Len(c) + Len(b)
      /\ \A j \in 1 .. Len(c) + Len(b) :
            (c \o b)[j] = IF j <= Len(c) THEN c[j] ELSE b[j - Len(c)]
  BY <1>2, <1>c, ConcatIs
<1>8. ASSUME NEW j \in 1 .. Len(s) + 1
      PROVE  (c \o b)[j] = IF j < p THEN s[j] ELSE IF j = p THEN e ELSE s[j - 1]
  <2>1. Len(s) \in Nat /\ Len(s) + 1 = Len(c) + Len(b)
    BY <1>2, <1>6, SMTT(30)
  <2>2. CASE j <= p
    <3>1. (c \o b)[j] = c[j] /\ (j < p => j \in 1 .. p - 1)
      BY <1>6, <1>7, <2>1, <2>2, SMTT(30)
    <3> QED BY <1>6, <2>2, <3>1, SMTT(30)
  <2>3. CASE j > p
    <3>1. j - p \in 1 .. Len(s) - p + 1 /\ p + (j - p) - 1 = j - 1 /\ ~(j <= p)
      BY <2>1, <2>3, SMTT(30)
    <3>2. (c \o b)[j] = b[j - p]
      BY <1>6, <1>7, <2>1, <3>1
    <3> QED BY <1>2, <2>3, <3>1, <3>2, SMTT(30)
  <2> QED BY <2>1, <2>2, <2>3, SMTT(30)
<1> QED BY <1>2, <1>3, <1>6, <1>7, <1>8, SMTT(30) DEF Inserted

(* What an entry of the holder list, and one of the waiter list, looks     *)
(* like.                                                                   *)
HolderEntry(e) ==
    /\ e.granted # NULL_LOCK
    /\ e.blocked # NULL_LOCK => e.granted < e.blocked

WaiterEntry(e) == e.granted = NULL_LOCK /\ e.blocked # NULL_LOCK

(* A transaction has one entry.                                            *)
Distinct(list) ==
    \A i, j \in 1 .. Len(list) : list[i].tran = list[j].tran => i = j

(* Blocked holders come first, and whoever stands behind one that asks for *)
(* X_LOCK asks for what that one's lock does not allow.                    *)
Ordered(list) ==
    \A i, j \in 1 .. Len(list) : i < j /\ list[j].blocked # NULL_LOCK =>
        /\ list[i].blocked # NULL_LOCK
        /\ list[i].blocked = X_LOCK => ~lock_Comp[list[j].blocked][list[i].granted]

(* A list of holders.                                                      *)
HolderList(list) ==
    /\ list \in Seq(Entry)
    /\ Distinct(list) /\ Ordered(list)
    /\ \A e \in Range(list) : HolderEntry(e)

WaiterList(list) ==
    /\ list \in Seq(Entry)
    /\ Distinct(list)
    /\ \A e \in Range(list) : WaiterEntry(e)

(* The entries of a list.                                                  *)
LEMMA RangeIs ==
    ASSUME NEW s \in Seq(Entry)
    PROVE  /\ Range(s) = {s[i] : i \in 1 .. Len(s)} /\ Range(s) \subseteq Entry
           /\ \A i \in 1 .. Len(s) : s[i] \in Range(s) /\ s[i] \in Entry
           /\ \A e \in Range(s) : \E i \in 1 .. Len(s) : e = s[i]
BY SMTT(30) DEF Range

(* The fields of an entry.                                                 *)
LEMMA EntryIs ==
    ASSUME NEW e \in Entry
    PROVE  /\ e.tran \in Tran /\ e.granted \in Mode /\ e.blocked \in Mode
           /\ e.count \in 0 .. MaxCount
           /\ e = [tran |-> e.tran, granted |-> e.granted, blocked |-> e.blocked,
                   count |-> e.count]
BY SMTT(30) DEF Entry

(* The least of a set of numbers.                                          *)
LEMMA MinIs ==
    ASSUME NEW I, I \subseteq Nat, I # {}
    PROVE  Min(I) \in I /\ \A y \in I : Min(I) <= y
BY LeastNat DEF Min

(* The entry of a transaction.                                             *)
LEMMA IndexIs ==
    ASSUME NEW s \in Seq(Entry), NEW t
    PROVE  /\ IndexOf(s, t) \in 0 .. Len(s)
           /\ IndexOf(s, t) # 0 => IndexOf(s, t) \in 1 .. Len(s) /\ s[IndexOf(s, t)].tran = t
           /\ IndexOf(s, t) = 0 => \A i \in 1 .. Len(s) : s[i].tran # t
<1> DEFINE I == {i \in 1 .. Len(s) : s[i].tran = t}
<1>0. DOMAIN s = 1 .. Len(s)
  BY SMTT(30)
<1>1. IndexOf(s, t) = IF I # {} THEN Min(I) ELSE 0
  BY <1>0 DEF IndexOf, First
<1>2. I \subseteq Nat
  BY SMTT(30)
<1>3. I # {} => Min(I) \in I
  BY <1>2, MinIs
<1>4. I # {} => Min(I) \in 1 .. Len(s) /\ s[Min(I)].tran = t /\ Min(I) # 0
  BY <1>3, SMTT(30)
<1> QED
  <2>1. Len(s) \in Nat
    BY SMTT(30)
  <2>2. CASE I = {}
    BY <1>1, <2>1, <2>2, SMTT(30)
  <2>3. CASE I # {}
    BY <1>1, <1>4, <2>1, <2>3, SMTT(30)
  <2> QED BY <2>2, <2>3

(* A list loses an entry.                                                  *)
LEMMA EntryLeaves ==
    ASSUME NEW s \in Seq(Entry), Distinct(s), NEW i \in 1 .. Len(s), NEW r, Removed(r, s, i)
    PROVE  /\ r \in Seq(Entry) /\ Distinct(r)
           /\ Range(r) = Range(s) \ {s[i]}
           /\ \A e \in Range(r) : e.tran # s[i].tran
           /\ \A x, y \in 1 .. Len(r) : x < y =>
                 \E v, w \in 1 .. Len(s) : v < w /\ r[x] = s[v] /\ r[y] = s[w]
<1> DEFINE at(j) == IF j < i THEN j ELSE j + 1
<1>1. /\ Len(s) \in Nat
      /\ \A x, y \in 1 .. Len(s) : s[x].tran = s[y].tran => x = y
  BY SMTT(30) DEF Distinct
<1>2. /\ r \in Seq(Entry) /\ Len(r) = Len(s) - 1
      /\ \A j \in 1 .. Len(s) - 1 : r[j] = IF j < i THEN s[j] ELSE s[j + 1]
  BY DEF Removed
<1>3. \A j \in 1 .. Len(r) : at(j) \in 1 .. Len(s) /\ at(j) # i /\ r[j] = s[at(j)]
  BY <1>1, <1>2, SMTT(30)
<1>4. \A x, y \in 1 .. Len(r) : /\ at(x) = at(y) => x = y
                                /\ x < y => at(x) < at(y)
  BY <1>1, <1>2, SMTT(30)
<1>5. \A x \in 1 .. Len(s) : x # i => \E j \in 1 .. Len(r) : at(j) = x
  <2>1. ASSUME NEW x \in 1 .. Len(s), x # i PROVE \E j \in 1 .. Len(r) : at(j) = x
    <3>1. CASE x < i
      <4>1. x \in 1 .. Len(r) /\ at(x) = x
        BY <1>1, <1>2, <3>1, SMTT(30)
      <4> QED BY <4>1
    <3>2. CASE x > i
      <4>1. x - 1 \in 1 .. Len(r) /\ at(x - 1) = x
        BY <1>1, <1>2, <3>2, SMTT(30)
      <4> QED BY <4>1
    <3> QED BY <2>1, <3>1, <3>2, SMTT(30)
  <2> QED BY <2>1
<1> HIDE DEF at
<1>6. Distinct(r)
  BY <1>1, <1>3, <1>4 DEF Distinct
<1>9. Range(r) = {r[j] : j \in 1 .. Len(r)} /\ Range(s) = {s[j] : j \in 1 .. Len(s)}
  BY <1>1, <1>2, RangeIs
<1>10. \A j \in 1 .. Len(r) : r[j] \in Range(s) /\ r[j].tran # s[i].tran
  BY <1>1, <1>3, <1>9
<1>11. \A x \in 1 .. Len(s) : x # i => s[x] \in Range(r)
  BY <1>3, <1>5, <1>9
<1>12. Range(r) = Range(s) \ {s[i]}
  BY <1>9, <1>10, <1>11
<1> QED BY <1>2, <1>3, <1>4, <1>6, <1>9, <1>10, <1>12

(* A list gets an entry.                                                   *)
LEMMA EntryJoins ==
    ASSUME NEW s \in Seq(Entry), Distinct(s), NEW p \in 1 .. Len(s) + 1,
           NEW e \in Entry, \A f \in Range(s) : f.tran # e.tran,
           NEW n, Inserted(n, s, p, e)
    PROVE  /\ n \in Seq(Entry) /\ Distinct(n)
           /\ Range(n) = Range(s) \cup {e}
           /\ \A x, y \in 1 .. Len(n) : x < y =>
                 \/ \E v, w \in 1 .. Len(s) : v < w /\ n[x] = s[v] /\ n[y] = s[w]
                 \/ n[x] = e /\ \E w \in p .. Len(s) : n[y] = s[w]
                 \/ n[y] = e /\ \E v \in 1 .. Len(s) : v < p /\ n[x] = s[v]
<1> DEFINE at(j) == IF j < p THEN j ELSE j - 1
<1>1. /\ Len(s) \in Nat /\ p \in Nat
      /\ \A x, y \in 1 .. Len(s) : s[x].tran = s[y].tran => x = y
  BY SMTT(30) DEF Distinct
<1>2. /\ n \in Seq(Entry) /\ Len(n) = Len(s) + 1
      /\ \A j \in 1 .. Len(s) + 1 : n[j] = IF j < p THEN s[j]
                                           ELSE IF j = p THEN e ELSE s[j - 1]
  BY DEF Inserted
<1>3. \A j \in 1 .. Len(n) : j # p => at(j) \in 1 .. Len(s) /\ n[j] = s[at(j)]
  BY <1>1, <1>2, SMTT(30)
<1>4. p \in 1 .. Len(n) /\ n[p] = e
  BY <1>1, <1>2, SMTT(30)
<1>5. \A x, y \in 1 .. Len(n) : /\ x # p /\ y # p /\ at(x) = at(y) => x = y
                                /\ x # p /\ y # p /\ x < y => at(x) < at(y)
                                /\ x = p /\ x < y => y # p /\ at(y) \in p .. Len(s)
                                /\ y = p /\ x < y => x # p /\ at(x) < p
  BY <1>1, <1>2, SMTT(30)
<1>6. \A x \in 1 .. Len(s) : \E j \in 1 .. Len(n) : j # p /\ at(j) = x
  <2>1. ASSUME NEW x \in 1 .. Len(s) PROVE \E j \in 1 .. Len(n) : j # p /\ at(j) = x
    <3>1. CASE x < p
      <4>1. x \in 1 .. Len(n) /\ at(x) = x /\ x # p
        BY <1>1, <1>2, <3>1, SMTT(30)
      <4> QED BY <4>1
    <3>2. CASE ~(x < p)
      <4>1. x + 1 \in 1 .. Len(n) /\ at(x + 1) = x /\ x + 1 # p
        BY <1>1, <1>2, <3>2, SMTT(30)
      <4> QED BY <4>1
    <3> QED BY <3>1, <3>2
  <2> QED BY <2>1
<1> HIDE DEF at
<1>7. Range(n) = {n[j] : j \in 1 .. Len(n)} /\ Range(s) = {s[j] : j \in 1 .. Len(s)}
  BY <1>1, <1>2, RangeIs
<1>8. Distinct(n)
  <2>1. \A j \in 1 .. Len(n) : j # p => n[j].tran # e.tran
    BY <1>3, <1>7
  <2>2. ASSUME NEW x \in 1 .. Len(n), NEW y \in 1 .. Len(n), n[x].tran = n[y].tran
        PROVE  x = y
    <3>1. CASE x # p /\ y # p
      BY <1>1, <1>3, <1>5, <2>2, <3>1
    <3>2. CASE x = p \/ y = p
      BY <1>4, <2>1, <2>2, <3>2
    <3> QED BY <3>1, <3>2
  <2> QED BY <2>2 DEF Distinct
<1>9. Range(n) = Range(s) \cup {e}
  <2>1. \A j \in 1 .. Len(n) : n[j] \in Range(s) \cup {e}
    BY <1>3, <1>4, <1>7
  <2>2. ASSUME NEW x \in 1 .. Len(s) PROVE s[x] \in Range(n)
    <3>1. PICK j \in 1 .. Len(n) : j # p /\ at(j) = x
      BY <1>6
    <3>2. n[j] = s[x]
      BY <1>3, <3>1
    <3> QED BY <1>7, <3>2
  <2> QED BY <1>4, <1>7, <2>1, <2>2
<1>10. ASSUME NEW x \in 1 .. Len(n), NEW y \in 1 .. Len(n), x < y
       PROVE  \/ \E v, w \in 1 .. Len(s) : v < w /\ n[x] = s[v] /\ n[y] = s[w]
              \/ n[x] = e /\ \E w \in p .. Len(s) : n[y] = s[w]
              \/ n[y] = e /\ \E v \in 1 .. Len(s) : v < p /\ n[x] = s[v]
  <2>1. CASE x # p /\ y # p
    BY <1>3, <1>5, <1>10, <2>1
  <2>2. CASE x = p
    BY <1>3, <1>4, <1>5, <1>10, <2>2
  <2>3. CASE y = p
    BY <1>3, <1>4, <1>5, <1>10, <2>3
  <2> QED BY <2>1, <2>2, <2>3
<1> QED BY <1>2, <1>8, <1>9, <1>10

(* The order of a list of holders in which e was put before the p-th.      *)
LEMMA OrderJoins ==
    ASSUME NEW s, HolderList(s), NEW p \in 1 .. Len(s) + 1,
           NEW e \in Entry, HolderEntry(e), \A f \in Range(s) : f.tran # e.tran,
           e.blocked = NULL_LOCK =>
               \A i \in p .. Len(s) : s[i].blocked = NULL_LOCK,
           e.blocked # NULL_LOCK =>
               \A i \in 1 .. Len(s) : i < p =>
                   /\ s[i].blocked # NULL_LOCK
                   /\ s[i].blocked = X_LOCK => ~lock_Comp[e.blocked][s[i].granted],
           e.blocked = X_LOCK =>
               \A i \in p .. Len(s) : s[i].blocked = NULL_LOCK
    PROVE  /\ HolderList(InsertAt(s, p, e))
           /\ Range(InsertAt(s, p, e)) = Range(s) \cup {e}
<1> DEFINE n == InsertAt(s, p, e)
<1>1. s \in Seq(Entry) /\ Distinct(s) /\ Ordered(s) /\ \A f \in Range(s) : HolderEntry(f)
  BY DEF HolderList
<1>2. Inserted(n, s, p, e)
  BY <1>1, InsertAtIs
<1> HIDE DEF n
<1>3. /\ n \in Seq(Entry) /\ Distinct(n) /\ Range(n) = Range(s) \cup {e}
      /\ \A x, y \in 1 .. Len(n) : x < y =>
            \/ \E v, w \in 1 .. Len(s) : v < w /\ n[x] = s[v] /\ n[y] = s[w]
            \/ n[x] = e /\ \E w \in p .. Len(s) : n[y] = s[w]
            \/ n[y] = e /\ \E v \in 1 .. Len(s) : v < p /\ n[x] = s[v]
  BY <1>1, <1>2, EntryJoins, SMTT(30)
<1>4. ASSUME NEW x \in 1 .. Len(n), NEW y \in 1 .. Len(n), x < y, n[y].blocked # NULL_LOCK
      PROVE  /\ n[x].blocked # NULL_LOCK
             /\ n[x].blocked = X_LOCK => ~lock_Comp[n[y].blocked][n[x].granted]
  <2>1. CASE \E v, w \in 1 .. Len(s) : v < w /\ n[x] = s[v] /\ n[y] = s[w]
    BY <1>1, <1>4, <2>1 DEF Ordered
  <2>2. CASE n[x] = e /\ \E w \in p .. Len(s) : n[y] = s[w]
    BY <1>4, <2>2
  <2>3. CASE n[y] = e /\ \E v \in 1 .. Len(s) : v < p /\ n[x] = s[v]
    BY <1>4, <2>3
  <2> QED BY <1>3, <1>4, <2>1, <2>2, <2>3
<1> QED BY <1>1, <1>3, <1>4 DEF HolderList, Ordered, n

(* A list of holders loses an entry.                                       *)
LEMMA HolderLeaves ==
    ASSUME NEW s, HolderList(s), NEW i \in 1 .. Len(s)
    PROVE  /\ HolderList(RemoveAt(s, i))
           /\ Range(RemoveAt(s, i)) = Range(s) \ {s[i]}
           /\ \A e \in Range(RemoveAt(s, i)) : e.tran # s[i].tran
<1> DEFINE r == RemoveAt(s, i)
<1>1. s \in Seq(Entry) /\ Distinct(s) /\ Ordered(s) /\ \A f \in Range(s) : HolderEntry(f)
  BY DEF HolderList
<1>2. Removed(r, s, i)
  BY <1>1, RemoveAtIs
<1> HIDE DEF r
<1>3. /\ r \in Seq(Entry) /\ Distinct(r) /\ Range(r) = Range(s) \ {s[i]}
      /\ \A e \in Range(r) : e.tran # s[i].tran
      /\ \A x, y \in 1 .. Len(r) : x < y =>
            \E v, w \in 1 .. Len(s) : v < w /\ r[x] = s[v] /\ r[y] = s[w]
  BY <1>1, <1>2, EntryLeaves, SMTT(30)
<1>4. ASSUME NEW x \in 1 .. Len(r), NEW y \in 1 .. Len(r), x < y, r[y].blocked # NULL_LOCK
      PROVE  /\ r[x].blocked # NULL_LOCK
             /\ r[x].blocked = X_LOCK => ~lock_Comp[r[y].blocked][r[x].granted]
  <2>1. PICK v \in 1 .. Len(s), w \in 1 .. Len(s) : v < w /\ r[x] = s[v] /\ r[y] = s[w]
    BY <1>3, <1>4
  <2> QED BY <1>1, <1>4, <2>1 DEF Ordered
<1> QED BY <1>1, <1>3, <1>4 DEF HolderList, Ordered, r

(* A list of waiters loses an entry ...                                    *)
LEMMA WaiterLeaves ==
    ASSUME NEW s, WaiterList(s), NEW i \in 1 .. Len(s)
    PROVE  /\ WaiterList(RemoveAt(s, i))
           /\ Range(RemoveAt(s, i)) = Range(s) \ {s[i]}
           /\ \A e \in Range(RemoveAt(s, i)) : e.tran # s[i].tran
           /\ Removed(RemoveAt(s, i), s, i)
<1> DEFINE r == RemoveAt(s, i)
<1>1. s \in Seq(Entry) /\ Distinct(s) /\ \A f \in Range(s) : WaiterEntry(f)
  BY DEF WaiterList
<1>2. Removed(r, s, i)
  BY <1>1, RemoveAtIs
<1> HIDE DEF r
<1>3. /\ r \in Seq(Entry) /\ Distinct(r) /\ Range(r) = Range(s) \ {s[i]}
      /\ \A e \in Range(r) : e.tran # s[i].tran
  BY <1>1, <1>2, EntryLeaves, SMTT(30)
<1> QED BY <1>1, <1>2, <1>3 DEF WaiterList, r

(* ... or gets one at the end.                                             *)
LEMMA WaiterJoins ==
    ASSUME NEW s, WaiterList(s), NEW e \in Entry, WaiterEntry(e),
           \A f \in Range(s) : f.tran # e.tran
    PROVE  /\ WaiterList(Append(s, e))
           /\ Range(Append(s, e)) = Range(s) \cup {e}
           /\ Append(s, e) # <<>> /\ Append(s, e)[1] = IF s = <<>> THEN e ELSE s[1]
<1> DEFINE n == Append(s, e)
<1>1. s \in Seq(Entry) /\ Distinct(s) /\ \A f \in Range(s) : WaiterEntry(f)
  BY DEF WaiterList
<1>2. Len(s) \in Nat /\ Len(s) + 1 \in 1 .. Len(s) + 1 /\ (s # <<>> => Len(s) > 0)
  BY <1>1, SMTT(30)
<1>3. /\ n \in Seq(Entry) /\ Len(n) = Len(s) + 1 /\ n[Len(s) + 1] = e
      /\ \A j \in 1 .. Len(s) : n[j] = s[j]
  BY <1>1, SMTT(30)
<1> HIDE DEF n
<1>4. Inserted(n, s, Len(s) + 1, e)
  BY <1>2, <1>3, SMTT(30) DEF Inserted
<1>5. n \in Seq(Entry) /\ Distinct(n) /\ Range(n) = Range(s) \cup {e}
  BY <1>1, <1>2, <1>4, EntryJoins, SMTT(30)
<1>6. n # <<>> /\ n[1] = IF s = <<>> THEN e ELSE s[1]
  <2>1. CASE s = <<>>
    BY <1>3, <2>1, SMTT(30)
  <2>2. CASE s # <<>>
    BY <1>2, <1>3, <2>2, SMTT(30)
  <2> QED BY <2>1, <2>2
<1> QED BY <1>1, <1>5, <1>6 DEF WaiterList, n

(* The first of some places in a list of n, or 0.                          *)
LEMMA FirstIs ==
    ASSUME NEW n \in Nat, NEW I, I \subseteq 1 .. n
    PROVE  /\ First(I) \in 0 .. n
           /\ First(I) = 0 <=> I = {}
           /\ First(I) # 0 => First(I) \in I /\ \A y \in I : First(I) <= y
<1>1. I \subseteq Nat /\ 0 \notin I
  BY SMTT(30)
<1>2. CASE I = {}
  BY <1>2, SMTT(30) DEF First
<1>3. CASE I # {}
  <2>1. First(I) = Min(I) /\ Min(I) \in I /\ \A y \in I : Min(I) <= y
    BY <1>1, <1>3, MinIs DEF First
  <2>2. \A m \in I : m \in 0 .. n /\ m # 0
    BY SMTT(30)
  <2> QED BY <1>3, <2>1, <2>2
<1> QED BY <1>2, <1>3

(* The first place that is found, or else d.                               *)
Chosen(places, d) ==
    LET found == First({p \in DOMAIN places : places[p] # 0})
    IN  IF found = 0 THEN d ELSE places[found]

(* With one place to try, that one or else the default.                    *)
LEMMA ChosenOne ==
    ASSUME NEW a \in Nat, NEW d
    PROVE  Chosen(<<a>>, d) = IF a # 0 THEN a ELSE d
<1> DEFINE I == {p \in DOMAIN <<a>> : <<a>>[p] # 0}
<1>1. I \subseteq 1 .. 1 /\ (1 \in I <=> a # 0)
  BY SMTT(30)
<1>3. Chosen(<<a>>, d) = IF First(I) = 0 THEN d ELSE <<a>>[First(I)]
  BY DEF Chosen
<1> HIDE DEF I
<1>f. PICK f : f = First(I)
  BY SMTT(30)
<1>2. (f = 0 <=> I = {}) /\ (f # 0 => f \in I)
  <2>1. 1 \in Nat
    BY SMTT(30)
  <2> QED BY <1>1, <1>f, <2>1, FirstIs
<1>4. CASE a = 0
  <2>1. f = 0
    BY <1>1, <1>2, <1>4, SMTT(30)
  <2> QED BY <1>3, <1>4, <1>f, <2>1
<1>5. CASE a # 0
  <2>0. f \in 1 .. 1
    BY <1>1, <1>2, <1>5
  <2>1. f = 1
    BY <2>0, SMTT(30)
  <2>2. Chosen(<<a>>, d) = <<a>>[1]
    BY <1>3, <1>f, <2>1, SMTT(30)
  <2> QED BY <1>5, <2>2, SMTT(30)
<1> QED BY <1>4, <1>5

(* With three places to try, the first that exists.                        *)
LEMMA ChosenThree ==
    ASSUME NEW a \in Nat, NEW b \in Nat, NEW c \in Nat, NEW d
    PROVE  Chosen(<<a, b, c>>, d) =
               IF a # 0 THEN a ELSE IF b # 0 THEN b ELSE IF c # 0 THEN c ELSE d
<1> DEFINE I == {p \in DOMAIN <<a, b, c>> : <<a, b, c>>[p] # 0}
<1>1. /\ I \subseteq 1 .. 3
      /\ 1 \in I <=> a # 0
      /\ 2 \in I <=> b # 0
      /\ 3 \in I <=> c # 0
  BY SMTT(30)
<1>3. Chosen(<<a, b, c>>, d) = IF First(I) = 0 THEN d ELSE <<a, b, c>>[First(I)]
  BY DEF Chosen
<1> HIDE DEF I
<1>f. PICK f : f = First(I)
  BY SMTT(30)
<1>2. (f = 0 <=> I = {}) /\ (f # 0 => f \in I /\ \A y \in I : f <= y)
  <2>1. 3 \in Nat
    BY SMTT(30)
  <2> QED BY <1>1, <1>f, <2>1, FirstIs
<1>4. CASE a # 0
  <2>0. f \in 1 .. 3 /\ f <= 1
    BY <1>1, <1>2, <1>4
  <2>1. f = 1
    BY <2>0, SMTT(30)
  <2>2. Chosen(<<a, b, c>>, d) = <<a, b, c>>[1]
    BY <1>3, <1>f, <2>1, SMTT(30)
  <2> QED BY <1>4, <2>2, SMTT(30)
<1>5. CASE a = 0 /\ b # 0
  <2>0. f \in 1 .. 3 /\ f <= 2 /\ f # 1
    BY <1>1, <1>2, <1>5
  <2>1. f = 2
    BY <2>0, SMTT(30)
  <2>2. Chosen(<<a, b, c>>, d) = <<a, b, c>>[2]
    BY <1>3, <1>f, <2>1, SMTT(30)
  <2> QED BY <1>5, <2>2, SMTT(30)
<1>6. CASE a = 0 /\ b = 0 /\ c # 0
  <2>0. f \in 1 .. 3 /\ f # 1 /\ f # 2
    BY <1>1, <1>2, <1>6
  <2>1. f = 3
    BY <2>0, SMTT(30)
  <2>2. Chosen(<<a, b, c>>, d) = <<a, b, c>>[3]
    BY <1>3, <1>f, <2>1, SMTT(30)
  <2> QED BY <1>6, <2>2, SMTT(30)
<1>7. CASE a = 0 /\ b = 0 /\ c = 0
  <2>1. f = 0
    BY <1>1, <1>2, <1>7, SMTT(30)
  <2> QED BY <1>3, <1>7, <1>f, <2>1
<1> QED BY <1>4, <1>5, <1>6, <1>7

(* A holder that is blocked asks for U_LOCK or X_LOCK.                     *)
LEMMA HolderModes ==
    ASSUME NEW e \in Entry, HolderEntry(e)
    PROVE  /\ e.granted \in {2, 3, 4} /\ e.blocked \in {1, 2, 3, 4}
           /\ e.blocked # NULL_LOCK => e.blocked \in {3, 4} /\ e.granted \in {2, 3}
           /\ e.blocked = 3 => e.granted = 2
           /\ e.blocked # NULL_LOCK <=> e.blocked # 1
<1>1. e.granted \in {1, 2, 3, 4} /\ e.blocked \in {1, 2, 3, 4}
  BY EntryIs, ModeIs
<1> QED BY <1>1, SMTT(30) DEF HolderEntry, NULL_LOCK

(* lock_position_holder_entry keeps the order.                             *)
LEMMA PositionIs ==
    ASSUME NEW s, HolderList(s), NEW e \in Entry, HolderEntry(e),
           \A f \in Range(s) : f.tran # e.tran
    PROVE  /\ HolderList(Position(s, e))
           /\ Range(Position(s, e)) = Range(s) \cup {e}
<1> DEFINE A == {i \in DOMAIN s : /\ s[i].blocked # NULL_LOCK
                                  /\ lock_Comp[e.blocked][s[i].blocked]}
           B == {i \in DOMAIN s : /\ s[i].blocked # NULL_LOCK
                                  /\ lock_Comp[e.blocked][s[i].granted]
                                  /\ ~lock_Comp[s[i].blocked][e.granted]}
           C == {i \in DOMAIN s : s[i].blocked = NULL_LOCK}
           places == IF e.blocked = NULL_LOCK THEN <<First(C)>>
                     ELSE <<First(A), First(B), First(C)>>
           p == Chosen(places, Len(s) + 1)
<1>1. Position(s, e) = InsertAt(s, p, e)
  BY DEF Position, FirstFree, Chosen
<1>2. /\ s \in Seq(Entry) /\ Len(s) \in Nat /\ DOMAIN s = 1 .. Len(s)
      /\ \A f \in Range(s) : HolderEntry(f)
      /\ Ordered(s)
  BY SMTT(30) DEF HolderList
<1>3. \A i \in 1 .. Len(s) : s[i] \in Entry /\ HolderEntry(s[i])
  BY <1>2, RangeIs
<1>4. A \subseteq 1 .. Len(s) /\ B \subseteq 1 .. Len(s) /\ C \subseteq 1 .. Len(s)
  BY <1>2
<1>5. /\ First(C) \in 0 .. Len(s)
      /\ First(C) = 0 => \A i \in 1 .. Len(s) : s[i].blocked # NULL_LOCK
      /\ First(C) # 0 => /\ s[First(C)].blocked = NULL_LOCK /\ First(C) \in 1 .. Len(s)
                         /\ \A i \in 1 .. Len(s) : s[i].blocked = NULL_LOCK => First(C) <= i
  <2>1. \A i \in 1 .. Len(s) : i \in C <=> s[i].blocked = NULL_LOCK
    BY <1>2
  <2> HIDE DEF C
  <2> QED BY <1>2, <1>4, <2>1, FirstIs
<1>6. \A i \in 1 .. Len(s) : First(C) # 0 /\ First(C) <= i => s[i].blocked = NULL_LOCK
  <2>1. ASSUME NEW i \in 1 .. Len(s), First(C) # 0, First(C) <= i
        PROVE  s[i].blocked = NULL_LOCK
    <3>1. First(C) = i \/ First(C) < i
      BY <1>2, <1>5, <2>1, SMTT(30)
    <3> QED BY <1>2, <1>5, <2>1, <3>1 DEF Ordered
  <2> QED BY <2>1
<1>7. CASE e.blocked = NULL_LOCK
  <2>1. p = IF First(C) # 0 THEN First(C) ELSE Len(s) + 1
    <3>1. p = Chosen(<<First(C)>>, Len(s) + 1) /\ First(C) \in Nat
      BY <1>2, <1>5, <1>7, SMTT(30)
    <3> QED BY <3>1, ChosenOne
  <2> HIDE DEF p, C
  <2>2. p \in 1 .. Len(s) + 1
    BY <1>2, <1>5, <2>1, SMTT(30)
  <2>3. \A i \in p .. Len(s) : s[i].blocked = NULL_LOCK
    BY <1>2, <1>5, <1>6, <2>1, SMTT(30)
  <2>4. e.blocked # X_LOCK
    BY <1>7, SMTT(30) DEF NULL_LOCK, X_LOCK
  <2> QED BY <1>1, <1>7, <2>2, <2>3, <2>4, OrderJoins, SMTT(30)
<1>8. CASE e.blocked # NULL_LOCK
  <2>1. e.blocked \in {3, 4} /\ e.granted \in {2, 3} /\ (e.blocked = 3 => e.granted = 2)
    BY <1>8, HolderModes
  <2>2. \A i \in 1 .. Len(s) : s[i].blocked # NULL_LOCK =>
            /\ s[i].blocked \in {3, 4} /\ s[i].granted \in {2, 3}
            /\ s[i].blocked = 3 => s[i].granted = 2
    BY <1>3, HolderModes
  <2>3. \A x, y \in {1, 2, 3, 4} : lock_Comp[x][y] <=> x + y <= 5
    BY ModeIs, CompIs
  <2>4. First(A) = 0
    <3>1. A = {}
      BY <1>2, <2>1, <2>2, <2>3, SMTT(30)
    <3> QED BY <3>1 DEF First
  <2>5. /\ First(B) \in 0 .. Len(s)
        /\ First(B) # 0 => First(B) \in B
        /\ First(B) # 0 => \A i \in B : First(B) <= i
        /\ First(B) = 0 => B = {}
    <3> HIDE DEF B
    <3> QED BY <1>2, <1>4, FirstIs
  <2>6. p = IF First(B) # 0 THEN First(B)
            ELSE IF First(C) # 0 THEN First(C) ELSE Len(s) + 1
    <3>1. p = Chosen(<<First(A), First(B), First(C)>>, Len(s) + 1)
      BY <1>8
    <3> HIDE DEF A, B, C, p
    <3>2. First(A) \in Nat /\ First(B) \in Nat /\ First(C) \in Nat
      BY <1>2, <1>5, <2>4, <2>5, SMTT(30)
    <3> QED BY <2>4, <3>1, <3>2, ChosenThree, SMTT(30)
  <2>7. \A i \in 1 .. Len(s) : i \in B <=> /\ e.blocked = 3
                                           /\ s[i].blocked = 4 /\ s[i].granted = 2
    BY <1>2, <2>1, <2>2, <2>3, SMTT(30) DEF NULL_LOCK
  <2> HIDE DEF A, B, C, p
  <2>8. p \in 1 .. Len(s) + 1
    BY <1>2, <1>5, <2>5, <2>6, SMTT(30)
  <2>9. ASSUME NEW i \in 1 .. Len(s), i < p
        PROVE  /\ s[i].blocked # NULL_LOCK
               /\ s[i].blocked = X_LOCK => ~lock_Comp[e.blocked][s[i].granted]
    <3>1. s[i].blocked # NULL_LOCK
      <4>1. CASE First(B) # 0
        <5>1. s[First(B)].blocked # NULL_LOCK /\ First(B) \in 1 .. Len(s) /\ i < First(B)
          BY <1>4, <2>5, <2>6, <2>7, <2>9, <4>1, SMTT(30) DEF NULL_LOCK
        <5> QED BY <1>2, <5>1 DEF Ordered
      <4>2. CASE First(B) = 0
        BY <1>2, <1>5, <2>6, <2>9, <4>2, SMTT(30)
      <4> QED BY <4>1, <4>2
    <3>2. i \notin B
      <4>1. CASE First(B) # 0
        BY <1>4, <2>5, <2>6, <2>9, <4>1, SMTT(30)
      <4>2. CASE First(B) = 0
        BY <2>5, <4>2
      <4> QED BY <4>1, <4>2
    <3>3. s[i].blocked \in {3, 4} /\ s[i].granted \in {2, 3}
      BY <2>2, <3>1
    <3>4. s[i].blocked = 4 => e.blocked + s[i].granted > 5
      BY <2>1, <2>7, <3>2, <3>3, SMTT(30)
    <3> QED BY <2>1, <2>3, <3>1, <3>3, <3>4, SMTT(30) DEF X_LOCK
  <2>10. ASSUME e.blocked = X_LOCK, NEW i \in p .. Len(s) PROVE s[i].blocked = NULL_LOCK
    <3>1. e.blocked = 4
      BY <2>10, SMTT(30) DEF X_LOCK
    <3>2. B = {}
      BY <1>4, <2>7, <3>1, SMTT(30)
    <3>3. First(B) = 0
      BY <3>2 DEF First
    <3> QED BY <1>2, <1>5, <1>6, <2>6, <2>8, <3>3, SMTT(30)
  <2> QED BY <1>1, <1>8, <2>8, <2>9, <2>10, OrderJoins, SMTT(30)
<1> QED BY <1>7, <1>8

-----------------------------------------------------------------------------
(* The modes of a list, converted into one, are the strongest of them.     *)

(* m is the strongest of the first n modes of g.                           *)
IsTop(m, g, n) ==
    /\ m \in Mode
    /\ \A x \in 1 .. n : g[x] <= m
    /\ m = NULL_LOCK \/ \E x \in 1 .. n : m = g[x]

(* There is one strongest mode.                                            *)
LEMMA TopExists ==
    ASSUME NEW n \in Nat, NEW g, \A x \in 1 .. n : g[x] \in Mode
    PROVE  \E m \in Mode : IsTop(m, g, n) /\ \A o \in Mode : IsTop(o, g, n) => o = m
<1> DEFINE s == 1 .. n
<1>1. \A x \in s : g[x] \in {1, 2, 3, 4}
  BY ModeIs
<1> HIDE DEF s
<1>2. \E m \in {1, 2, 3, 4} : /\ \A x \in s : g[x] <= m
                              /\ m = 1 \/ \E x \in s : m = g[x]
  <2>1. CASE \E x \in s : g[x] = 4
    BY <1>1, <2>1, SMTT(30)
  <2>2. CASE (\E x \in s : g[x] = 3) /\ \A x \in s : g[x] # 4
    <3>1. \A x \in s : g[x] <= 3
      BY <1>1, <2>2, SMTT(30)
    <3> QED BY <2>2, <3>1, SMTT(30)
  <2>3. CASE (\E x \in s : g[x] = 2) /\ \A x \in s : g[x] \notin {3, 4}
    <3>1. \A x \in s : g[x] <= 2
      BY <1>1, <2>3, SMTT(30)
    <3> QED BY <2>3, <3>1, SMTT(30)
  <2>4. CASE \A x \in s : g[x] \notin {2, 3, 4}
    <3>1. \A x \in s : g[x] <= 1
      BY <1>1, <2>4, SMTT(30)
    <3> QED BY <3>1, SMTT(30)
  <2> QED BY <2>1, <2>2, <2>3, <2>4, SMTT(30)
<1>3. PICK m \in {1, 2, 3, 4} : /\ \A x \in s : g[x] <= m
                                /\ m = 1 \/ \E x \in s : m = g[x]
  BY <1>2
<1>4. m \in Mode /\ IsTop(m, g, n)
  BY <1>3, ModeIs DEF IsTop, NULL_LOCK, s
<1>5. ASSUME NEW o \in Mode, IsTop(o, g, n) PROVE o = m
  <2>1. o \in {1, 2, 3, 4} /\ (\A x \in s : g[x] <= o) /\ (o = 1 \/ \E x \in s : o = g[x])
    BY <1>5, ModeIs DEF IsTop, NULL_LOCK, s
  <2>2. o <= m
    BY <1>3, <2>1, SMTT(30)
  <2>3. m <= o
    BY <1>3, <2>1, SMTT(30)
  <2> QED BY <2>1, <2>2, <2>3, SMTT(30)
<1> QED BY <1>4, <1>5

(* Converting one more mode.                                               *)
LEMMA TopJoins ==
    ASSUME NEW n \in Nat, NEW g, \A x \in 1 .. n : g[x] \in Mode, n # 0,
           NEW m, IsTop(m, g, n - 1)
    PROVE  IsTop(lock_Conv[g[n]][m], g, n)
<1>1. m \in Mode /\ n \in 1 .. n /\ 1 .. n = (1 .. n - 1) \cup {n}
  <2>1. m \in Mode
    BY DEF IsTop
  <2> QED BY <2>1, SMTT(30)
<1>2. g[n] \in Mode
  BY <1>1
<1>3. lock_Conv[g[n]][m] = IF g[n] >= m THEN g[n] ELSE m
  BY <1>1, <1>2, ConvIs
<1>4. m \in Nat /\ \A y \in 1 .. n : g[y] \in Nat
  <2>1. \A y \in 1 .. n : g[y] \in {1, 2, 3, 4}
    BY ModeIs
  <2>2. m \in {1, 2, 3, 4}
    BY <1>1, ModeIs
  <2> QED BY <2>1, <2>2, SMTT(30)
<1>5. (\A y \in 1 .. n - 1 : g[y] <= m) /\ (m = NULL_LOCK \/ \E y \in 1 .. n - 1 : m = g[y])
  BY DEF IsTop
<1>6. CASE g[n] >= m
  <2>1. \A y \in 1 .. n : g[y] <= g[n]
    BY <1>1, <1>4, <1>5, <1>6, SMTT(30)
  <2> QED BY <1>1, <1>2, <1>3, <1>6, <2>1 DEF IsTop
<1>7. CASE ~(g[n] >= m)
  <2>1. \A y \in 1 .. n : g[y] <= m
    BY <1>1, <1>4, <1>5, <1>7, SMTT(30)
  <2> QED BY <1>1, <1>3, <1>5, <1>7, <2>1 DEF IsTop
<1> QED BY <1>6, <1>7

(* Modes converted one after the other make the strongest of them.         *)
LEMMA ConvertedIs ==
    ASSUME NEW n \in Nat, NEW g \in [1 .. n -> Mode]
    PROVE  IsTop(Converted(g, n), g, n)
<1> DEFINE F(f) == [i \in 0 .. n |-> IF i = 0 THEN NULL_LOCK ELSE lock_Conv[g[i]][f[i - 1]]]
           conv == CHOOSE f : f = F(f)
           top == [i \in 0 .. n |-> CHOOSE m \in Mode : IsTop(m, g, i)]
<1>1. Converted(g, n) = conv[n]
  BY DEF Converted
<1>2. ASSUME NEW i \in 0 .. n
      PROVE  /\ i \in Nat /\ \A x \in 1 .. i : g[x] \in Mode
             /\ i # 0 => i - 1 \in 0 .. n /\ i \in 1 .. n
  BY SMTT(30)
<1>3. IsTop(NULL_LOCK, g, 0) /\ NULL_LOCK \in Mode
  <2>1. 1 .. 0 = {} /\ NULL_LOCK \in Mode
    BY ModeIs, SMTT(30) DEF NULL_LOCK
  <2> QED BY <2>1 DEF IsTop
<1>4. ASSUME NEW i \in 0 .. n
      PROVE  IsTop(top[i], g, i) /\ \A o \in Mode : IsTop(o, g, i) => o = top[i]
  <2>1. \E m \in Mode : IsTop(m, g, i) /\ \A o \in Mode : IsTop(o, g, i) => o = m
    <3> HIDE DEF top, F, conv
    <3> QED BY <1>2, TopExists
  <2>2. top[i] = CHOOSE m \in Mode : IsTop(m, g, i)
    BY SMTT(30)
  <2> HIDE DEF top
  <2> QED BY <2>1, <2>2
<1>5. ASSUME NEW f, NEW i \in 0 .. n
      PROVE  F(f)[i] = IF i = 0 THEN NULL_LOCK ELSE lock_Conv[g[i]][f[i - 1]]
  BY SMTT(30)
<1>6. ASSUME NEW i \in 0 .. n PROVE top[i] = F(top)[i]
  <2> HIDE DEF top, F, conv
  <2>1. CASE i = 0
    BY <1>3, <1>4, <1>5, <2>1
  <2>2. CASE i # 0
    <3>1. IsTop(lock_Conv[g[i]][top[i - 1]], g, i)
      BY <1>2, <1>4, <2>2, TopJoins
    <3>2. lock_Conv[g[i]][top[i - 1]] \in Mode
      BY <3>1 DEF IsTop
    <3> QED BY <1>4, <1>5, <2>2, <3>1, <3>2
  <2> QED BY <2>1, <2>2
<1>7. top = F(top)
  <2>1. top = [i \in 0 .. n |-> top[i]] /\ F(top) = [i \in 0 .. n |-> F(top)[i]]
    BY SMTT(30)
  <2> HIDE DEF top, F
  <2> QED BY <1>6, <2>1, SMTT(30)
<1> HIDE DEF top, F
<1>8. conv = F(conv)
  BY <1>7
<1> HIDE DEF conv
<1> DEFINE T == {i \in 0 .. n : ~IsTop(conv[i], g, i)}
<1>9. ASSUME T # {} PROVE FALSE
  <2>1. T \subseteq Nat
    BY <1>2
  <2>2. PICK c \in T : \A y \in T : c <= y
    BY <1>9, <2>1, LeastNat
  <2>3. c \in 0 .. n /\ ~IsTop(conv[c], g, c)
    OBVIOUS
  <2>4. conv[c] = IF c = 0 THEN NULL_LOCK ELSE lock_Conv[g[c]][conv[c - 1]]
    BY <1>5, <1>8, <2>3
  <2>5. c # 0 /\ conv[c] = lock_Conv[g[c]][conv[c - 1]]
    BY <1>3, <2>3, <2>4
  <2>6. ~IsTop(conv[c - 1], g, c - 1)
    BY <1>2, <2>3, <2>5, TopJoins
  <2>7. c <= c - 1
    BY <1>2, <2>2, <2>3, <2>5, <2>6
  <2> QED BY <1>2, <2>3, <2>7, SMTT(30)
<1>10. IsTop(conv[n], g, n)
  <2>1. n \in 0 .. n
    BY SMTT(30)
  <2> QED BY <1>9, <2>1
<1> QED BY <1>1, <1>10

(* The granted modes of a list ...                                         *)
LEMMA GrantedIs ==
    ASSUME NEW s \in Seq(Entry)
    PROVE  /\ Granted(s) \in Mode
           /\ \A i \in 1 .. Len(s) : s[i].granted <= Granted(s)
           /\ Granted(s) = NULL_LOCK \/ \E i \in 1 .. Len(s) : Granted(s) = s[i].granted
<1> DEFINE g == [i \in 1 .. Len(s) |-> s[i].granted]
<1>1. DOMAIN s = 1 .. Len(s) /\ Len(s) \in Nat
  BY SMTT(30)
<1>2. g \in [1 .. Len(s) -> Mode] /\ \A i \in 1 .. Len(s) : g[i] = s[i].granted
  <2>1. \A i \in 1 .. Len(s) : s[i].granted \in Mode
    BY RangeIs, EntryIs
  <2> QED BY <2>1, SMTT(30)
<1>3. Granted(s) = Converted(g, Len(s))
  BY <1>1 DEF Granted
<1> HIDE DEF g
<1> QED BY <1>1, <1>2, <1>3, ConvertedIs DEF IsTop

(* ... and the blocked ones.                                               *)
LEMMA BlockedIs ==
    ASSUME NEW s \in Seq(Entry)
    PROVE  /\ Blocked(s) \in Mode
           /\ \A i \in 1 .. Len(s) : s[i].blocked <= Blocked(s)
           /\ Blocked(s) = NULL_LOCK \/ \E i \in 1 .. Len(s) : Blocked(s) = s[i].blocked
<1> DEFINE g == [i \in 1 .. Len(s) |-> s[i].blocked]
<1>1. DOMAIN s = 1 .. Len(s) /\ Len(s) \in Nat
  BY SMTT(30)
<1>2. g \in [1 .. Len(s) -> Mode] /\ \A i \in 1 .. Len(s) : g[i] = s[i].blocked
  <2>1. \A i \in 1 .. Len(s) : s[i].blocked \in Mode
    BY RangeIs, EntryIs
  <2> QED BY <2>1, SMTT(30)
<1>3. Blocked(s) = Converted(g, Len(s))
  BY <1>1 DEF Blocked
<1> HIDE DEF g
<1> QED BY <1>1, <1>2, <1>3, ConvertedIs DEF IsTop

(* m is the mode of all granted and all blocked modes of the holders.      *)
IsTotal(m, R) ==
    /\ m \in Mode
    /\ \A e \in R : e.granted <= m /\ e.blocked <= m
    /\ m = NULL_LOCK \/ \E e \in R : m = e.granted \/ m = e.blocked

(* TotalHolders is that mode, and there is no other.                       *)
LEMMA TotalIs ==
    ASSUME NEW s \in Seq(Entry)
    PROVE  /\ IsTotal(TotalHolders(s), Range(s))
           /\ \A m : IsTotal(m, Range(s)) => m = TotalHolders(s)
<1> DEFINE b == Blocked(s)
           g == Granted(s)
<1>1. /\ b \in Mode /\ (\A i \in 1 .. Len(s) : s[i].blocked <= b)
      /\ b = NULL_LOCK \/ \E i \in 1 .. Len(s) : b = s[i].blocked
  BY BlockedIs
<1>2. /\ g \in Mode /\ (\A i \in 1 .. Len(s) : s[i].granted <= g)
      /\ g = NULL_LOCK \/ \E i \in 1 .. Len(s) : g = s[i].granted
  BY GrantedIs
<1>3. TotalHolders(s) = lock_Conv[b][g]
  BY DEF TotalHolders
<1> HIDE DEF b, g
<1>4. lock_Conv[b][g] = IF b >= g THEN b ELSE g
  BY <1>1, <1>2, ConvIs
<1>5. PICK m : m = TotalHolders(s)
  BY SMTT(30)
<1>6. /\ \A i \in 1 .. Len(s) : s[i].granted \in Nat /\ s[i].blocked \in Nat
      /\ b \in Nat /\ g \in Nat /\ NULL_LOCK \in Nat
      /\ b >= NULL_LOCK /\ g >= NULL_LOCK
  <2>1. \A i \in 1 .. Len(s) : s[i].granted \in Mode /\ s[i].blocked \in Mode
    BY RangeIs, EntryIs
  <2> QED BY <1>1, <1>2, <2>1, ModeIs, SMTT(30) DEF NULL_LOCK
<1>7. Range(s) = {s[i] : i \in 1 .. Len(s)}
  BY RangeIs
<1>8. m = IF b >= g THEN b ELSE g
  BY <1>3, <1>4, <1>5
<1>9. \A i \in 1 .. Len(s) : s[i].granted <= m /\ s[i].blocked <= m
  BY <1>1, <1>2, <1>6, <1>8, SMTT(30)
<1>10. m \in Mode /\ m \in Nat /\ m >= NULL_LOCK
  BY <1>1, <1>2, <1>6, <1>8, SMTT(30)
<1>11. m = NULL_LOCK \/ \E i \in 1 .. Len(s) : m = s[i].granted \/ m = s[i].blocked
  BY <1>1, <1>2, <1>8
<1>12. IsTotal(m, Range(s))
  BY <1>7, <1>9, <1>10, <1>11 DEF IsTotal
<1>13. ASSUME NEW n, IsTotal(n, Range(s)) PROVE n = m
  <2>1. /\ n \in Mode
        /\ \A i \in 1 .. Len(s) : s[i].granted <= n /\ s[i].blocked <= n
        /\ n = NULL_LOCK \/ \E i \in 1 .. Len(s) : n = s[i].granted \/ n = s[i].blocked
    BY <1>7, <1>13 DEF IsTotal
  <2>2. n \in Nat /\ n >= NULL_LOCK
    BY <2>1, ModeIs, SMTT(30) DEF NULL_LOCK
  <2>3. n <= m
    BY <1>9, <1>10, <2>1, <2>2, SMTT(30)
  <2>4. m <= n
    BY <1>11, <2>1, <2>2, SMTT(30)
  <2> QED BY <1>10, <2>2, <2>3, <2>4, SMTT(30)
<1> QED BY <1>5, <1>12, <1>13

(* A mode is compatible with the mode of a list when it is with each.      *)
LEMMA GrantedAllows ==
    ASSUME NEW s \in Seq(Entry), NEW m \in Mode
    PROVE  lock_Comp[m][Granted(s)] <=> \A e \in Range(s) : lock_Comp[m][e.granted]
<1>1. PICK g : g = Granted(s)
  BY SMTT(30)
<1>2. /\ g \in Mode /\ (\A i \in 1 .. Len(s) : s[i].granted <= g)
      /\ g = NULL_LOCK \/ \E i \in 1 .. Len(s) : g = s[i].granted
  BY <1>1, GrantedIs
<1>3. \A i \in 1 .. Len(s) : s[i].granted \in Mode
  BY RangeIs, EntryIs
<1>4. \A a, b \in Mode : a \in {1, 2, 3, 4} /\ (lock_Comp[a][b] <=> a + b <= 5)
  <2>1. \A a, b \in Mode : lock_Comp[a][b] <=> a + b <= 5
    BY CompIs
  <2>2. \A a \in Mode : a \in {1, 2, 3, 4}
    BY ModeIs
  <2> QED BY <2>1, <2>2
<1>5. lock_Comp[m][g] <=> \A i \in 1 .. Len(s) : lock_Comp[m][s[i].granted]
  <2>1. ASSUME lock_Comp[m][g], NEW i \in 1 .. Len(s) PROVE lock_Comp[m][s[i].granted]
    BY <1>2, <1>3, <1>4, <2>1, SMTT(30)
  <2>2. ASSUME \A i \in 1 .. Len(s) : lock_Comp[m][s[i].granted] PROVE lock_Comp[m][g]
    <3>1. CASE g = NULL_LOCK
      BY <1>2, <1>4, <3>1, SMTT(30) DEF NULL_LOCK
    <3>2. CASE g # NULL_LOCK
      BY <1>2, <2>2, <3>2
    <3> QED BY <3>1, <3>2
  <2> QED BY <2>1, <2>2
<1>6. Range(s) = {s[i] : i \in 1 .. Len(s)}
  BY RangeIs
<1> QED BY <1>1, <1>5, <1>6

(* What is compatible with the total is compatible with each holder.       *)
LEMMA TotalAllows ==
    ASSUME NEW R \in SUBSET Entry, NEW m, IsTotal(m, R), NEW x \in Mode, lock_Comp[x][m]
    PROVE  \A e \in R : lock_Comp[x][e.granted]
<1>1. ASSUME NEW e \in R PROVE lock_Comp[x][e.granted]
  <2>1. m \in Mode /\ e.granted <= m
    BY DEF IsTotal
  <2>2. e.granted \in Mode
    BY EntryIs
  <2>3. x \in {1, 2, 3, 4} /\ m \in {1, 2, 3, 4} /\ e.granted \in {1, 2, 3, 4}
    BY <2>1, <2>2, ModeIs
  <2>4. (lock_Comp[x][e.granted] <=> x + e.granted <= 5) /\ x + m <= 5
    BY <2>1, <2>2, CompIs
  <2> QED BY <2>1, <2>3, <2>4, SMTT(30)
<1> QED BY <1>1

(* Of an entry that becomes another one, the modes are not lost ...        *)
Outgrows(n, o) ==
    /\ o.granted <= n.granted \/ o.granted <= n.blocked
    /\ o.blocked <= n.granted \/ o.blocked <= n.blocked

(* ... and its new mode is x, which is converted into the total m.         *)
Within(n, x, m) ==
    /\ x = NULL_LOCK \/ x = n.granted \/ x = n.blocked
    /\ n.granted <= x \/ n.granted <= m
    /\ n.blocked <= x \/ n.blocked <= m

(* The total after the entry o became n and mode x was converted into it.  *)
LEMMA TotalStep ==
    ASSUME NEW R \in SUBSET Entry, NEW m, IsTotal(m, R), NEW x \in Mode,
           NEW o, NEW n \in Entry, o \in R => Outgrows(n, o), Within(n, x, m)
    PROVE  IsTotal(lock_Conv[x][m], (R \ {o}) \cup {n})
<1>q. PICK Q : Q = (R \ {o}) \cup {n}
  OBVIOUS
<1>w. /\ x = NULL_LOCK \/ x = n.granted \/ x = n.blocked
      /\ n.granted <= x \/ n.granted <= m
      /\ n.blocked <= x \/ n.blocked <= m
  BY DEF Within
<1>1. m \in Mode /\ \A e \in R : e.granted <= m /\ e.blocked <= m
  BY DEF IsTotal
<1>2. lock_Conv[x][m] = IF x >= m THEN x ELSE m
  BY <1>1, ConvIs
<1>3. PICK y : y = lock_Conv[x][m]
  BY SMTT(30)
<1>4. /\ x \in {1, 2, 3, 4} /\ m \in {1, 2, 3, 4}
      /\ n.granted \in {1, 2, 3, 4} /\ n.blocked \in {1, 2, 3, 4}
      /\ \A e \in R : e.granted \in {1, 2, 3, 4} /\ e.blocked \in {1, 2, 3, 4}
  BY <1>1, EntryIs, ModeIs
<1>5. y = IF x >= m THEN x ELSE m
  BY <1>2, <1>3
<1>6. n.granted <= y /\ n.blocked <= y
  BY <1>4, <1>5, <1>w, SMTT(30)
<1>7. \A e \in R : e.granted <= y /\ e.blocked <= y
  BY <1>1, <1>4, <1>5, SMTT(30)
<1>8. y \in Mode
  BY <1>1, <1>5
<1>9. y = NULL_LOCK \/ \E e \in Q : y = e.granted \/ y = e.blocked
  <2>1. CASE y = x
    BY <1>q, <1>w, <2>1
  <2>2. CASE y = m /\ m # NULL_LOCK
    <3>1. PICK e \in R : m = e.granted \/ m = e.blocked
      BY <2>2 DEF IsTotal
    <3>2. CASE e # o
      BY <1>q, <2>2, <3>1, <3>2
    <3>3. CASE e = o
      <4>0. /\ o.granted <= n.granted \/ o.granted <= n.blocked
            /\ o.blocked <= n.granted \/ o.blocked <= n.blocked
            /\ m = o.granted \/ m = o.blocked
        BY <3>1, <3>3 DEF Outgrows
      <4>1. m <= n.granted \/ m <= n.blocked
        BY <4>0, SMTT(30)
      <4>2. y = n.granted \/ y = n.blocked
        BY <1>4, <1>6, <2>2, <4>1, SMTT(30)
      <4> QED BY <1>q, <4>2
    <3> QED BY <3>2, <3>3
  <2>3. y = x \/ y = m
    BY <1>5
  <2> QED BY <2>1, <2>2, <2>3
<1>10. \A e \in Q : e.granted <= y /\ e.blocked <= y
  BY <1>q, <1>6, <1>7
<1> QED BY <1>q, <1>3, <1>8, <1>9, <1>10 DEF IsTotal

(* r is s with n in the place of its i-th entry.                           *)
Changed(r, s, i, n) ==
    /\ r \in Seq(Entry) /\ Len(r) = Len(s)
    /\ \A j \in 1 .. Len(s) : r[j] = IF j = i THEN n ELSE s[j]

(* EXCEPT changes one place of a list.                                     *)
LEMMA ExceptIs ==
    ASSUME NEW s \in Seq(Entry), NEW i \in 1 .. Len(s), NEW n \in Entry
    PROVE  Changed([s EXCEPT ![i] = n], s, i, n)
BY SMTT(30) DEF Changed

(* An entry is replaced by one of the same transaction.                    *)
LEMMA EntryChanges ==
    ASSUME NEW s \in Seq(Entry), Distinct(s), NEW i \in 1 .. Len(s), NEW n \in Entry,
           n.tran = s[i].tran, NEW r, Changed(r, s, i, n)
    PROVE  Distinct(r) /\ Range(r) = (Range(s) \ {s[i]}) \cup {n}
<1>2. r \in Seq(Entry) /\ Len(r) = Len(s) /\ \A j \in 1 .. Len(s) : r[j] = IF j = i THEN n ELSE s[j]
  BY DEF Changed
<1>3. \A x, y \in 1 .. Len(s) : s[x].tran = s[y].tran => x = y
  BY DEF Distinct
<1>4. \A j \in 1 .. Len(s) : r[j].tran = s[j].tran
  BY <1>2
<1>5. Distinct(r)
  BY <1>2, <1>3, <1>4 DEF Distinct
<1>6. Range(r) = {r[j] : j \in 1 .. Len(s)} /\ Range(s) = {s[j] : j \in 1 .. Len(s)}
  BY <1>2, RangeIs
<1>7. Range(r) = (Range(s) \ {s[i]}) \cup {n}
  <2>1. ASSUME NEW j \in 1 .. Len(s) PROVE r[j] \in (Range(s) \ {s[i]}) \cup {n}
    <3>1. CASE j = i
      BY <1>2, <3>1
    <3>2. CASE j # i
      <4>1. r[j] = s[j] /\ s[j] # s[i]
        BY <1>2, <1>3, <3>2
      <4> QED BY <1>6, <4>1
    <3> QED BY <3>1, <3>2
  <2>2. ASSUME NEW j \in 1 .. Len(s), s[j] # s[i] PROVE s[j] \in Range(r)
    <3>1. r[j] = s[j]
      BY <1>2, <2>2
    <3> QED BY <1>6, <3>1
  <2>3. n \in Range(r)
    BY <1>2, <1>6
  <2> QED BY <1>6, <2>1, <2>2, <2>3
<1> QED BY <1>5, <1>7

(* The holders keep their order when an entry changes only its granted     *)
(* mode.                                                                   *)
LEMMA HolderChanges ==
    ASSUME NEW s, HolderList(s), NEW i \in 1 .. Len(s), NEW n \in Entry, HolderEntry(n),
           n.tran = s[i].tran, n.blocked = s[i].blocked,
           n.granted = s[i].granted \/ n.blocked = NULL_LOCK,
           NEW r, Changed(r, s, i, n)
    PROVE  HolderList(r) /\ Range(r) = (Range(s) \ {s[i]}) \cup {n}
<1>1. s \in Seq(Entry) /\ Distinct(s) /\ Ordered(s) /\ \A f \in Range(s) : HolderEntry(f)
  BY DEF HolderList
<1>2. Distinct(r) /\ Range(r) = (Range(s) \ {s[i]}) \cup {n}
  BY <1>1, EntryChanges, SMTT(30)
<1>3. /\ r \in Seq(Entry) /\ Len(r) = Len(s)
      /\ \A j \in 1 .. Len(s) : r[j] = IF j = i THEN n ELSE s[j]
  BY DEF Changed
<1>4. \A j \in 1 .. Len(s) : r[j].blocked = s[j].blocked
  BY <1>3
<1>5. \A j \in 1 .. Len(s) : r[j].granted = s[j].granted \/ r[j].blocked = NULL_LOCK
  BY <1>3
<1>6. ASSUME NEW x \in 1 .. Len(r), NEW y \in 1 .. Len(r), x < y, r[y].blocked # NULL_LOCK
      PROVE  /\ r[x].blocked # NULL_LOCK
             /\ r[x].blocked = X_LOCK => ~lock_Comp[r[y].blocked][r[x].granted]
  <2>1. x \in 1 .. Len(s) /\ y \in 1 .. Len(s)
    BY <1>3
  <2>2. /\ s[x].blocked # NULL_LOCK
        /\ s[x].blocked = X_LOCK => ~lock_Comp[s[y].blocked][s[x].granted]
    BY <1>1, <1>4, <1>6, <2>1 DEF Ordered
  <2>3. r[x].blocked = s[x].blocked /\ r[y].blocked = s[y].blocked
    BY <1>4, <2>1
  <2>4. r[x].granted = s[x].granted
    BY <1>5, <2>1, <2>2, <2>3
  <2> QED BY <2>2, <2>3, <2>4
<1>7. \A f \in Range(r) : HolderEntry(f)
  BY <1>1, <1>2
<1> QED BY <1>2, <1>3, <1>6, <1>7 DEF HolderList, Ordered

(* The waiters stay waiters when an entry changes its count.               *)
LEMMA WaiterChanges ==
    ASSUME NEW s, WaiterList(s), NEW i \in 1 .. Len(s), NEW n \in Entry, WaiterEntry(n),
           n.tran = s[i].tran, NEW r, Changed(r, s, i, n)
    PROVE  WaiterList(r) /\ Range(r) = (Range(s) \ {s[i]}) \cup {n}
<1>1. s \in Seq(Entry) /\ Distinct(s) /\ \A f \in Range(s) : WaiterEntry(f)
  BY DEF WaiterList
<1>2. Distinct(r) /\ Range(r) = (Range(s) \ {s[i]}) \cup {n}
  BY <1>1, EntryChanges, SMTT(30)
<1>3. /\ r \in Seq(Entry) /\ Len(r) = Len(s)
      /\ \A j \in 1 .. Len(s) : r[j] = IF j = i THEN n ELSE s[j]
  BY DEF Changed
<1> QED BY <1>1, <1>2, <1>3 DEF WaiterList

(* The entry of a transaction that is granted what it asked for.           *)
Upgraded(e) == [e EXCEPT !.granted = e.blocked, !.blocked = NULL_LOCK]

(* It holds the mode it asked for, and asks for nothing.                   *)
LEMMA UpgradedIs ==
    ASSUME NEW e \in Entry, e.blocked # NULL_LOCK
    PROVE  /\ Upgraded(e) \in Entry /\ HolderEntry(Upgraded(e))
           /\ Upgraded(e).tran = e.tran
           /\ Upgraded(e).granted = e.blocked /\ Upgraded(e).blocked = NULL_LOCK
<1>1. NULL_LOCK \in Mode
  BY ModeIs, SMTT(30) DEF NULL_LOCK
<1>2. /\ Upgraded(e) \in Entry /\ Upgraded(e).tran = e.tran
      /\ Upgraded(e).granted = e.blocked /\ Upgraded(e).blocked = NULL_LOCK
  BY <1>1 DEF Entry, Upgraded
<1>3. HolderEntry(Upgraded(e))
  BY <1>2 DEF HolderEntry
<1> QED BY <1>2, <1>3

(* lock_grant_blocked_holder moves the i-th holder behind the blocked ones *)
(* that follow it.                                                         *)
Regranted(s, i) ==
    LET rest == RemoveAt(s, i)
        j == First({h \in i .. Len(rest) : rest[h].blocked = NULL_LOCK})
    IN  InsertAt(rest, IF j = 0 THEN Len(rest) + 1 ELSE j, Upgraded(s[i]))

(* The list stays in order, and what is before the upgrader does not move. *)
LEMMA RegrantedIs ==
    ASSUME NEW s, HolderList(s), NEW i \in 1 .. Len(s), s[i].blocked # NULL_LOCK
    PROVE  /\ HolderList(Regranted(s, i))
           /\ Len(Regranted(s, i)) = Len(s)
           /\ \A h \in 1 .. i - 1 : Regranted(s, i)[h] = s[h]
           /\ Range(Regranted(s, i)) = (Range(s) \ {s[i]}) \cup {Upgraded(s[i])}
<1>1. s \in Seq(Entry) /\ Len(s) \in Nat
  BY SMTT(30) DEF HolderList
<1>2. s[i] \in Entry
  BY <1>1, SMTT(30)
<1>n. PICK n : n = Upgraded(s[i])
  BY SMTT(30)
<1>3. n \in Entry /\ n.tran = s[i].tran /\ n.granted = s[i].blocked /\ n.blocked = NULL_LOCK
  BY <1>2, <1>n, UpgradedIs
<1>4. HolderEntry(n)
  BY <1>2, <1>n, UpgradedIs
<1> DEFINE rest == RemoveAt(s, i)
           J == {h \in i .. Len(rest) : rest[h].blocked = NULL_LOCK}
           p == IF First(J) = 0 THEN Len(rest) + 1 ELSE First(J)
<1>5. Regranted(s, i) = InsertAt(rest, p, n)
  BY <1>n DEF Regranted
<1>6. /\ HolderList(rest) /\ Range(rest) = Range(s) \ {s[i]}
      /\ \A e \in Range(rest) : e.tran # s[i].tran
  BY HolderLeaves
<1>7. Removed(rest, s, i)
  BY <1>1, RemoveAtIs
<1>8. /\ rest \in Seq(Entry) /\ Len(rest) = Len(s) - 1 /\ Len(rest) \in Nat
      /\ \A h \in 1 .. i - 1 : rest[h] = s[h]
  BY <1>1, <1>7, SMTT(30) DEF Removed
<1> HIDE DEF rest
<1>9. J \subseteq 1 .. Len(rest)
  BY <1>8, SMTT(30)
<1>10. /\ First(J) \in 0 .. Len(rest)
       /\ First(J) # 0 => First(J) \in J
  <2> HIDE DEF J
  <2> QED BY <1>8, <1>9, FirstIs
<1>11. p \in i .. Len(rest) + 1
  BY <1>1, <1>8, <1>10, SMTT(30)
<1>12. \A h \in p .. Len(rest) : rest[h].blocked = NULL_LOCK
  <2>1. ASSUME NEW h \in p .. Len(rest) PROVE rest[h].blocked = NULL_LOCK
    <3>1. First(J) # 0 /\ p = First(J)
      BY <1>8, <1>10, <2>1, SMTT(30)
    <3>2. rest[p].blocked = NULL_LOCK /\ p \in 1 .. Len(rest)
      BY <1>9, <1>10, <3>1
    <3> HIDE DEF p, J
    <3>3. h \in 1 .. Len(rest) /\ (h = p \/ p < h)
      BY <1>8, <2>1, <3>2, SMTT(30)
    <3> QED BY <1>6, <3>2, <3>3 DEF HolderList, Ordered
  <2> QED BY <2>1
<1> HIDE DEF p, J
<1>13. p \in 1 .. Len(rest) + 1 /\ i <= p
  BY <1>8, <1>11, SMTT(30)
<1>14. \A e \in Range(rest) : e.tran # n.tran
  BY <1>3, <1>6
<1>15. n.blocked # X_LOCK
  BY <1>3, SMTT(30) DEF NULL_LOCK, X_LOCK
<1>16. /\ HolderList(InsertAt(rest, p, n))
       /\ Range(InsertAt(rest, p, n)) = Range(rest) \cup {n}
  BY <1>3, <1>4, <1>6, <1>12, <1>13, <1>14, <1>15, OrderJoins, SMTT(30)
<1>17. Inserted(InsertAt(rest, p, n), rest, p, n)
  BY <1>3, <1>8, <1>13, InsertAtIs
<1>18. PICK q : q = InsertAt(rest, p, n)
  BY SMTT(30)
<1>19. /\ Len(q) = Len(rest) + 1
       /\ \A h \in 1 .. Len(rest) + 1 :
            q[h] = IF h < p THEN rest[h] ELSE IF h = p THEN n ELSE rest[h - 1]
  BY <1>17, <1>18 DEF Inserted
<1>20. Len(q) = Len(s)
  BY <1>1, <1>8, <1>19, SMTT(30)
<1>21. \A h \in 1 .. i - 1 : q[h] = s[h]
  <2>1. ASSUME NEW h \in 1 .. i - 1 PROVE q[h] = s[h]
    <3>1. h \in 1 .. Len(rest) + 1 /\ h < p
      BY <1>1, <1>8, <1>13, SMTT(30)
    <3> QED BY <1>8, <1>19, <3>1
  <2> QED BY <2>1
<1> QED BY <1>n, <1>5, <1>6, <1>16, <1>18, <1>20, <1>21

-----------------------------------------------------------------------------
(* The invariant.                                                          *)

Types ==
    /\ holder \in [Key -> Seq(Entry)]
    /\ waiter \in [Key -> Seq(Entry)]
    /\ total \in [Key -> Mode]
    /\ mutex \in [Key -> Tran \cup {None}]
    /\ th \in [Tran -> Thread]

(* A transaction is in one of the two lists.                               *)
Apart(h, w) == \A e \in Range(h), f \in Range(w) : e.tran # f.tran

Lists(h, w, m) ==
    /\ HolderList(h) /\ WaiterList(w) /\ Apart(h, w)
    /\ IsTotal(m, Range(h))

Entries(k) == Range(holder[k]) \cup Range(waiter[k])

Has(t, k) == \E e \in Entries(k) : e.tran = t

BlockedAt(t, k) == \E e \in Entries(k) : e.tran = t /\ e.blocked # NULL_LOCK

Loop == {"holders", "waiters", "partial"}

Asking == {"susp", "giveup", "unlock"}

(* What the program counter of a thread says about the lists.              *)
ThreadInv(t) ==
    /\ th[t].pc \in Asking => th[t].at \in Key /\ Has(t, th[t].at)
    /\ \A k \in Key : BlockedAt(t, k) => th[t].pc \in Asking /\ th[t].at = k
    /\ th[t].pc \in Loop => th[t].at \in Key /\ mutex[th[t].at] = t
    /\ th[t].pc \notin Loop => th[t].skip = 0
    /\ \A k \in Key : mutex[k] = t => th[t].pc \in Loop /\ th[t].at = k
    /\ th[t].pc = "susp" /\ th[t].state = "granted" =>
          \A k \in Key : ~BlockedAt(t, k)

(* No upgrader that sleeps could be granted.                               *)
Settled(k) ==
    \A e \in Range(holder[k]) : e.blocked # NULL_LOCK /\ Waits(e) =>
        \E f \in Range(holder[k]) :
            f.tran # e.tran /\ ~lock_Comp[e.blocked][f.granted]

(* The first waiter cannot be granted, or does not sleep any more.         *)
Stuck(k) ==
    waiter[k] # <<>> => \/ ~Waits(waiter[k][1])
                        \/ ~lock_Comp[waiter[k][1].blocked][total[k]]

PassedHolders(k, n) ==
    /\ n <= Len(holder[k])
    /\ \A i \in 1 .. n : holder[k][i].blocked # NULL_LOCK /\ ~Waits(holder[k][i])

PassedWaiters(k, n) ==
    \A i \in 1 .. n : ~Waits(waiter[k][i])

(* How far the thread that keeps res_mutex has come.                       *)
OwnerInv(t, k) ==
    /\ th[t].pc = "holders" => PassedHolders(k, th[t].skip)
    /\ th[t].pc # "holders" => Settled(k) /\ th[t].skip <= Len(waiter[k])
    /\ th[t].pc = "waiters" => PassedWaiters(k, th[t].skip)
    /\ th[t].pc = "partial" /\ th[t].skip >= 1 => Stuck(k)

LoopInv(k) ==
    /\ mutex[k] = None => Settled(k) /\ Stuck(k)
    /\ \A t \in Tran : mutex[k] = t => OwnerInv(t, k)

Inv ==
    /\ Types
    /\ \A k \in Key : Lists(holder[k], waiter[k], total[k])
    /\ \A t \in Tran : ThreadInv(t)
    /\ \A k \in Key : LoopInv(k)

-----------------------------------------------------------------------------
(* What a step leaves alone.                                               *)

(* The step does not move u.                                               *)
Same(u) ==
    /\ th'[u].pc = th[u].pc /\ th'[u].at = th[u].at /\ th'[u].skip = th[u].skip
    /\ th'[u].state = "granted" => th[u].state = "granted"

(* Nobody begins to sleep but who was running.                             *)
Calm ==
    \A u \in Tran : th'[u].lockwait => th[u].lockwait \/ th[u].pc = "run"

(* Only the counts of the entries differ.                                  *)
Alike(a, b) ==
    /\ Len(a) = Len(b)
    /\ \A i \in 1 .. Len(a) : /\ a[i].tran = b[i].tran
                              /\ a[i].granted = b[i].granted
                              /\ a[i].blocked = b[i].blocked

(* Alike lists have alike entries.                                         *)
LEMMA AlikeRange ==
    ASSUME NEW a \in Seq(Entry), NEW b \in Seq(Entry), Alike(a, b)
    PROVE  /\ \A e \in Range(a) : \E f \in Range(b) :
                 e.tran = f.tran /\ e.granted = f.granted /\ e.blocked = f.blocked
           /\ \A f \in Range(b) : \E e \in Range(a) :
                 e.tran = f.tran /\ e.granted = f.granted /\ e.blocked = f.blocked
<1>1. /\ Len(a) = Len(b)
      /\ \A i \in 1 .. Len(a) : /\ a[i].tran = b[i].tran
                                /\ a[i].granted = b[i].granted
                                /\ a[i].blocked = b[i].blocked
  BY DEF Alike
<1>2. \A i \in 1 .. Len(a) : a[i] \in Range(a) /\ b[i] \in Range(b)
  BY <1>1, RangeIs
<1>3. ASSUME NEW e \in Range(a)
      PROVE  \E f \in Range(b) :
                 e.tran = f.tran /\ e.granted = f.granted /\ e.blocked = f.blocked
  <2>1. PICK i \in 1 .. Len(a) : e = a[i]
    BY RangeIs
  <2> QED BY <1>1, <1>2, <2>1
<1>4. ASSUME NEW f \in Range(b)
      PROVE  \E e \in Range(a) :
                 e.tran = f.tran /\ e.granted = f.granted /\ e.blocked = f.blocked
  <2>1. PICK i \in 1 .. Len(b) : f = b[i]
    BY RangeIs
  <2>2. i \in 1 .. Len(a)
    BY <1>1
  <2> QED BY <1>1, <1>2, <2>1, <2>2
<1> QED BY <1>3, <1>4

(* A list is like itself.                                                  *)
LEMMA AlikeSelf ==
    ASSUME NEW a PROVE Alike(a, a)
BY DEF Alike

(* An entry that asks for a mode belongs to a thread that does not run.    *)
LEMMA CalmWaits ==
    ASSUME \A t \in Tran : ThreadInv(t), Calm, NEW k \in Key,
           NEW e \in Entries(k), e \in Entry, e.blocked # NULL_LOCK
    PROVE  th'[e.tran].lockwait => th[e.tran].lockwait
<1>1. e.tran \in Tran
  BY EntryIs
<1>b. BlockedAt(e.tran, k)
  BY DEF BlockedAt
<1>2. th[e.tran].pc \in Asking
  BY <1>1, <1>b DEF ThreadInv
<1>3. th[e.tran].pc # "run"
  BY <1>2, SMTT(30) DEF Asking
<1> QED BY <1>1, <1>3 DEF Calm

(* A thread the step does not move.                                        *)
LEMMA ThreadKept ==
    ASSUME NEW u \in Tran, ThreadInv(u), Same(u),
           \A k \in Key : /\ Has(u, k) => Has(u, k)'
                          /\ BlockedAt(u, k)' => BlockedAt(u, k)
                          /\ mutex'[k] = u <=> mutex[k] = u
    PROVE  ThreadInv(u)'
<1>1. th'[u].pc \in Asking => th'[u].at \in Key /\ Has(u, th[u].at)'
  BY DEF ThreadInv, Same
<1>2. \A k \in Key : BlockedAt(u, k)' => th'[u].pc \in Asking /\ th'[u].at = k
  BY DEF ThreadInv, Same
<1>3. th'[u].pc \in Loop => th'[u].at \in Key /\ mutex'[th'[u].at] = u
  BY DEF ThreadInv, Same
<1>4. th'[u].pc \notin Loop => th'[u].skip = 0
  BY DEF ThreadInv, Same
<1>5. \A k \in Key : mutex'[k] = u => th'[u].pc \in Loop /\ th'[u].at = k
  BY DEF ThreadInv, Same
<1>6. th'[u].pc = "susp" /\ th'[u].state = "granted" => \A k \in Key : ~BlockedAt(u, k)'
  BY DEF ThreadInv, Same
<1> QED BY <1>1, <1>2, <1>3, <1>4, <1>5, <1>6 DEF ThreadInv

(* A resource whose lists the step keeps but for counts.                   *)
LEMMA SettledKept ==
    ASSUME \A t \in Tran : ThreadInv(t), Calm, NEW k \in Key,
           holder[k] \in Seq(Entry), holder'[k] \in Seq(Entry),
           Alike(holder[k], holder'[k]), Settled(k)
    PROVE  Settled(k)'
<1>1. SUFFICES ASSUME NEW f \in Range(holder'[k]), f.blocked # NULL_LOCK, th'[f.tran].lockwait
               PROVE  \E g \in Range(holder'[k]) :
                          g.tran # f.tran /\ ~lock_Comp[f.blocked][g.granted]
  BY DEF Settled, Waits
<1>2. PICK e \in Range(holder[k]) :
          e.tran = f.tran /\ e.granted = f.granted /\ e.blocked = f.blocked
  BY AlikeRange
<1>3. th[e.tran].lockwait
  <2>1. e \in Entry /\ e \in Entries(k)
    BY RangeIs DEF Entries
  <2> QED BY <1>1, <1>2, <2>1, CalmWaits
<1>4. PICK d \in Range(holder[k]) : d.tran # e.tran /\ ~lock_Comp[e.blocked][d.granted]
  BY <1>1, <1>2, <1>3 DEF Settled, Waits
<1>5. PICK g \in Range(holder'[k]) :
          d.tran = g.tran /\ d.granted = g.granted /\ d.blocked = g.blocked
  BY AlikeRange
<1> QED BY <1>2, <1>4, <1>5

(* The first waiter stays stuck if no wait begins and only counts change.  *)
LEMMA StuckKept ==
    ASSUME \A t \in Tran : ThreadInv(t), Calm, NEW k \in Key,
           WaiterList(waiter[k]), waiter'[k] \in Seq(Entry),
           Alike(waiter[k], waiter'[k]), total'[k] = total[k], Stuck(k)
    PROVE  Stuck(k)'
<1>1. SUFFICES ASSUME waiter'[k] # <<>>
               PROVE  \/ ~th'[waiter'[k][1].tran].lockwait
                      \/ ~lock_Comp[waiter'[k][1].blocked][total[k]]
  BY DEF Stuck, Waits
<1>2. waiter[k] \in Seq(Entry) /\ \A e \in Range(waiter[k]) : WaiterEntry(e)
  BY DEF WaiterList
<1>3. 1 \in 1 .. Len(waiter'[k]) /\ Len(waiter[k]) = Len(waiter'[k])
  BY <1>1, SMTT(30) DEF Alike
<1>4. /\ waiter[k] # <<>> /\ 1 \in 1 .. Len(waiter[k])
      /\ waiter[k][1].tran = waiter'[k][1].tran /\ waiter[k][1].blocked = waiter'[k][1].blocked
  <2>1. waiter[k] # <<>>
    BY <1>2, <1>3, SMTT(30)
  <2> QED BY <1>3, <2>1 DEF Alike
<1>5. waiter[k][1] \in Range(waiter[k]) /\ waiter[k][1] \in Entry
  BY <1>2, <1>4, RangeIs
<1>6. th'[waiter[k][1].tran].lockwait => th[waiter[k][1].tran].lockwait
  <2>1. waiter[k][1] \in Entries(k) /\ waiter[k][1].blocked # NULL_LOCK
    BY <1>2, <1>5 DEF Entries, WaiterEntry
  <2> QED BY <1>5, <2>1, CalmWaits
<1> QED BY <1>4, <1>6 DEF Stuck, Waits

(* The upgraders that a loop has passed by stay passed.                    *)
LEMMA PassedHoldersKept ==
    ASSUME \A t \in Tran : ThreadInv(t), Calm, NEW k \in Key,
           holder[k] \in Seq(Entry), holder'[k] \in Seq(Entry),
           Alike(holder[k], holder'[k]), NEW n \in Nat, PassedHolders(k, n)
    PROVE  n <= Len(holder'[k]) /\ \A i \in 1 .. n : /\ holder'[k][i].blocked # NULL_LOCK
                                                     /\ ~th'[holder'[k][i].tran].lockwait
<1>1. /\ n <= Len(holder[k]) /\ Len(holder[k]) = Len(holder'[k]) /\ Len(holder[k]) \in Nat
      /\ \A i \in 1 .. n : holder[k][i].blocked # NULL_LOCK /\ ~th[holder[k][i].tran].lockwait
  BY SMTT(30) DEF PassedHolders, Alike, Waits
<1>2. n <= Len(holder'[k])
  BY <1>1
<1>3. ASSUME NEW i \in 1 .. n
      PROVE  holder'[k][i].blocked # NULL_LOCK /\ ~th'[holder'[k][i].tran].lockwait
  <2>1. i \in 1 .. Len(holder[k])
    BY <1>1, SMTT(30)
  <2>2. /\ holder[k][i].tran = holder'[k][i].tran
        /\ holder[k][i].blocked = holder'[k][i].blocked
    BY <2>1 DEF Alike
  <2>3. holder[k][i] \in Entries(k) /\ holder[k][i] \in Entry
    BY <2>1, RangeIs DEF Entries
  <2>4. holder[k][i].blocked # NULL_LOCK /\ ~th[holder[k][i].tran].lockwait
    BY <1>1
  <2>5. ~th'[holder[k][i].tran].lockwait
    BY <2>3, <2>4, CalmWaits
  <2> QED BY <2>2, <2>4, <2>5
<1> QED BY <1>2, <1>3

(* The waiters that a loop has passed by stay passed.                      *)
LEMMA PassedWaitersKept ==
    ASSUME \A t \in Tran : ThreadInv(t), Calm, NEW k \in Key,
           WaiterList(waiter[k]), waiter'[k] \in Seq(Entry),
           Alike(waiter[k], waiter'[k]), NEW n \in Nat, n <= Len(waiter[k]), PassedWaiters(k, n)
    PROVE  \A i \in 1 .. n : ~th'[waiter'[k][i].tran].lockwait
<1>1. /\ waiter[k] \in Seq(Entry) /\ \A e \in Range(waiter[k]) : WaiterEntry(e)
      /\ Len(waiter[k]) \in Nat
  BY SMTT(30) DEF WaiterList
<1>2. ASSUME NEW i \in 1 .. n PROVE ~th'[waiter'[k][i].tran].lockwait
  <2>1. i \in 1 .. Len(waiter[k])
    BY <1>1, SMTT(30)
  <2>2. waiter[k][i].tran = waiter'[k][i].tran
    BY <2>1 DEF Alike
  <2>3. waiter[k][i] \in Range(waiter[k]) /\ waiter[k][i] \in Entry
    BY <1>1, <2>1, RangeIs
  <2>4. ~th[waiter[k][i].tran].lockwait
    BY DEF PassedWaiters, Waits
  <2>5. waiter[k][i] \in Entries(k) /\ waiter[k][i].blocked # NULL_LOCK
    BY <1>1, <2>3 DEF Entries, WaiterEntry
  <2>6. ~th'[waiter[k][i].tran].lockwait
    BY <2>3, <2>4, <2>5, CalmWaits
  <2> QED BY <2>2, <2>6
<1> QED BY <1>2

(* A granting loop is not disturbed while no wait begins and only counts   *)
(* change.                                                                 *)
LEMMA LoopKept ==
    ASSUME \A t \in Tran : ThreadInv(t), Calm, NEW k \in Key, th \in [Tran -> Thread],
           HolderList(holder[k]), WaiterList(waiter[k]),
           holder'[k] \in Seq(Entry), waiter'[k] \in Seq(Entry),
           Alike(holder[k], holder'[k]), Alike(waiter[k], waiter'[k]),
           total'[k] = total[k], mutex'[k] = mutex[k],
           \A t \in Tran : mutex[k] = t => Same(t),
           LoopInv(k)
    PROVE  LoopInv(k)'
<1>0. holder[k] \in Seq(Entry) /\ waiter[k] \in Seq(Entry)
  BY DEF HolderList, WaiterList
<1>1. Settled(k) => Settled(k)'
  BY <1>0, SettledKept
<1>2. Stuck(k) => Stuck(k)'
  BY StuckKept
<1>3. ASSUME NEW t \in Tran, mutex'[k] = t PROVE OwnerInv(t, k)'
  <2>1. OwnerInv(t, k) /\ Same(t)
    BY <1>3 DEF LoopInv
  <2>2. th[t].skip \in Nat
    BY SMTT(30) DEF Thread
  <2>3. PICK n \in Nat : n = th[t].skip /\ n = th'[t].skip
    BY <2>1, <2>2 DEF Same
  <2>4. th'[t].pc = th[t].pc
    BY <2>1 DEF Same
  <2>5. PassedHolders(k, n) => PassedHolders(k, n)'
    BY <1>0, PassedHoldersKept DEF PassedHolders, Waits
  <2>6. n <= Len(waiter[k]) => n <= Len(waiter'[k])
    BY DEF Alike
  <2>7. n <= Len(waiter[k]) /\ PassedWaiters(k, n) => PassedWaiters(k, n)'
    BY PassedWaitersKept DEF PassedWaiters, Waits
  <2>8. /\ th[t].pc = "holders" => PassedHolders(k, n)
        /\ th[t].pc # "holders" => Settled(k) /\ n <= Len(waiter[k])
        /\ th[t].pc = "waiters" => PassedWaiters(k, n)
        /\ th[t].pc = "partial" /\ n >= 1 => Stuck(k)
    BY <2>1, <2>3 DEF OwnerInv
  <2>9. th[t].pc = "waiters" => th[t].pc # "holders"
    BY SMTT(30)
  <2>10. /\ th'[t].pc = "holders" => PassedHolders(k, n)'
         /\ th'[t].pc # "holders" => Settled(k)' /\ n <= Len(waiter'[k])
         /\ th'[t].pc = "waiters" => PassedWaiters(k, n)'
         /\ th'[t].pc = "partial" /\ n >= 1 => Stuck(k)'
    BY <1>1, <1>2, <2>4, <2>5, <2>6, <2>7, <2>8, <2>9
  <2> QED BY <2>3, <2>10 DEF OwnerInv, PassedHolders, PassedWaiters
<1>4. mutex'[k] = None => Settled(k)' /\ Stuck(k)'
  BY <1>1, <1>2 DEF LoopInv
<1> QED BY <1>3, <1>4 DEF LoopInv

(* The step touches the resource of k only.                                *)
Rest(k) ==
    \A j \in Key \ {k} : /\ holder'[j] = holder[j] /\ waiter'[j] = waiter[j]
                         /\ total'[j] = total[j] /\ mutex'[j] = mutex[j]

(* To u, nothing happens at k but that its request may be granted.         *)
Bystander(u, k) ==
    /\ Same(u)
    /\ Has(u, k) => Has(u, k)'
    /\ BlockedAt(u, k)' => BlockedAt(u, k)
    /\ mutex'[k] = u <=> mutex[k] = u

(* Nothing happens at another resource.                                    *)
LEMMA RestKept ==
    ASSUME NEW k \in Key, Rest(k), NEW j \in Key, j # k, NEW u
    PROVE  /\ Has(u, j)' <=> Has(u, j)
           /\ BlockedAt(u, j)' <=> BlockedAt(u, j)
           /\ mutex'[j] = mutex[j]
<1>1. holder'[j] = holder[j] /\ waiter'[j] = waiter[j] /\ mutex'[j] = mutex[j]
  BY DEF Rest
<1>2. Entries(j)' = Entries(j)
  BY <1>1 DEF Entries
<1> QED BY <1>1, <1>2 DEF Has, BlockedAt

(* A step at the resource of k keeps the invariant ...                     *)
LEMMA KeyStep ==
    ASSUME Inv, Types', NEW k \in Key, Rest(k), Calm,
           Lists(holder'[k], waiter'[k], total'[k]),
           \A u \in Tran : ThreadInv(u)' \/ Bystander(u, k),
           \A u \in Tran : Same(u) \/ \A j \in Key \ {k} : mutex[j] # u,
           LoopInv(k)'
    PROVE  Inv'
<1>1. ASSUME NEW j \in Key
      PROVE  Lists(holder[j], waiter[j], total[j])'
  <2>1. CASE j = k
    BY <2>1
  <2>2. CASE j # k
    BY <2>2 DEF Inv, Rest
  <2> QED BY <2>1, <2>2
<1>2. ASSUME NEW u \in Tran PROVE ThreadInv(u)'
  <2>1. CASE Bystander(u, k)
    <3>1. ASSUME NEW j \in Key
          PROVE  /\ Has(u, j) => Has(u, j)'
                 /\ BlockedAt(u, j)' => BlockedAt(u, j)
                 /\ mutex'[j] = u <=> mutex[j] = u
      <4>1. CASE j = k
        BY <2>1, <4>1 DEF Bystander
      <4>2. CASE j # k
        <5>1. /\ Has(u, j)' <=> Has(u, j)
              /\ BlockedAt(u, j)' <=> BlockedAt(u, j)
              /\ mutex'[j] = mutex[j]
          BY <4>2, RestKept
        <5> QED BY <5>1
      <4> QED BY <4>1, <4>2
    <3>2. ThreadInv(u) /\ Same(u)
      BY <2>1 DEF Inv, Bystander
    <3> QED BY <3>1, <3>2, ThreadKept
  <2> QED BY <2>1
<1>3. ASSUME NEW j \in Key PROVE LoopInv(j)'
  <2>1. CASE j # k
    <3>1. /\ holder'[j] = holder[j] /\ waiter'[j] = waiter[j]
          /\ total'[j] = total[j] /\ mutex'[j] = mutex[j]
      BY <2>1 DEF Rest
    <3>2. HolderList(holder[j]) /\ WaiterList(waiter[j])
      BY DEF Inv, Lists
    <3>3. holder'[j] \in Seq(Entry) /\ waiter'[j] \in Seq(Entry)
      BY <3>1, <3>2 DEF HolderList, WaiterList
    <3>4. Alike(holder[j], holder'[j]) /\ Alike(waiter[j], waiter'[j])
      BY <3>1, AlikeSelf
    <3>5. \A t \in Tran : mutex[j] = t => Same(t)
      BY <2>1
    <3>6. /\ LoopInv(j) /\ th \in [Tran -> Thread]
          /\ \A t \in Tran : ThreadInv(t)
      BY DEF Inv, Types
    <3> QED BY <3>1, <3>2, <3>3, <3>4, <3>5, <3>6, LoopKept
  <2> QED BY <2>1
<1> QED BY <1>1, <1>2, <1>3 DEF Inv

(* ... and so does one that only moves threads that keep no mutex.         *)
LEMMA ThreadStep ==
    ASSUME Inv, UNCHANGED <<holder, waiter, total, mutex>>, th' \in [Tran -> Thread], Calm,
           \A u \in Tran : \/ Same(u)
                           \/ ThreadInv(u)' /\ \A k \in Key : mutex[k] # u
    PROVE  Inv'
<1>0. holder' = holder /\ waiter' = waiter /\ total' = total /\ mutex' = mutex
  BY SMTT(30)
<1>1. Types'
  BY <1>0 DEF Inv, Types
<1>2. \A j \in Key : Lists(holder[j], waiter[j], total[j])'
  BY <1>0 DEF Inv
<1>3. ASSUME NEW u \in Tran PROVE ThreadInv(u)'
  <2>1. CASE Same(u)
    <3>1. \A k \in Key : /\ Has(u, k) => Has(u, k)'
                         /\ BlockedAt(u, k)' => BlockedAt(u, k)
                         /\ mutex'[k] = u <=> mutex[k] = u
      BY <1>0 DEF Has, BlockedAt, Entries
    <3>2. ThreadInv(u)
      BY DEF Inv
    <3> QED BY <2>1, <3>1, <3>2, ThreadKept
  <2> QED BY <2>1
<1>4. ASSUME NEW j \in Key PROVE LoopInv(j)'
  <2>1. /\ holder'[j] = holder[j] /\ waiter'[j] = waiter[j]
        /\ total'[j] = total[j] /\ mutex'[j] = mutex[j]
    BY <1>0
  <2>2. HolderList(holder[j]) /\ WaiterList(waiter[j])
    BY DEF Inv, Lists
  <2>3. holder'[j] \in Seq(Entry) /\ waiter'[j] \in Seq(Entry)
    BY <2>1, <2>2 DEF HolderList, WaiterList
  <2>4. Alike(holder[j], holder'[j]) /\ Alike(waiter[j], waiter'[j])
    BY <2>1, AlikeSelf
  <2>5. \A t \in Tran : mutex[j] = t => Same(t)
    OBVIOUS
  <2>6. /\ LoopInv(j) /\ th \in [Tran -> Thread]
        /\ \A t \in Tran : ThreadInv(t)
    BY DEF Inv, Types
  <2> QED BY <2>1, <2>2, <2>3, <2>4, <2>5, <2>6, LoopKept
<1> QED BY <1>1, <1>2, <1>3, <1>4 DEF Inv

-----------------------------------------------------------------------------
(* What the invariant says at one resource.                                *)

(* The lists, the total mode and the loop of one resource.                 *)
LEMMA AtKey ==
    ASSUME Inv, NEW k \in Key
    PROVE  /\ holder[k] \in Seq(Entry) /\ waiter[k] \in Seq(Entry)
           /\ HolderList(holder[k]) /\ WaiterList(waiter[k])
           /\ Apart(holder[k], waiter[k])
           /\ IsTotal(total[k], Range(holder[k]))
           /\ total[k] \in Mode /\ LoopInv(k)
BY DEF Inv, Lists, HolderList, WaiterList, IsTotal

(* A thread that works outside the request it may have made.               *)
LEMMA Running ==
    ASSUME Inv, NEW t \in Tran, th[t].pc \notin Asking, NEW k \in Key
    PROVE  /\ \A e \in Range(waiter[k]) : e.tran # t
           /\ \A e \in Range(holder[k]) : e.tran = t => e.blocked = NULL_LOCK
           /\ ~BlockedAt(t, k)
<1>1. ~BlockedAt(t, k)
  BY DEF Inv, ThreadInv
<1>2. \A e \in Range(waiter[k]) : WaiterEntry(e)
  BY AtKey DEF WaiterList
<1> QED BY <1>1, <1>2 DEF BlockedAt, Entries, WaiterEntry

(* A thread outside the granting loops keeps no mutex.                     *)
LEMMA NoMutex ==
    ASSUME Inv, NEW t \in Tran, th[t].pc \notin Loop
    PROVE  \A k \in Key : mutex[k] # t
BY DEF Inv, ThreadInv

(* A transaction has one entry at a resource.                              *)
LEMMA OneEntry ==
    ASSUME Inv, NEW k \in Key, NEW e \in Entries(k), NEW f \in Entries(k), e.tran = f.tran
    PROVE  e = f
<1>1. /\ holder[k] \in Seq(Entry) /\ waiter[k] \in Seq(Entry)
      /\ Distinct(holder[k]) /\ Distinct(waiter[k]) /\ Apart(holder[k], waiter[k])
  BY AtKey DEF HolderList, WaiterList
<1>2. ASSUME NEW s \in Seq(Entry), Distinct(s), e \in Range(s), f \in Range(s) PROVE e = f
  <2>1. PICK i \in 1 .. Len(s) : e = s[i]
    BY <1>2, RangeIs
  <2>2. PICK j \in 1 .. Len(s) : f = s[j]
    BY <1>2, RangeIs
  <2>3. s[i].tran = s[j].tran
    BY <2>1, <2>2
  <2>4. i = j
    BY <1>2, <2>3 DEF Distinct
  <2> QED BY <2>1, <2>2, <2>4
<1>3. CASE e \in Range(holder[k]) /\ f \in Range(holder[k])
  BY <1>1, <1>2, <1>3
<1>4. CASE e \in Range(waiter[k]) /\ f \in Range(waiter[k])
  BY <1>1, <1>2, <1>4
<1>5. CASE e \in Range(holder[k]) /\ f \in Range(waiter[k])
  BY <1>1, <1>5 DEF Apart
<1>6. CASE f \in Range(holder[k]) /\ e \in Range(waiter[k])
  <2>1. f.tran # e.tran
    BY <1>1, <1>6 DEF Apart
  <2> QED BY <2>1
<1> QED BY <1>3, <1>4, <1>5, <1>6 DEF Entries

(* A weaker mode forbids less.                                             *)
LEMMA CompMono ==
    ASSUME NEW a \in Mode, NEW b \in Mode, NEW c \in Mode, b <= c, ~lock_Comp[a][b]
    PROVE  ~lock_Comp[a][c]
<1>1. a \in {1, 2, 3, 4} /\ b \in {1, 2, 3, 4} /\ c \in {1, 2, 3, 4}
  BY ModeIs
<1>2. (lock_Comp[a][b] <=> a + b <= 5) /\ (lock_Comp[a][c] <=> a + c <= 5)
  BY CompIs
<1> QED BY <1>1, <1>2, SMTT(30)

(* A conversion is at least as strong as both modes.                       *)
LEMMA ConvGrows ==
    ASSUME NEW a \in Mode, NEW b \in Mode
    PROVE  lock_Conv[a][b] \in Mode /\ b <= lock_Conv[a][b] /\ a <= lock_Conv[a][b]
<1>1. lock_Conv[a][b] = IF a >= b THEN a ELSE b
  BY ConvIs
<1>2. a \in {1, 2, 3, 4} /\ b \in {1, 2, 3, 4}
  BY ModeIs
<1>3. PICK y : y = lock_Conv[a][b]
  BY SMTT(30)
<1>4. y = IF a >= b THEN a ELSE b
  BY <1>1, <1>3
<1>5. y \in Mode /\ b <= y /\ a <= y
  BY <1>2, <1>4, SMTT(30)
<1> QED BY <1>3, <1>5

-----------------------------------------------------------------------------
(* How a step may change a resource whose mutex is free, or whose owner    *)
(* grants a request.                                                       *)

(* The total only grows.                                                   *)
LEMMA StuckGrows ==
    ASSUME Inv, Calm, NEW k \in Key, Stuck(k),
           total'[k] \in Mode, total[k] <= total'[k],
           waiter'[k] # <<>> => waiter[k] # <<>> /\ waiter'[k][1] = waiter[k][1]
    PROVE  Stuck(k)'
<1>1. SUFFICES ASSUME waiter'[k] # <<>>, th'[waiter'[k][1].tran].lockwait
               PROVE  ~lock_Comp[waiter'[k][1].blocked][total'[k]]
  BY DEF Stuck, Waits
<1>2. waiter[k] # <<>> /\ waiter'[k][1] = waiter[k][1]
  BY <1>1
<1>3. waiter[k] \in Seq(Entry) /\ total[k] \in Mode /\ \A e \in Range(waiter[k]) : WaiterEntry(e)
  BY AtKey DEF WaiterList
<1>4. 1 \in 1 .. Len(waiter[k])
  BY <1>2, <1>3, SMTT(30)
<1>5. PICK e : e = waiter[k][1]
  BY SMTT(30)
<1>6. e \in Range(waiter[k]) /\ e \in Entry
  BY <1>3, <1>4, <1>5, RangeIs
<1>7. e \in Entries(k) /\ e.blocked # NULL_LOCK /\ e.blocked \in Mode
  BY <1>3, <1>6, EntryIs DEF Entries, WaiterEntry
<1>8. th[e.tran].lockwait
  <2>1. \A t \in Tran : ThreadInv(t)
    BY DEF Inv
  <2> QED BY <1>1, <1>2, <1>5, <1>6, <1>7, <2>1, CalmWaits
<1>9. ~lock_Comp[e.blocked][total[k]]
  BY <1>2, <1>5, <1>8 DEF Stuck, Waits
<1>10. ~lock_Comp[e.blocked][total'[k]]
  BY <1>3, <1>7, <1>9, CompMono, SMTT(30)
<1> QED BY <1>2, <1>5, <1>10

(* The entry o becomes n, which is not weaker; o need not be there.        *)
LEMMA SettledGrows ==
    ASSUME Inv, Calm, NEW k \in Key, Settled(k), NEW o, NEW n \in Entry,
           holder'[k] \in Seq(Entry),
           Range(holder'[k]) = (Range(holder[k]) \ {o}) \cup {n},
           o \in Range(holder[k]) => o.tran = n.tran /\ o.granted <= n.granted,
           n.blocked # NULL_LOCK /\ th'[n.tran].lockwait =>
               \E f \in Range(holder'[k]) :
                   f.tran # n.tran /\ ~lock_Comp[n.blocked][f.granted]
    PROVE  Settled(k)'
<1>1. SUFFICES ASSUME NEW e \in Range(holder'[k]), e.blocked # NULL_LOCK, th'[e.tran].lockwait
               PROVE  \E f \in Range(holder'[k]) :
                          f.tran # e.tran /\ ~lock_Comp[e.blocked][f.granted]
  BY DEF Settled, Waits
<1>2. CASE e = n
  BY <1>1, <1>2
<1>3. CASE e # n
  <2>1. e \in Range(holder[k])
    BY <1>3, SMTT(30)
  <2>s. holder[k] \in Seq(Entry)
    BY AtKey
  <2>2. e \in Entry /\ e \in Entries(k)
    <3>1. e \in Entry
      BY <2>1, <2>s, RangeIs
    <3> QED BY <2>1, <3>1 DEF Entries
  <2>3. th[e.tran].lockwait
    <3>1. \A t \in Tran : ThreadInv(t)
      BY DEF Inv
    <3> QED BY <1>1, <2>2, <3>1, CalmWaits
  <2>4. PICK f \in Range(holder[k]) : f.tran # e.tran /\ ~lock_Comp[e.blocked][f.granted]
    BY <1>1, <2>1, <2>3 DEF Settled, Waits
  <2>5. CASE f # o
    BY <2>4, <2>5
  <2>6. CASE f = o
    <3>1. f \in Entry
      BY <2>s, RangeIs
    <3>2. e.blocked \in Mode /\ f.granted \in Mode /\ n.granted \in Mode
      BY <2>2, <3>1, EntryIs
    <3>3. f.granted <= n.granted /\ f.tran = n.tran
      BY <2>6
    <3>4. ~lock_Comp[e.blocked][n.granted]
      BY <2>4, <3>2, <3>3, CompMono, SMTT(30)
    <3> QED BY <2>4, <3>3, <3>4
  <2> QED BY <2>5, <2>6
<1> QED BY <1>2, <1>3

(* A function of the resources changes at k.                               *)
SetAt(g, f, k, x) ==
    g[k] = x /\ \A j \in Key \ {k} : g[j] = f[j]

(* EXCEPT changes what one resource has.                                   *)
LEMMA SetAtIs ==
    ASSUME NEW S, NEW f \in [Key -> S], NEW k \in Key, NEW x \in S
    PROVE  /\ [f EXCEPT ![k] = x] \in [Key -> S]
           /\ SetAt([f EXCEPT ![k] = x], f, k, x)
BY SMTT(30) DEF SetAt

(* IndexOf finds the entry of a transaction, if there is one.              *)
LEMMA Absent ==
    ASSUME NEW s \in Seq(Entry), NEW t, IndexOf(s, t) = 0
    PROVE  \A f \in Range(s) : f.tran # t
<1>1. \A i \in 1 .. Len(s) : s[i].tran # t
  BY IndexIs
<1>2. ASSUME NEW f \in Range(s) PROVE f.tran # t
  <2>1. PICK i \in 1 .. Len(s) : f = s[i]
    BY RangeIs
  <2> QED BY <1>1, <2>1
<1> QED BY <1>2

(* The entry that IndexOf finds is one of the transaction.                 *)
LEMMA Present ==
    ASSUME NEW s \in Seq(Entry), NEW t, NEW i, i = IndexOf(s, t), i # 0
    PROVE  i \in 1 .. Len(s) /\ s[i] \in Range(s) /\ s[i] \in Entry /\ s[i].tran = t
<1>1. i \in 1 .. Len(s) /\ s[i].tran = t
  BY IndexIs
<1> QED BY <1>1, RangeIs

(* No thread entry changes.                                                *)
LEMMA ThreadsSame ==
    ASSUME th' = th
    PROVE  Calm /\ \A u \in Tran : Same(u)
BY DEF Calm, Same

(* Nobody requests the null lock.                                          *)
LEMMA RequestIs ==
    ASSUME NEW m \in Request
    PROVE  m \in Mode /\ m # NULL_LOCK
BY RequestAssumption, SMTT(30)

(* The fields of a new entry.                                              *)
LEMMA NewEntryIs ==
    ASSUME NEW t \in Tran, NEW g \in Mode, NEW b \in Mode
    PROVE  /\ NewEntry(t, g, b) \in Entry
           /\ NewEntry(t, g, b).tran = t /\ NewEntry(t, g, b).granted = g
           /\ NewEntry(t, g, b).blocked = b
<1>1. 1 \in 0 .. MaxCount
  BY CountAssumption, SMTT(30)
<1> QED BY <1>1, SMTT(30) DEF NewEntry, Entry

(* The null lock is the weakest mode.                                      *)
LEMMA NullMode == NULL_LOCK \in Mode /\ \A m \in Mode : NULL_LOCK <= m
<1>1. NULL_LOCK \in Mode
  BY ModeIs, SMTT(30) DEF NULL_LOCK
<1>2. ASSUME NEW m \in Mode PROVE NULL_LOCK <= m
  <2>1. m \in {1, 2, 3, 4}
    BY ModeIs
  <2> QED BY <2>1, SMTT(30) DEF NULL_LOCK
<1> QED BY <1>1, <1>2

(* Modes are ordered as numbers.                                           *)
LEMMA ModeLeq == \A m \in Mode : m <= m
BY ModeIs, SMTT(30)

(* The total when an entry joins the holders.                              *)
LEMMA TotalJoins ==
    ASSUME NEW R \in SUBSET Entry, NEW m, IsTotal(m, R), NEW n \in Entry,
           n.blocked = NULL_LOCK
    PROVE  IsTotal(lock_Conv[n.granted][m], R \cup {n})
<1>1. R \cup {n} = (R \ {n}) \cup {n}
  OBVIOUS
<1>2. n.granted \in Mode /\ n.blocked \in Mode /\ m \in Mode
  BY EntryIs DEF IsTotal
<1>3. n.granted <= n.granted /\ n.blocked <= n.blocked /\ n.blocked <= m
  BY <1>2, NullMode, ModeLeq
<1>4. Outgrows(n, n) /\ Within(n, n.granted, m)
  BY <1>3 DEF Outgrows, Within
<1>5. IsTotal(lock_Conv[n.granted][m], (R \ {n}) \cup {n})
  BY <1>2, <1>4, TotalStep
<1> QED BY <1>1, <1>5

(* The entries of the others when one joins.                               *)
LEMMA FreeJoins ==
    ASSUME NEW k \in Key, NEW n, n.blocked = NULL_LOCK,
           Entries(k)' = Entries(k) \cup {n}
    PROVE  \A u : /\ Has(u, k) => Has(u, k)'
                  /\ BlockedAt(u, k)' => BlockedAt(u, k)
BY DEF Has, BlockedAt

(* A request granted at once keeps the invariant.                          *)
LEMMA LockNewKeeps ==
    ASSUME Inv, NEW t \in Tran, NEW k \in Key, NEW m \in Request, LockNew(t, k, m)
    PROVE  Inv'
<1>1. /\ th[t].pc = "run" /\ mutex[k] = None /\ IndexOf(holder[k], t) = 0
      /\ holder' = [holder EXCEPT ![k] = Position(holder[k], NewEntry(t, m, NULL_LOCK))]
      /\ total' = [total EXCEPT ![k] = lock_Conv[m][total[k]]]
      /\ waiter' = waiter /\ mutex' = mutex /\ th' = th
  BY SMTT(30) DEF LockNew, Holds
<1>2. /\ holder[k] \in Seq(Entry) /\ HolderList(holder[k]) /\ WaiterList(waiter[k])
      /\ Apart(holder[k], waiter[k]) /\ IsTotal(total[k], Range(holder[k]))
      /\ total[k] \in Mode /\ LoopInv(k)
  BY AtKey
<1>3. m \in Mode /\ m # NULL_LOCK /\ NULL_LOCK \in Mode
  BY RequestIs, NullMode
<1>4. PICK n : n = NewEntry(t, m, NULL_LOCK)
  BY SMTT(30)
<1>5. n \in Entry /\ n.tran = t /\ n.granted = m /\ n.blocked = NULL_LOCK
  BY <1>3, <1>4, NewEntryIs, SMTT(30)
<1>6. \A f \in Range(holder[k]) : f.tran # n.tran
  BY <1>1, <1>2, <1>5, Absent
<1>7. HolderEntry(n)
  BY <1>3, <1>5 DEF HolderEntry
<1>8. PICK h : h = Position(holder[k], n)
  BY SMTT(30)
<1>9. HolderList(h) /\ Range(h) = Range(holder[k]) \cup {n}
  BY <1>2, <1>5, <1>6, <1>7, <1>8, PositionIs, SMTT(30)
<1>10. h \in Seq(Entry) /\ lock_Conv[m][total[k]] \in Mode /\ total[k] <= lock_Conv[m][total[k]]
  BY <1>2, <1>3, <1>9, ConvGrows DEF HolderList
<1>11. /\ holder \in [Key -> Seq(Entry)] /\ waiter \in [Key -> Seq(Entry)]
       /\ total \in [Key -> Mode] /\ mutex \in [Key -> Tran \cup {None}]
       /\ th \in [Tran -> Thread]
  BY DEF Inv, Types
<1>12. holder' \in [Key -> Seq(Entry)] /\ SetAt(holder', holder, k, h)
  BY <1>1, <1>4, <1>8, <1>10, <1>11, SetAtIs
<1>13. total' \in [Key -> Mode] /\ SetAt(total', total, k, lock_Conv[m][total[k]])
  BY <1>1, <1>10, <1>11, SetAtIs
<1>14. Types' /\ Rest(k)
  BY <1>1, <1>11, <1>12, <1>13 DEF Types, Rest, SetAt
<1>15. holder'[k] = h /\ waiter'[k] = waiter[k] /\ total'[k] = lock_Conv[m][total[k]]
  BY <1>1, <1>12, <1>13 DEF SetAt
<1>16. Lists(holder'[k], waiter'[k], total'[k])
  <2>1. Apart(h, waiter[k])
    <3>1. \A e \in Range(waiter[k]) : e.tran # t
      <4>1. th[t].pc \notin Asking
        BY <1>1, SMTT(30) DEF Asking
      <4> QED BY <4>1, Running
    <3> QED BY <1>2, <1>5, <1>9, <3>1 DEF Apart
  <2>2. IsTotal(lock_Conv[m][total[k]], Range(h))
    <3>1. Range(holder[k]) \in SUBSET Entry
      BY <1>2, RangeIs
    <3>2. IsTotal(lock_Conv[n.granted][total[k]], Range(h))
      BY <1>2, <1>5, <1>9, <3>1, TotalJoins
    <3> QED BY <1>5, <3>2
  <2> QED BY <1>2, <1>9, <1>15, <2>1, <2>2 DEF Lists
<1>17. Calm /\ \A u \in Tran : Same(u)
  BY <1>1, ThreadsSame
<1>18. \A u \in Tran : Bystander(u, k)
  <2>1. Entries(k)' = Entries(k) \cup {n}
    BY <1>9, <1>15 DEF Entries
  <2>2. \A u \in Tran : /\ Has(u, k) => Has(u, k)'
                        /\ BlockedAt(u, k)' => BlockedAt(u, k)
    BY <1>5, <2>1, FreeJoins
  <2> QED BY <1>1, <1>17, <2>2 DEF Bystander
<1>19. LoopInv(k)'
  <2>1. Settled(k) /\ Stuck(k)
    BY <1>1, <1>2 DEF LoopInv
  <2>2. Stuck(k)'
    BY <1>10, <1>15, <1>17, <2>1, StuckGrows
  <2>3. Settled(k)'
    <3>1. n \notin Range(holder[k]) /\ holder'[k] \in Seq(Entry)
      BY <1>6, <1>10, <1>15
    <3>2. Range(holder'[k]) = (Range(holder[k]) \ {n}) \cup {n}
      BY <1>9, <1>15
    <3> QED BY <1>5, <1>17, <2>1, <3>1, <3>2, SettledGrows
  <2>4. \A u \in Tran : mutex'[k] # u
    BY <1>1, NoneAssumption
  <2> QED BY <2>2, <2>3, <2>4 DEF LoopInv
<1> QED BY <1>14, <1>16, <1>17, <1>18, <1>19, KeyStep

(* A step that moves t only.                                               *)
LEMMA ThreadMoves ==
    ASSUME NEW t \in Tran, \A u \in Tran \ {t} : th'[u] = th[u],
           th'[t].lockwait => th[t].lockwait \/ th[t].pc = "run"
    PROVE  Calm /\ \A u \in Tran : u # t => Same(u)
BY DEF Calm, Same

(* EXCEPT changes one thread entry.                                        *)
LEMMA ThreadSet ==
    ASSUME th \in [Tran -> Thread], NEW t \in Tran, NEW r \in Thread,
           th' = [th EXCEPT ![t] = r]
    PROVE  /\ th' \in [Tran -> Thread]
           /\ th'[t] = r /\ \A u \in Tran \ {t} : th'[u] = th[u]
BY SMTT(30)

(* What a thread looks like that has just been suspended.                  *)
LEMMA SuspendIs ==
    ASSUME th \in [Tran -> Thread], NEW t \in Tran, NEW k \in Key, Suspend(t, k)
    PROVE  /\ th' \in [Tran -> Thread]
           /\ th'[t].pc = "susp" /\ th'[t].at = k /\ th'[t].skip = th[t].skip
           /\ th'[t].state = "suspended"
           /\ \A u \in Tran \ {t} : th'[u] = th[u]
<1> DEFINE r == [th[t] EXCEPT !.pc = "susp", !.at = k, !.lockwait = TRUE,
                              !.resume = "suspended", !.state = "suspended"]
<1>1. th' = [th EXCEPT ![t] = r]
  BY DEF Suspend
<1>2. PICK x \in Thread : x = th[t]
  BY SMTT(30)
<1>3. r = [x EXCEPT !.pc = "susp", !.at = k, !.lockwait = TRUE,
                    !.resume = "suspended", !.state = "suspended"]
  BY <1>2
<1> HIDE DEF r
<1>4. r \in Thread /\ r.pc = "susp" /\ r.at = k /\ r.skip = x.skip /\ r.state = "suspended"
  BY <1>3 DEF Thread
<1>5. /\ th' \in [Tran -> Thread]
      /\ th'[t] = r /\ \A u \in Tran \ {t} : th'[u] = th[u]
  BY <1>1, <1>4, ThreadSet
<1> QED BY <1>2, <1>4, <1>5

(* The entries of the others when t gets one, or changes the one it has.   *)
LEMMA OwnJoins ==
    ASSUME NEW t, NEW k \in Key, NEW n, n.tran = t, NEW o, o \in Entries(k) => o.tran = t,
           Entries(k)' = (Entries(k) \ {o}) \cup {n}
    PROVE  /\ \A u : u # t => /\ Has(u, k)' <=> Has(u, k)
                              /\ BlockedAt(u, k)' <=> BlockedAt(u, k)
           /\ Has(t, k)'
BY DEF Has, BlockedAt

(* t has begun to wait at k.                                               *)
LEMMA SuspendKeeps ==
    ASSUME Inv, NEW t \in Tran, NEW k \in Key, Rest(k), mutex' = mutex, th[t].pc = "run",
           th'[t].pc = "susp", th'[t].at = k, th'[t].skip = th[t].skip,
           th'[t].state = "suspended", Has(t, k)'
    PROVE  ThreadInv(t)'
<1>1. /\ th'[t].pc \in Asking /\ th'[t].pc \notin Loop
      /\ th[t].pc \notin Asking /\ th[t].pc \notin Loop
  BY SMTT(30) DEF Asking, Loop
<1>2. ThreadInv(t) /\ \A j \in Key : mutex[j] # t /\ ~BlockedAt(t, j)
  BY <1>1, NoMutex, Running DEF Inv
<1>3. th'[t].skip = 0
  BY <1>1, <1>2 DEF ThreadInv
<1>4. ASSUME NEW j \in Key, BlockedAt(t, j)' PROVE j = k
  BY <1>2, <1>4, RestKept
<1>5. Has(t, th[t].at)'
  BY DEF Has, Entries
<1>6. th'[t].state # "granted"
  BY SMTT(30)
<1> QED BY <1>1, <1>2, <1>3, <1>4, <1>5, <1>6 DEF ThreadInv

(* A transaction that joins the waiters keeps the invariant.               *)
LEMMA LockWaitKeeps ==
    ASSUME Inv, NEW t \in Tran, NEW k \in Key, NEW m \in Request, LockWait(t, k, m)
    PROVE  Inv'
<1>1. /\ th[t].pc = "run" /\ mutex[k] = None /\ IndexOf(holder[k], t) = 0
      /\ ~lock_Comp[m][total[k]]
      /\ waiter' = [waiter EXCEPT ![k] = Append(waiter[k], NewEntry(t, NULL_LOCK, m))]
      /\ holder' = holder /\ total' = total /\ mutex' = mutex /\ Suspend(t, k)
  BY SMTT(30) DEF LockWait, Holds, Grantable
<1>2. /\ holder[k] \in Seq(Entry) /\ HolderList(holder[k]) /\ WaiterList(waiter[k])
      /\ Apart(holder[k], waiter[k]) /\ IsTotal(total[k], Range(holder[k]))
      /\ total[k] \in Mode /\ LoopInv(k)
  BY AtKey
<1>3. m \in Mode /\ m # NULL_LOCK /\ NULL_LOCK \in Mode
  BY RequestIs, NullMode
<1>4. PICK n : n = NewEntry(t, NULL_LOCK, m)
  BY SMTT(30)
<1>5. n \in Entry /\ n.tran = t /\ n.granted = NULL_LOCK /\ n.blocked = m
  BY <1>3, <1>4, NewEntryIs, SMTT(30)
<1>6. th[t].pc \notin Asking /\ th[t].pc \notin Loop
  BY <1>1, SMTT(30) DEF Asking, Loop
<1>7. /\ \A f \in Range(waiter[k]) : f.tran # n.tran
      /\ \A f \in Range(holder[k]) : f.tran # n.tran
  <2>1. \A f \in Range(waiter[k]) : f.tran # t
    BY <1>6, Running
  <2>2. \A f \in Range(holder[k]) : f.tran # t
    BY <1>1, <1>2, Absent
  <2> QED BY <1>5, <2>1, <2>2
<1>8. PICK w : w = Append(waiter[k], n)
  OBVIOUS
<1>9. /\ WaiterList(w) /\ Range(w) = Range(waiter[k]) \cup {n}
      /\ w # <<>> /\ w[1] = IF waiter[k] = <<>> THEN n ELSE waiter[k][1]
  <2>1. WaiterEntry(n)
    BY <1>3, <1>5 DEF WaiterEntry
  <2> QED BY <1>2, <1>5, <1>7, <1>8, <2>1, WaiterJoins
<1>10. w \in Seq(Entry)
  BY <1>9 DEF WaiterList
<1>11. /\ holder \in [Key -> Seq(Entry)] /\ waiter \in [Key -> Seq(Entry)]
       /\ total \in [Key -> Mode] /\ mutex \in [Key -> Tran \cup {None}]
       /\ th \in [Tran -> Thread]
  BY DEF Inv, Types
<1>12. waiter' \in [Key -> Seq(Entry)] /\ SetAt(waiter', waiter, k, w)
  BY <1>1, <1>4, <1>8, <1>10, <1>11, SetAtIs
<1>13. /\ th' \in [Tran -> Thread]
       /\ th'[t].pc = "susp" /\ th'[t].at = k /\ th'[t].skip = th[t].skip
       /\ th'[t].state = "suspended"
       /\ \A u \in Tran \ {t} : th'[u] = th[u]
  BY <1>1, <1>11, SuspendIs
<1>14. Types' /\ Rest(k)
  BY <1>1, <1>11, <1>12, <1>13 DEF Types, Rest, SetAt
<1>15. waiter'[k] = w /\ holder'[k] = holder[k] /\ total'[k] = total[k]
  BY <1>1, <1>12 DEF SetAt
<1>16. Lists(holder'[k], waiter'[k], total'[k])
  <2>1. Apart(holder[k], w)
    BY <1>2, <1>7, <1>9 DEF Apart
  <2> QED BY <1>2, <1>9, <1>15, <2>1 DEF Lists
<1>17. Calm /\ \A u \in Tran : u # t => Same(u)
  BY <1>1, <1>13, ThreadMoves
<1>18. /\ \A u : u # t => /\ Has(u, k)' <=> Has(u, k)
                          /\ BlockedAt(u, k)' <=> BlockedAt(u, k)
       /\ Has(t, k)'
  <2>1. Entries(k)' = (Entries(k) \ {n}) \cup {n}
    BY <1>9, <1>15 DEF Entries
  <2> QED BY <1>5, <2>1, OwnJoins
<1>19. \A u \in Tran : ThreadInv(u)' \/ Bystander(u, k)
  <2>1. ThreadInv(t)'
    BY <1>1, <1>13, <1>14, <1>18, SuspendKeeps
  <2>2. \A u \in Tran : u # t => Bystander(u, k)
    BY <1>1, <1>17, <1>18 DEF Bystander
  <2> QED BY <2>1, <2>2
<1>20. \A u \in Tran : Same(u) \/ \A j \in Key \ {k} : mutex[j] # u
  BY <1>6, <1>17, NoMutex
<1>21. LoopInv(k)'
  <2>1. Settled(k) /\ Stuck(k)
    BY <1>1, <1>2 DEF LoopInv
  <2>2. Settled(k)'
    <3>1. Alike(holder[k], holder'[k]) /\ holder'[k] \in Seq(Entry)
      BY <1>2, <1>15, AlikeSelf
    <3>2. \A u \in Tran : ThreadInv(u)
      BY DEF Inv
    <3> QED BY <1>2, <1>17, <2>1, <3>1, <3>2, SettledKept
  <2>3. Stuck(k)'
    <3>1. CASE waiter[k] = <<>>
      <4>1. ~lock_Comp[waiter'[k][1].blocked][total'[k]]
        BY <1>1, <1>5, <1>9, <1>15, <3>1
      <4> QED BY <4>1 DEF Stuck
    <3>2. CASE waiter[k] # <<>>
      <4>1. waiter'[k][1] = waiter[k][1]
        BY <1>9, <1>15, <3>2
      <4>2. total'[k] \in Mode /\ total[k] <= total'[k]
        BY <1>2, <1>15, ModeLeq
      <4> QED BY <1>17, <2>1, <3>2, <4>1, <4>2, StuckGrows
    <3> QED BY <3>1, <3>2
  <2>4. \A u \in Tran : mutex'[k] # u
    BY <1>1, NoneAssumption
  <2> QED BY <2>2, <2>3, <2>4 DEF LoopInv
<1> QED BY <1>14, <1>16, <1>17, <1>19, <1>20, <1>21, KeyStep

(* An entry whose count changes.                                           *)
LEMMA CountIs ==
    ASSUME NEW e \in Entry, NEW c \in 0 .. MaxCount, NEW n, n = [e EXCEPT !.count = c]
    PROVE  /\ n \in Entry /\ n.tran = e.tran
           /\ n.granted = e.granted /\ n.blocked = e.blocked
BY SMTT(30) DEF Entry

(* A list with one count changed is alike.                                 *)
LEMMA ChangedAlike ==
    ASSUME NEW s, NEW i, NEW n, NEW r, Changed(r, s, i, n),
           n.tran = s[i].tran, n.granted = s[i].granted, n.blocked = s[i].blocked
    PROVE  Alike(s, r)
BY DEF Changed, Alike

(* Lists that differ in counts have the same requests and the same total.  *)
LEMMA AlikeEntries ==
    ASSUME NEW k \in Key, holder[k] \in Seq(Entry), waiter[k] \in Seq(Entry),
           holder'[k] \in Seq(Entry), waiter'[k] \in Seq(Entry),
           Alike(holder[k], holder'[k]), Alike(waiter[k], waiter'[k])
    PROVE  /\ \A u : /\ Has(u, k)' <=> Has(u, k)
                     /\ BlockedAt(u, k)' <=> BlockedAt(u, k)
           /\ Apart(holder[k], waiter[k]) => Apart(holder'[k], waiter'[k])
           /\ \A m : IsTotal(m, Range(holder[k])) => IsTotal(m, Range(holder'[k]))
<1>1. /\ \A e \in Range(holder[k]) : \E f \in Range(holder'[k]) :
            e.tran = f.tran /\ e.granted = f.granted /\ e.blocked = f.blocked
      /\ \A f \in Range(holder'[k]) : \E e \in Range(holder[k]) :
            e.tran = f.tran /\ e.granted = f.granted /\ e.blocked = f.blocked
  BY AlikeRange
<1>2. /\ \A e \in Range(waiter[k]) : \E f \in Range(waiter'[k]) :
            e.tran = f.tran /\ e.granted = f.granted /\ e.blocked = f.blocked
      /\ \A f \in Range(waiter'[k]) : \E e \in Range(waiter[k]) :
            e.tran = f.tran /\ e.granted = f.granted /\ e.blocked = f.blocked
  BY AlikeRange
<1>3. \A e \in Entries(k) : \E f \in Entries(k)' : e.tran = f.tran /\ e.blocked = f.blocked
  BY <1>1, <1>2 DEF Entries
<1>4. \A f \in Entries(k)' : \E e \in Entries(k) : e.tran = f.tran /\ e.blocked = f.blocked
  BY <1>1, <1>2 DEF Entries
<1>5. ASSUME NEW u PROVE Has(u, k)' <=> Has(u, k)
  BY <1>3, <1>4 DEF Has
<1>6. ASSUME NEW u PROVE BlockedAt(u, k)' <=> BlockedAt(u, k)
  <2>1. ASSUME BlockedAt(u, k) PROVE BlockedAt(u, k)'
    <3>1. PICK e \in Entries(k) : e.tran = u /\ e.blocked # NULL_LOCK
      BY <2>1 DEF BlockedAt
    <3>2. PICK f \in Entries(k)' : e.tran = f.tran /\ e.blocked = f.blocked
      BY <1>3
    <3> QED BY <3>1, <3>2 DEF BlockedAt
  <2>2. ASSUME BlockedAt(u, k)' PROVE BlockedAt(u, k)
    <3>1. PICK f \in Entries(k)' : f.tran = u /\ f.blocked # NULL_LOCK
      BY <2>2 DEF BlockedAt
    <3>2. PICK e \in Entries(k) : e.tran = f.tran /\ e.blocked = f.blocked
      BY <1>4
    <3> QED BY <3>1, <3>2 DEF BlockedAt
  <2> QED BY <2>1, <2>2
<1>7. ASSUME Apart(holder[k], waiter[k]),
             NEW e \in Range(holder'[k]), NEW f \in Range(waiter'[k])
      PROVE  e.tran # f.tran
  <2>1. PICK d \in Range(holder[k]) : d.tran = e.tran
    BY <1>1
  <2>2. PICK g \in Range(waiter[k]) : g.tran = f.tran
    BY <1>2
  <2>3. d.tran # g.tran
    BY <1>7 DEF Apart
  <2> QED BY <2>1, <2>2, <2>3
<1>8. ASSUME NEW m, IsTotal(m, Range(holder[k])) PROVE IsTotal(m, Range(holder'[k]))
  <2>1. ASSUME NEW f \in Range(holder'[k]) PROVE f.granted <= m /\ f.blocked <= m
    <3>1. PICK e \in Range(holder[k]) : e.granted = f.granted /\ e.blocked = f.blocked
      BY <1>1
    <3>2. e.granted <= m /\ e.blocked <= m
      BY <1>8 DEF IsTotal
    <3> QED BY <3>1, <3>2
  <2>2. ASSUME m # NULL_LOCK
        PROVE  \E f \in Range(holder'[k]) : m = f.granted \/ m = f.blocked
    <3>1. PICK e \in Range(holder[k]) : m = e.granted \/ m = e.blocked
      BY <1>8, <2>2 DEF IsTotal
    <3>2. PICK f \in Range(holder'[k]) : e.granted = f.granted /\ e.blocked = f.blocked
      BY <1>1
    <3> QED BY <3>1, <3>2
  <2> QED BY <1>8, <2>1, <2>2 DEF IsTotal
<1> QED BY <1>5, <1>6, <1>7, <1>8 DEF Apart

(* A step that changes counts and moves threads that keep no mutex.        *)
LEMMA CountStep ==
    ASSUME Inv, Types', NEW k \in Key, Rest(k), Calm, total' = total, mutex' = mutex,
           HolderList(holder'[k]), WaiterList(waiter'[k]),
           Alike(holder[k], holder'[k]), Alike(waiter[k], waiter'[k]),
           \A u \in Tran : \/ Same(u)
                           \/ ThreadInv(u)' /\ \A j \in Key : mutex[j] # u
    PROVE  Inv'
<1>1. /\ holder[k] \in Seq(Entry) /\ waiter[k] \in Seq(Entry)
      /\ HolderList(holder[k]) /\ WaiterList(waiter[k])
      /\ Apart(holder[k], waiter[k]) /\ IsTotal(total[k], Range(holder[k])) /\ LoopInv(k)
  BY AtKey
<1>2. holder'[k] \in Seq(Entry) /\ waiter'[k] \in Seq(Entry) /\ total'[k] = total[k]
  BY DEF HolderList, WaiterList
<1>3. /\ \A u : /\ Has(u, k)' <=> Has(u, k)
                /\ BlockedAt(u, k)' <=> BlockedAt(u, k)
      /\ Apart(holder'[k], waiter'[k])
      /\ IsTotal(total[k], Range(holder'[k]))
  BY <1>1, <1>2, AlikeEntries
<1>4. Lists(holder'[k], waiter'[k], total'[k])
  BY <1>2, <1>3 DEF Lists
<1>5. \A u \in Tran : ThreadInv(u)' \/ Bystander(u, k)
  BY <1>3 DEF Bystander
<1>6. \A u \in Tran : Same(u) \/ \A j \in Key \ {k} : mutex[j] # u
  OBVIOUS
<1>7. LoopInv(k)'
  <2>1. \A u \in Tran : mutex[k] = u => Same(u)
    OBVIOUS
  <2>2. th \in [Tran -> Thread] /\ \A u \in Tran : ThreadInv(u)
    BY DEF Inv, Types
  <2>3. mutex'[k] = mutex[k]
    OBVIOUS
  <2> QED BY <1>1, <1>2, <2>1, <2>2, <2>3, LoopKept
<1> QED BY <1>4, <1>5, <1>6, <1>7, KeyStep

(* The count of the i-th holder of k changes.                              *)
LEMMA HolderCount ==
    ASSUME Inv, NEW k \in Key, NEW i \in 1 .. Len(holder[k]), NEW c \in 0 .. MaxCount,
           holder' = [holder EXCEPT ![k][i].count = c]
    PROVE  /\ holder' \in [Key -> Seq(Entry)] /\ HolderList(holder'[k])
           /\ Alike(holder[k], holder'[k])
           /\ \A j \in Key \ {k} : holder'[j] = holder[j]
<1>1. holder[k] \in Seq(Entry) /\ HolderList(holder[k])
  BY AtKey
<1>2. PICK e : e = holder[k][i]
  OBVIOUS
<1>3. e \in Entry /\ e \in Range(holder[k])
  BY <1>1, <1>2, RangeIs
<1>4. PICK n : n = [e EXCEPT !.count = c]
  OBVIOUS
<1>5. n \in Entry /\ n.tran = e.tran /\ n.granted = e.granted /\ n.blocked = e.blocked
  BY <1>3, <1>4, CountIs, SMTT(30)
<1>6. PICK r : r = [holder[k] EXCEPT ![i] = n]
  OBVIOUS
<1>7. Changed(r, holder[k], i, n)
  BY <1>1, <1>5, <1>6, ExceptIs, SMTT(30)
<1>8. HolderEntry(n)
  BY <1>1, <1>3, <1>5 DEF HolderList, HolderEntry
<1>9. HolderList(r)
  BY <1>1, <1>2, <1>5, <1>7, <1>8, HolderChanges, SMTT(30)
<1>10. Alike(holder[k], r) /\ r \in Seq(Entry)
  <2>1. /\ n.tran = holder[k][i].tran /\ n.granted = holder[k][i].granted
        /\ n.blocked = holder[k][i].blocked
    BY <1>2, <1>5
  <2>2. Alike(holder[k], r)
    BY <1>7, <2>1, ChangedAlike
  <2> QED BY <1>7, <2>2 DEF Changed
<1>11. holder' = [holder EXCEPT ![k] = r]
  BY <1>2, <1>4, <1>6
<1>12. holder \in [Key -> Seq(Entry)]
  BY DEF Inv, Types
<1>13. holder' \in [Key -> Seq(Entry)] /\ SetAt(holder', holder, k, r)
  BY <1>10, <1>11, <1>12 DEF SetAt
<1> QED BY <1>9, <1>10, <1>13 DEF SetAt

(* A count of the waiters changes.                                         *)
LEMMA WaiterCount ==
    ASSUME Inv, NEW k \in Key, NEW i \in 1 .. Len(waiter[k]), NEW c \in 0 .. MaxCount,
           waiter' = [waiter EXCEPT ![k][i].count = c]
    PROVE  /\ waiter' \in [Key -> Seq(Entry)] /\ WaiterList(waiter'[k])
           /\ Alike(waiter[k], waiter'[k])
           /\ \A j \in Key \ {k} : waiter'[j] = waiter[j]
<1>1. waiter[k] \in Seq(Entry) /\ WaiterList(waiter[k])
  BY AtKey
<1>2. PICK e : e = waiter[k][i]
  OBVIOUS
<1>3. e \in Entry /\ e \in Range(waiter[k])
  BY <1>1, <1>2, RangeIs
<1>4. PICK n : n = [e EXCEPT !.count = c]
  OBVIOUS
<1>5. n \in Entry /\ n.tran = e.tran /\ n.granted = e.granted /\ n.blocked = e.blocked
  BY <1>3, <1>4, CountIs, SMTT(30)
<1>6. PICK r : r = [waiter[k] EXCEPT ![i] = n]
  OBVIOUS
<1>7. Changed(r, waiter[k], i, n)
  BY <1>1, <1>5, <1>6, ExceptIs, SMTT(30)
<1>8. WaiterEntry(n)
  BY <1>1, <1>3, <1>5 DEF WaiterList, WaiterEntry
<1>9. WaiterList(r)
  BY <1>1, <1>2, <1>5, <1>7, <1>8, WaiterChanges, SMTT(30)
<1>10. Alike(waiter[k], r) /\ r \in Seq(Entry)
  <2>1. /\ n.tran = waiter[k][i].tran /\ n.granted = waiter[k][i].granted
        /\ n.blocked = waiter[k][i].blocked
    BY <1>2, <1>5
  <2>2. Alike(waiter[k], r)
    BY <1>7, <2>1, ChangedAlike
  <2> QED BY <1>7, <2>2 DEF Changed
<1>11. waiter' = [waiter EXCEPT ![k] = r]
  BY <1>2, <1>4, <1>6
<1>12. waiter \in [Key -> Seq(Entry)]
  BY DEF Inv, Types
<1>13. waiter' \in [Key -> Seq(Entry)] /\ SetAt(waiter', waiter, k, r)
  BY <1>10, <1>11, <1>12 DEF SetAt
<1> QED BY <1>9, <1>10, <1>13 DEF SetAt

(* A holder that asks again keeps the invariant.                           *)
LEMMA RelockKeeps ==
    ASSUME Inv, NEW t \in Tran, NEW k \in Key, NEW m \in Request, Relock(t, k, m)
    PROVE  Inv'
<1>1. PICK i : i = IndexOf(holder[k], t)
  OBVIOUS
<1>2. /\ i # 0 /\ holder[k][i].count < MaxCount
      /\ holder' = [holder EXCEPT ![k][i].count = holder[k][i].count + 1]
      /\ waiter' = waiter /\ total' = total /\ mutex' = mutex /\ th' = th
  BY <1>1, SMTT(30) DEF Relock, Holds
<1>3. /\ holder[k] \in Seq(Entry) /\ waiter[k] \in Seq(Entry) /\ WaiterList(waiter[k])
  BY AtKey
<1>4. i \in 1 .. Len(holder[k]) /\ holder[k][i] \in Entry
  BY <1>1, <1>2, <1>3, Present
<1>5. holder[k][i].count + 1 \in 0 .. MaxCount
  <2>1. holder[k][i].count \in 0 .. MaxCount
    BY <1>4, EntryIs
  <2> QED BY <1>2, <2>1, CountAssumption, SMTT(30)
<1>6. /\ holder' \in [Key -> Seq(Entry)] /\ HolderList(holder'[k])
      /\ Alike(holder[k], holder'[k])
      /\ \A j \in Key \ {k} : holder'[j] = holder[j]
  BY <1>2, <1>4, <1>5, HolderCount
<1>7. Types' /\ Rest(k)
  BY <1>2, <1>6 DEF Inv, Types, Rest
<1>8. Calm /\ \A u \in Tran : Same(u)
  BY <1>2, ThreadsSame
<1>9. WaiterList(waiter'[k]) /\ Alike(waiter[k], waiter'[k])
  BY <1>2, <1>3, AlikeSelf
<1> QED BY <1>2, <1>6, <1>7, <1>8, <1>9, CountStep

(* The entry of a holder that gets a stronger mode, ...                    *)
Strengthened(e, g) == [e EXCEPT !.granted = g, !.count = e.count + 1]

(* Its other fields stay.                                                  *)
LEMMA StrengthenedIs ==
    ASSUME NEW e \in Entry, NEW g \in Mode, e.count + 1 \in 0 .. MaxCount
    PROVE  /\ Strengthened(e, g) \in Entry /\ Strengthened(e, g).tran = e.tran
           /\ Strengthened(e, g).granted = g /\ Strengthened(e, g).blocked = e.blocked
BY DEF Entry, Strengthened

(* ... that asks for one ...                                               *)
Upgrading(e, b) == [e EXCEPT !.blocked = b, !.count = e.count + 1]

(* It keeps the mode it has.                                               *)
LEMMA UpgradingIs ==
    ASSUME NEW e \in Entry, NEW b \in Mode, e.count + 1 \in 0 .. MaxCount
    PROVE  /\ Upgrading(e, b) \in Entry /\ Upgrading(e, b).tran = e.tran
           /\ Upgrading(e, b).granted = e.granted /\ Upgrading(e, b).blocked = b
BY DEF Entry, Upgrading

(* ... or gives up asking.                                                 *)
Freed(e) == [e EXCEPT !.blocked = NULL_LOCK]

(* It keeps the mode it has and asks for nothing.                          *)
LEMMA FreedIs ==
    ASSUME NEW e \in Entry
    PROVE  /\ Freed(e) \in Entry /\ Freed(e).tran = e.tran
           /\ Freed(e).granted = e.granted /\ Freed(e).blocked = NULL_LOCK
BY NullMode, SMTT(30) DEF Entry, Freed

(* A conversion that changes the mode gives the mode asked for.            *)
LEMMA ConvNew ==
    ASSUME NEW a \in Mode, NEW b \in Mode, lock_Conv[a][b] # b
    PROVE  lock_Conv[a][b] = a /\ b < a /\ b <= a
<1>1. lock_Conv[a][b] = IF a >= b THEN a ELSE b
  BY ConvIs
<1>2. a \in {1, 2, 3, 4} /\ b \in {1, 2, 3, 4}
  BY ModeIs
<1>3. PICK y : y = lock_Conv[a][b]
  OBVIOUS
<1>4. y # b /\ y = IF a >= b THEN a ELSE b
  BY <1>1, <1>3
<1>5. y = a /\ b < a /\ b <= a
  BY <1>2, <1>4, SMTT(30)
<1> QED BY <1>3, <1>5

(* The entry of a running holder that asks for the stronger mode m.        *)
LEMMA AskedIs ==
    ASSUME Inv, NEW t \in Tran, NEW k \in Key, NEW m \in Request, th[t].pc = "run",
           NEW e \in Range(holder[k]), e \in Entry, e.tran = t,
           e.count < MaxCount, lock_Conv[m][e.granted] # e.granted
    PROVE  /\ e.blocked = NULL_LOCK /\ e.count + 1 \in 0 .. MaxCount
           /\ m \in Mode /\ m # NULL_LOCK /\ e.granted \in Mode
           /\ lock_Conv[m][e.granted] = m /\ e.granted < m
<1>3. e.blocked = NULL_LOCK
  <2>1. th[t].pc \notin Asking
    BY SMTT(30) DEF Asking
  <2> QED BY <2>1, Running
<1>4. e.count + 1 \in 0 .. MaxCount
  <2>1. e.count \in 0 .. MaxCount
    BY EntryIs
  <2> QED BY <2>1, CountAssumption, SMTT(30)
<1>5. m \in Mode /\ m # NULL_LOCK /\ e.granted \in Mode
  BY RequestIs, EntryIs
<1>6. lock_Conv[m][e.granted] = m /\ e.granted < m
  BY <1>5, ConvNew
<1> QED BY <1>3, <1>4, <1>5, <1>6

(* What a step writes into the holders of k.                               *)
LEMMA HoldersSet ==
    ASSUME Inv, NEW k \in Key, NEW r \in Seq(Entry), holder' = [holder EXCEPT ![k] = r]
    PROVE  /\ holder' \in [Key -> Seq(Entry)] /\ holder'[k] = r
           /\ \A j \in Key \ {k} : holder'[j] = holder[j]
<1>1. holder \in [Key -> Seq(Entry)]
  BY DEF Inv, Types
<1>2. holder' \in [Key -> Seq(Entry)] /\ SetAt(holder', holder, k, r)
  BY <1>1, SetAtIs
<1> QED BY <1>2 DEF SetAt

(* An upgrade granted at once: t, which has the entry e, gets n.           *)
LEMMA ConvertIs ==
    ASSUME Inv, NEW t \in Tran, NEW k \in Key, NEW m \in Request, Convert(t, k, m)
    PROVE  /\ m \in Mode /\ m # NULL_LOCK /\ holder' \in [Key -> Seq(Entry)]
           /\ HolderList(holder'[k]) /\ \A j \in Key \ {k} : holder'[j] = holder[j]
           /\ \E e \in Range(holder[k]), n \in Entry :
                 /\ e.tran = t /\ e.blocked = NULL_LOCK /\ e.granted < m
                 /\ n.tran = t /\ n.blocked = NULL_LOCK /\ n.granted = m
                 /\ Range(holder'[k]) = (Range(holder[k]) \ {e}) \cup {n}
                 /\ \A f \in Range(holder[k]) \ {e} : lock_Comp[m][f.granted]
<1>1. PICK i, e, q : /\ i = IndexOf(holder[k], t) /\ e = holder[k][i]
                     /\ q = RemoveAt(holder[k], i)
  OBVIOUS
<1>2. /\ th[t].pc = "run" /\ i # 0 /\ e.count < MaxCount
      /\ lock_Conv[m][e.granted] # e.granted
      /\ lock_Comp[lock_Conv[m][e.granted]][Granted(q)]
      /\ holder' = [holder EXCEPT ![k][i].granted = lock_Conv[m][e.granted],
                                  ![k][i].count = @ + 1]
  BY <1>1 DEF Convert, Holds, Others
<1>3. holder[k] \in Seq(Entry) /\ HolderList(holder[k])
  BY AtKey
<1>4. /\ i \in 1 .. Len(holder[k]) /\ e \in Entry /\ e \in Range(holder[k])
      /\ e.tran = t /\ e.blocked = NULL_LOCK /\ e.count + 1 \in 0 .. MaxCount
      /\ m \in Mode /\ m # NULL_LOCK /\ e.granted \in Mode
      /\ lock_Conv[m][e.granted] = m /\ e.granted < m
  <2>1. /\ i \in 1 .. Len(holder[k]) /\ holder[k][i] \in Range(holder[k])
        /\ holder[k][i] \in Entry /\ holder[k][i].tran = t
    <3>1. IndexOf(holder[k], t) # 0 /\ i = IndexOf(holder[k], t)
      BY <1>1, <1>2
    <3> QED BY <1>3, <3>1, Present
  <2>2. i \in 1 .. Len(holder[k]) /\ e \in Range(holder[k]) /\ e \in Entry /\ e.tran = t
    BY <1>1, <2>1
  <2>3. th[t].pc = "run" /\ e.count < MaxCount /\ lock_Conv[m][e.granted] # e.granted
    BY <1>2
  <2>4. /\ e.blocked = NULL_LOCK /\ e.count + 1 \in 0 .. MaxCount
        /\ m \in Mode /\ m # NULL_LOCK /\ e.granted \in Mode
        /\ lock_Conv[m][e.granted] = m /\ e.granted < m
    BY <2>2, <2>3, AskedIs
  <2> QED BY <2>2, <2>4
<1>5. PICK n : n = Strengthened(e, m)
  OBVIOUS
<1>6. n \in Entry /\ n.tran = t /\ n.granted = m /\ n.blocked = NULL_LOCK
  <2>1. n \in Entry /\ n.tran = e.tran /\ n.granted = m /\ n.blocked = e.blocked
    BY <1>4, <1>5, StrengthenedIs
  <2> QED BY <1>4, <2>1
<1>7. PICK r : r = [holder[k] EXCEPT ![i] = n]
  OBVIOUS
<1>8. Changed(r, holder[k], i, n)
  BY <1>3, <1>4, <1>6, <1>7, ExceptIs, SMTT(30)
<1>9. holder' = [holder EXCEPT ![k] = r]
  <2>1. holder \in [Key -> Seq(Entry)]
    BY DEF Inv, Types
  <2>2. lock_Conv[m][e.granted] = m
    BY <1>4
  <2>3. /\ e = holder[k][i]
        /\ holder' = [holder EXCEPT ![k][i].granted = lock_Conv[m][e.granted],
                                    ![k][i].count = @ + 1]
    BY <1>1, <1>2
  <2> QED BY <1>5, <1>7, <2>1, <2>2, <2>3 DEF Strengthened
<1>10. HolderList(r) /\ Range(r) = (Range(holder[k]) \ {e}) \cup {n}
  <2>1. HolderEntry(n)
    BY <1>4, <1>6 DEF HolderEntry
  <2>2. n.tran = holder[k][i].tran /\ n.blocked = holder[k][i].blocked
    BY <1>1, <1>4, <1>6
  <2>3. HolderList(r) /\ Range(r) = (Range(holder[k]) \ {holder[k][i]}) \cup {n}
    BY <1>3, <1>4, <1>6, <1>8, <2>1, <2>2, HolderChanges, SMTT(30)
  <2> QED BY <1>1, <2>3
<1>11. r \in Seq(Entry)
  BY <1>10 DEF HolderList
<1>12. /\ holder' \in [Key -> Seq(Entry)] /\ holder'[k] = r
       /\ \A j \in Key \ {k} : holder'[j] = holder[j]
  BY <1>9, <1>11, HoldersSet
<1>13. \A f \in Range(holder[k]) \ {e} : lock_Comp[m][f.granted]
  <2>1. /\ HolderList(RemoveAt(holder[k], i))
        /\ Range(RemoveAt(holder[k], i)) = Range(holder[k]) \ {holder[k][i]}
    BY <1>3, <1>4, HolderLeaves
  <2>2. q \in Seq(Entry) /\ Range(q) = Range(holder[k]) \ {e} /\ lock_Comp[m][Granted(q)]
    BY <1>1, <1>2, <1>4, <2>1 DEF HolderList
  <2>3. \A f \in Range(q) : lock_Comp[m][f.granted]
    BY <1>4, <2>2, GrantedAllows
  <2> QED BY <2>2, <2>3
<1> QED BY <1>4, <1>6, <1>10, <1>12, <1>13

(* An upgrader that has to wait: t, which has the entry e, gets n.         *)
LEMMA ConvertWaitIs ==
    ASSUME Inv, NEW t \in Tran, NEW k \in Key, NEW m \in Request, ConvertWait(t, k, m)
    PROVE  /\ m \in Mode /\ m # NULL_LOCK /\ holder' \in [Key -> Seq(Entry)]
           /\ HolderList(holder'[k]) /\ \A j \in Key \ {k} : holder'[j] = holder[j]
           /\ \E e \in Range(holder[k]), n \in Entry :
                 /\ e.tran = t /\ e.blocked = NULL_LOCK /\ e.granted < m
                 /\ n.tran = t /\ n.blocked = m /\ n.granted = e.granted
                 /\ Range(holder'[k]) = (Range(holder[k]) \ {e}) \cup {n}
                 /\ \E f \in Range(holder[k]) \ {e} :
                       f.tran # t /\ ~lock_Comp[m][f.granted]
<1>1. PICK i, e, q : /\ i = IndexOf(holder[k], t) /\ e = holder[k][i]
                     /\ q = RemoveAt(holder[k], i)
  OBVIOUS
<1>2. /\ th[t].pc = "run" /\ i # 0 /\ e.count < MaxCount
      /\ lock_Conv[m][e.granted] # e.granted
      /\ ~lock_Comp[lock_Conv[m][e.granted]][Granted(q)]
      /\ holder' = [holder EXCEPT ![k] =
             Position(q, [e EXCEPT !.blocked = lock_Conv[m][e.granted], !.count = @ + 1])]
  BY <1>1 DEF ConvertWait, Holds, Others
<1>3. holder[k] \in Seq(Entry) /\ HolderList(holder[k])
  BY AtKey
<1>4. /\ i \in 1 .. Len(holder[k]) /\ e \in Entry /\ e \in Range(holder[k])
      /\ e.tran = t /\ e.blocked = NULL_LOCK /\ e.count + 1 \in 0 .. MaxCount
      /\ m \in Mode /\ m # NULL_LOCK /\ e.granted \in Mode
      /\ lock_Conv[m][e.granted] = m /\ e.granted < m
  <2>1. /\ i \in 1 .. Len(holder[k]) /\ holder[k][i] \in Range(holder[k])
        /\ holder[k][i] \in Entry /\ holder[k][i].tran = t
    <3>1. IndexOf(holder[k], t) # 0 /\ i = IndexOf(holder[k], t)
      BY <1>1, <1>2
    <3> QED BY <1>3, <3>1, Present
  <2>2. i \in 1 .. Len(holder[k]) /\ e \in Range(holder[k]) /\ e \in Entry /\ e.tran = t
    BY <1>1, <2>1
  <2>3. th[t].pc = "run" /\ e.count < MaxCount /\ lock_Conv[m][e.granted] # e.granted
    BY <1>2
  <2>4. /\ e.blocked = NULL_LOCK /\ e.count + 1 \in 0 .. MaxCount
        /\ m \in Mode /\ m # NULL_LOCK /\ e.granted \in Mode
        /\ lock_Conv[m][e.granted] = m /\ e.granted < m
    BY <2>2, <2>3, AskedIs
  <2> QED BY <2>2, <2>4
<1>5. PICK n : n = Upgrading(e, m)
  OBVIOUS
<1>6. n \in Entry /\ n.tran = t /\ n.granted = e.granted /\ n.blocked = m
  <2>1. n \in Entry /\ n.tran = e.tran /\ n.granted = e.granted /\ n.blocked = m
    BY <1>4, <1>5, UpgradingIs
  <2> QED BY <1>4, <2>1
<1>7. /\ HolderList(q) /\ Range(q) = Range(holder[k]) \ {e}
      /\ \A f \in Range(q) : f.tran # t
  <2>1. /\ HolderList(RemoveAt(holder[k], i))
        /\ Range(RemoveAt(holder[k], i)) = Range(holder[k]) \ {holder[k][i]}
        /\ \A f \in Range(RemoveAt(holder[k], i)) : f.tran # holder[k][i].tran
    BY <1>3, <1>4, HolderLeaves
  <2> QED BY <1>1, <1>4, <2>1
<1>8. PICK h : h = Position(q, n)
  OBVIOUS
<1>9. HolderList(h) /\ Range(h) = (Range(holder[k]) \ {e}) \cup {n}
  <2>1. HolderEntry(n)
    <3>1. HolderEntry(e)
      BY <1>3, <1>4 DEF HolderList
    <3> QED BY <1>4, <1>6, <3>1 DEF HolderEntry
  <2>2. \A f \in Range(q) : f.tran # n.tran
    BY <1>6, <1>7
  <2>3. HolderList(h) /\ Range(h) = Range(q) \cup {n}
    BY <1>6, <1>7, <1>8, <2>1, <2>2, PositionIs, SMTT(30)
  <2> QED BY <1>7, <2>3
<1>10. h \in Seq(Entry) /\ holder' = [holder EXCEPT ![k] = h]
  BY <1>2, <1>4, <1>5, <1>8, <1>9 DEF Upgrading, HolderList
<1>11. /\ holder' \in [Key -> Seq(Entry)] /\ holder'[k] = h
       /\ \A j \in Key \ {k} : holder'[j] = holder[j]
  BY <1>10, HoldersSet
<1>12. \E f \in Range(holder[k]) \ {e} : f.tran # t /\ ~lock_Comp[m][f.granted]
  <2>1. q \in Seq(Entry) /\ ~lock_Comp[m][Granted(q)]
    BY <1>2, <1>4, <1>7 DEF HolderList
  <2>2. PICK f \in Range(q) : ~lock_Comp[m][f.granted]
    BY <1>4, <2>1, GrantedAllows
  <2> QED BY <1>7, <2>2
<1> QED BY <1>4, <1>6, <1>9, <1>11, <1>12

(* An upgrade granted at once keeps the invariant.                         *)
LEMMA ConvertKeeps ==
    ASSUME Inv, NEW t \in Tran, NEW k \in Key, NEW m \in Request, Convert(t, k, m)
    PROVE  Inv'
<1>1. /\ m \in Mode /\ m # NULL_LOCK /\ holder' \in [Key -> Seq(Entry)]
      /\ HolderList(holder'[k]) /\ \A j \in Key \ {k} : holder'[j] = holder[j]
      /\ \E e \in Range(holder[k]), n \in Entry :
            /\ e.tran = t /\ e.blocked = NULL_LOCK /\ e.granted < m
            /\ n.tran = t /\ n.blocked = NULL_LOCK /\ n.granted = m
            /\ Range(holder'[k]) = (Range(holder[k]) \ {e}) \cup {n}
            /\ \A f \in Range(holder[k]) \ {e} : lock_Comp[m][f.granted]
  BY ConvertIs
<1>2. /\ th[t].pc = "run" /\ mutex[k] = None
      /\ total' = [total EXCEPT ![k] = lock_Conv[m][total[k]]]
      /\ waiter' = waiter /\ mutex' = mutex /\ th' = th
  BY DEF Convert
<1>3. /\ holder[k] \in Seq(Entry) /\ WaiterList(waiter[k])
      /\ Apart(holder[k], waiter[k]) /\ IsTotal(total[k], Range(holder[k]))
      /\ total[k] \in Mode /\ LoopInv(k)
  BY AtKey
<1>4. PICK e \in Range(holder[k]), n \in Entry :
         /\ e.tran = t /\ e.blocked = NULL_LOCK /\ e.granted < m
         /\ n.tran = t /\ n.blocked = NULL_LOCK /\ n.granted = m
         /\ Range(holder'[k]) = (Range(holder[k]) \ {e}) \cup {n}
  BY <1>1
<1>7. m \in Mode /\ m # NULL_LOCK /\ e \in Entry /\ e.granted \in Mode
  BY <1>1, <1>3, RangeIs, EntryIs
<1>8. e.granted <= m
  <2>1. e.granted < m
    BY <1>4
  <2> QED BY <1>7, <2>1, ModeIs, SMTT(30)
<1>13. /\ waiter \in [Key -> Seq(Entry)]
       /\ total \in [Key -> Mode] /\ mutex \in [Key -> Tran \cup {None}]
       /\ th \in [Tran -> Thread]
  BY DEF Inv, Types
<1>16. /\ holder'[k] \in Seq(Entry) /\ lock_Conv[m][total[k]] \in Mode
       /\ total[k] <= lock_Conv[m][total[k]]
  <2>1. holder'[k] \in Seq(Entry) /\ total[k] \in Mode /\ m \in Mode
    BY <1>1, <1>3 DEF HolderList
  <2> QED BY <2>1, ConvGrows
<1>18. total' \in [Key -> Mode] /\ SetAt(total', total, k, lock_Conv[m][total[k]])
  <2>1. total \in [Key -> Mode] /\ lock_Conv[m][total[k]] \in Mode
    BY <1>13, <1>16
  <2>2. total' = [total EXCEPT ![k] = lock_Conv[m][total[k]]]
    BY <1>2
  <2> QED BY <2>1, <2>2, SetAtIs
<1>19. Types' /\ Rest(k)
  BY <1>1, <1>2, <1>13, <1>18 DEF Types, Rest, SetAt
<1>20. waiter'[k] = waiter[k] /\ total'[k] = lock_Conv[m][total[k]]
  BY <1>2, <1>18 DEF SetAt
<1>21. Lists(holder'[k], waiter'[k], total'[k])
  <2>1. Apart(holder'[k], waiter[k])
    BY <1>3, <1>4 DEF Apart
  <2>2. IsTotal(lock_Conv[m][total[k]], Range(holder'[k]))
    <3>1. Range(holder[k]) \in SUBSET Entry
      BY <1>3, RangeIs
    <3>2. m <= m /\ NULL_LOCK <= m
      BY <1>7, ModeLeq, NullMode
    <3>3. Outgrows(n, e) /\ Within(n, m, total[k])
      BY <1>4, <1>8, <3>2 DEF Outgrows, Within
    <3>4. IsTotal(lock_Conv[m][total[k]], (Range(holder[k]) \ {e}) \cup {n})
      BY <1>3, <1>7, <3>1, <3>3, TotalStep
    <3> QED BY <1>4, <3>4
  <2> QED BY <1>1, <1>3, <1>20, <2>1, <2>2 DEF Lists
<1>22. Calm /\ \A u \in Tran : Same(u)
  BY <1>2, ThreadsSame
<1>23. \A u \in Tran : Bystander(u, k)
  <2>1. Entries(k)' = Range(holder'[k]) \cup Range(waiter[k])
    BY <1>20 DEF Entries
  <2>2. \A u \in Tran : Has(u, k) => Has(u, k)'
    BY <1>4, <2>1 DEF Has, Entries
  <2>3. \A u \in Tran : BlockedAt(u, k)' => BlockedAt(u, k)
    BY <1>4, <2>1 DEF BlockedAt, Entries
  <2> QED BY <1>2, <1>22, <2>2, <2>3 DEF Bystander
<1>24. LoopInv(k)'
  <2>1. Settled(k) /\ Stuck(k)
    BY <1>2, <1>3 DEF LoopInv
  <2>2. Stuck(k)'
    BY <1>16, <1>20, <1>22, <2>1, StuckGrows
  <2>3. Settled(k)'
    <3>1. Range(holder'[k]) = (Range(holder[k]) \ {e}) \cup {n}
      BY <1>4
    <3>2. e.tran = n.tran /\ e.granted <= n.granted /\ n.blocked = NULL_LOCK
      BY <1>4, <1>8
    <3> QED BY <1>16, <1>22, <2>1, <3>1, <3>2, SettledGrows
  <2>4. \A u \in Tran : mutex'[k] # u
    BY <1>2, NoneAssumption
  <2> QED BY <2>2, <2>3, <2>4 DEF LoopInv
<1> QED BY <1>19, <1>21, <1>22, <1>23, <1>24, KeyStep

(* An upgrader that has to wait keeps the invariant.                       *)
LEMMA ConvertWaitKeeps ==
    ASSUME Inv, NEW t \in Tran, NEW k \in Key, NEW m \in Request, ConvertWait(t, k, m)
    PROVE  Inv'
<1>1. /\ m \in Mode /\ m # NULL_LOCK /\ holder' \in [Key -> Seq(Entry)]
      /\ HolderList(holder'[k]) /\ \A j \in Key \ {k} : holder'[j] = holder[j]
      /\ \E e \in Range(holder[k]), n \in Entry :
            /\ e.tran = t /\ e.blocked = NULL_LOCK /\ e.granted < m
            /\ n.tran = t /\ n.blocked = m /\ n.granted = e.granted
            /\ Range(holder'[k]) = (Range(holder[k]) \ {e}) \cup {n}
            /\ \E f \in Range(holder[k]) \ {e} :
                  f.tran # t /\ ~lock_Comp[m][f.granted]
  BY ConvertWaitIs
<1>2. /\ th[t].pc = "run" /\ mutex[k] = None
      /\ total' = [total EXCEPT ![k] = lock_Conv[m][total[k]]]
      /\ waiter' = waiter /\ mutex' = mutex /\ Suspend(t, k)
  BY DEF ConvertWait
<1>3. /\ holder[k] \in Seq(Entry) /\ WaiterList(waiter[k])
      /\ Apart(holder[k], waiter[k]) /\ IsTotal(total[k], Range(holder[k]))
      /\ total[k] \in Mode /\ LoopInv(k)
  BY AtKey
<1>4. PICK e \in Range(holder[k]), n \in Entry :
         /\ e.tran = t /\ e.blocked = NULL_LOCK /\ e.granted < m
         /\ n.tran = t /\ n.blocked = m /\ n.granted = e.granted
         /\ Range(holder'[k]) = (Range(holder[k]) \ {e}) \cup {n}
         /\ \E f \in Range(holder[k]) \ {e} :
               f.tran # t /\ ~lock_Comp[m][f.granted]
  BY <1>1
<1>5. th[t].pc \notin Asking /\ th[t].pc \notin Loop
  BY <1>2 DEF Asking, Loop
<1>7. m \in Mode /\ m # NULL_LOCK /\ e \in Entry /\ e.granted \in Mode
  BY <1>1, <1>3, RangeIs, EntryIs
<1>8. e.granted <= m
  <2>1. e.granted < m
    BY <1>4
  <2> QED BY <1>7, <2>1, ModeIs, SMTT(30)
<1>14. /\ waiter \in [Key -> Seq(Entry)]
       /\ total \in [Key -> Mode] /\ mutex \in [Key -> Tran \cup {None}]
       /\ th \in [Tran -> Thread]
  BY DEF Inv, Types
<1>16. /\ holder'[k] \in Seq(Entry) /\ lock_Conv[m][total[k]] \in Mode
       /\ total[k] <= lock_Conv[m][total[k]]
  <2>1. holder'[k] \in Seq(Entry) /\ total[k] \in Mode /\ m \in Mode
    BY <1>1, <1>3 DEF HolderList
  <2> QED BY <2>1, ConvGrows
<1>18. total' \in [Key -> Mode] /\ SetAt(total', total, k, lock_Conv[m][total[k]])
  <2>1. total \in [Key -> Mode] /\ lock_Conv[m][total[k]] \in Mode
    BY <1>14, <1>16
  <2>2. total' = [total EXCEPT ![k] = lock_Conv[m][total[k]]]
    BY <1>2
  <2> QED BY <2>1, <2>2, SetAtIs
<1>19. /\ th' \in [Tran -> Thread]
       /\ th'[t].pc = "susp" /\ th'[t].at = k /\ th'[t].skip = th[t].skip
       /\ th'[t].state = "suspended"
       /\ \A u \in Tran \ {t} : th'[u] = th[u]
  BY <1>2, <1>14, SuspendIs
<1>20. Types' /\ Rest(k)
  BY <1>1, <1>2, <1>14, <1>18, <1>19 DEF Types, Rest, SetAt
<1>21. waiter'[k] = waiter[k] /\ total'[k] = lock_Conv[m][total[k]]
  BY <1>2, <1>18 DEF SetAt
<1>22. Lists(holder'[k], waiter'[k], total'[k])
  <2>1. Apart(holder'[k], waiter[k])
    BY <1>3, <1>4 DEF Apart
  <2>2. IsTotal(lock_Conv[m][total[k]], Range(holder'[k]))
    <3>1. Range(holder[k]) \in SUBSET Entry
      BY <1>3, RangeIs
    <3>2. m <= m /\ NULL_LOCK <= m
      BY <1>7, ModeLeq, NullMode
    <3>3. Outgrows(n, e) /\ Within(n, m, total[k])
      BY <1>4, <1>8, <3>2 DEF Outgrows, Within
    <3>4. IsTotal(lock_Conv[m][total[k]], (Range(holder[k]) \ {e}) \cup {n})
      BY <1>3, <1>7, <3>1, <3>3, TotalStep
    <3> QED BY <1>4, <3>4
  <2> QED BY <1>1, <1>3, <1>21, <2>1, <2>2 DEF Lists
<1>23. Calm /\ \A u \in Tran : u # t => Same(u)
  BY <1>2, <1>19, ThreadMoves
<1>24. /\ \A u : u # t => /\ Has(u, k)' <=> Has(u, k)
                          /\ BlockedAt(u, k)' <=> BlockedAt(u, k)
       /\ Has(t, k)'
  <2>1. Entries(k)' = (Entries(k) \ {e}) \cup {n}
    <3>1. e \notin Range(waiter[k])
      BY <1>3, <1>4 DEF Apart
    <3> QED BY <1>4, <1>21, <3>1 DEF Entries
  <2> QED BY <1>4, <2>1, OwnJoins
<1>25. \A u \in Tran : ThreadInv(u)' \/ Bystander(u, k)
  <2>1. ThreadInv(t)'
    BY <1>2, <1>19, <1>20, <1>24, SuspendKeeps
  <2>2. \A u \in Tran : u # t => Bystander(u, k)
    BY <1>2, <1>23, <1>24 DEF Bystander
  <2> QED BY <2>1, <2>2
<1>26. \A u \in Tran : Same(u) \/ \A j \in Key \ {k} : mutex[j] # u
  BY <1>5, <1>23, NoMutex
<1>27. LoopInv(k)'
  <2>1. Settled(k) /\ Stuck(k)
    BY <1>2, <1>3 DEF LoopInv
  <2>2. Stuck(k)'
    BY <1>16, <1>21, <1>23, <2>1, StuckGrows
  <2>3. Settled(k)'
    <3>1. Range(holder'[k]) = (Range(holder[k]) \ {e}) \cup {n}
      BY <1>4
    <3>2. e.tran = n.tran /\ e.granted <= n.granted
      BY <1>4, <1>7, ModeLeq
    <3>3. PICK f \in Range(holder[k]) \ {e} : f.tran # t /\ ~lock_Comp[m][f.granted]
      BY <1>4
    <3>4. f \in Range(holder'[k]) /\ f.tran # n.tran /\ ~lock_Comp[n.blocked][f.granted]
      BY <1>4, <3>1, <3>3
    <3> QED BY <1>16, <1>23, <2>1, <3>1, <3>2, <3>4, SettledGrows
  <2>4. \A u \in Tran : mutex'[k] # u
    BY <1>2, NoneAssumption
  <2> QED BY <2>2, <2>3, <2>4 DEF LoopInv
<1> QED BY <1>20, <1>22, <1>23, <1>25, <1>26, <1>27, KeyStep

(* What lock_resume and the returns do to a thread entry.                  *)
LEMMA ReturnedIs ==
    ASSUME NEW e \in Thread
    PROVE  /\ Returned(e) \in Thread /\ Returned(e).pc = "run"
           /\ Returned(e).lockwait = e.lockwait /\ Returned(e).skip = 0
BY DEF Returned, Idling, Thread

(* ... or from the release of one of all its locks.                        *)
LEMMA ReturnIs ==
    ASSUME NEW e \in Thread
    PROVE  /\ Return(e) \in Thread /\ Return(e).pc \in {"run", "end"}
           /\ Return(e).lockwait = e.lockwait /\ Return(e).skip = 0
<1>1. PICK r \in Thread : r = Returned(e) /\ r.lockwait = e.lockwait /\ r.skip = 0
  BY ReturnedIs
<1>2. PICK p \in {"run", "end"} : Return(e) = [r EXCEPT !.pc = p]
  BY <1>1 DEF Return
<1>3. /\ Return(e) \in Thread /\ Return(e).pc = p /\ Return(e).lockwait = r.lockwait
      /\ Return(e).skip = r.skip
  BY <1>2, SMTT(30) DEF Thread
<1> QED BY <1>1, <1>3

(* A thread that is resumed goes on where it was, and waits no more.       *)
LEMMA ResumedIs ==
    ASSUME NEW e \in Thread, NEW s \in {"granted", "timeout"}
    PROVE  /\ Resumed(e, s) \in Thread /\ Resumed(e, s).pc = e.pc
           /\ Resumed(e, s).at = e.at /\ Resumed(e, s).skip = e.skip
           /\ Resumed(e, s).lockwait = FALSE /\ Resumed(e, s).state = s
BY DEF Resumed, Thread

(* A thread outside the lock manager, or between the locks it releases.    *)
LEMMA OutsideKeeps ==
    ASSUME NEW t \in Tran, th'[t].pc \in {"run", "end"}, th'[t].skip = 0,
           \A j \in Key : ~BlockedAt(t, j)' /\ mutex'[j] # t
    PROVE  ThreadInv(t)'
<1>1. th'[t].pc \notin Asking /\ th'[t].pc \notin Loop /\ th'[t].pc # "susp"
  BY SMTT(30) DEF Asking, Loop
<1> QED BY <1>1 DEF ThreadInv

(* A thread that gives up or releases its entry at k.                      *)
LEMMA LeavingKeeps ==
    ASSUME NEW t \in Tran, NEW k \in Key, th'[t].pc \in {"giveup", "unlock"},
           th'[t].at = k, th'[t].skip = 0, Has(t, k)',
           \A j \in Key : mutex'[j] # t /\ (BlockedAt(t, j)' => j = k)
    PROVE  ThreadInv(t)'
<1>1. th'[t].pc \in Asking /\ th'[t].pc \notin Loop /\ th'[t].pc # "susp"
  BY SMTT(30) DEF Asking, Loop
<1>2. Has(t, th[t].at)'
  BY DEF Has, Entries
<1> QED BY <1>1, <1>2 DEF ThreadInv

(* Only a granting loop counts the entries it passed.                      *)
LEMMA SkipIsZero ==
    ASSUME Inv, NEW t \in Tran, th[t].pc \notin Loop
    PROVE  th[t].skip = 0
BY DEF Inv, ThreadInv

(* While the lists stay, so do all requests.                               *)
LEMMA ListsSame ==
    ASSUME holder' = holder, waiter' = waiter
    PROVE  \A t, k : /\ Has(t, k)' <=> Has(t, k)
                     /\ BlockedAt(t, k)' <=> BlockedAt(t, k)
BY DEF Has, BlockedAt, Entries

(* The deadlock detection daemon keeps the invariant.                      *)
LEMMA ForceTimeoutKeeps ==
    ASSUME Inv, NEW t \in Tran, ForceTimeout(t)
    PROVE  Inv'
<1>1. PICK u \in Tran : th' = [th EXCEPT ![u] = Resumed(th[u], "timeout")]
  BY DEF ForceTimeout
<1>2. UNCHANGED <<holder, waiter, total, mutex>>
  BY DEF ForceTimeout
<1>3. th \in [Tran -> Thread]
  BY DEF Inv, Types
<1>4. th[u] \in Thread
  BY <1>3, SMTT(30)
<1>5. PICK r \in Thread : /\ r = Resumed(th[u], "timeout") /\ r.pc = th[u].pc
                          /\ r.at = th[u].at /\ r.skip = th[u].skip
                          /\ r.lockwait = FALSE /\ r.state = "timeout"
  BY <1>4, ResumedIs
<1>6. /\ th' \in [Tran -> Thread]
      /\ th'[u] = r /\ \A v \in Tran \ {u} : th'[v] = th[v]
  BY <1>1, <1>3, <1>5, ThreadSet
<1>7. Calm /\ \A v \in Tran : v # u => Same(v)
  BY <1>5, <1>6, ThreadMoves
<1>8. Same(u)
  BY <1>5, <1>6, SMTT(30) DEF Same
<1> QED BY <1>2, <1>6, <1>7, <1>8, ThreadStep

(* The shutdown of the workers keeps the invariant.                        *)
LEMMA StopWakeKeeps ==
    ASSUME Inv, NEW t \in Tran, StopWake(t)
    PROVE  Inv'
<1>1. /\ th' = [th EXCEPT ![t] = [th[t] EXCEPT !.resume = "stop"]]
      /\ UNCHANGED <<holder, waiter, total, mutex>>
  BY DEF StopWake
<1>2. th \in [Tran -> Thread]
  BY DEF Inv, Types
<1>3. th[t] \in Thread
  BY <1>2, SMTT(30)
<1>4. PICK r : r = [th[t] EXCEPT !.resume = "stop"]
  OBVIOUS
<1>5. /\ r \in Thread /\ r.pc = th[t].pc /\ r.at = th[t].at /\ r.skip = th[t].skip
      /\ r.lockwait = th[t].lockwait /\ r.state = th[t].state
  BY <1>3, <1>4, SMTT(30) DEF Thread
<1>6. /\ th' \in [Tran -> Thread]
      /\ th'[t] = r /\ \A v \in Tran \ {t} : th'[v] = th[v]
  BY <1>1, <1>2, <1>4, <1>5, ThreadSet
<1>7. Calm /\ \A v \in Tran : v # t => Same(v)
  BY <1>5, <1>6, ThreadMoves
<1>8. Same(t)
  BY <1>5, <1>6 DEF Same
<1> QED BY <1>1, <1>6, <1>7, <1>8, ThreadStep

(* A thread that wakes keeps the invariant.                                *)
LEMMA WakeKeeps ==
    ASSUME Inv, NEW t \in Tran, Wake(t)
    PROVE  Inv'
<1>1. /\ th[t].pc = "susp" /\ UNCHANGED <<holder, waiter, total, mutex>>
      /\ \/ /\ th[t].state = "granted"
            /\ th' = [th EXCEPT ![t] = Returned(th[t])]
         \/ th' = [th EXCEPT ![t] = [th[t] EXCEPT !.pc = "giveup"]]
  BY DEF Wake
<1>2. th \in [Tran -> Thread] /\ ThreadInv(t)
  BY DEF Inv, Types
<1>3. th[t] \in Thread
  BY <1>2, SMTT(30)
<1>4. th[t].pc \in Asking /\ th[t].pc \notin Loop
  BY <1>1, SMTT(30) DEF Asking, Loop
<1>5. /\ th[t].skip = 0 /\ \A j \in Key : mutex[j] # t
      /\ mutex' = mutex /\ holder' = holder /\ waiter' = waiter
  BY <1>1, <1>4, SkipIsZero, NoMutex, SMTT(30)
<1>6. \A j : /\ Has(t, j)' <=> Has(t, j)
             /\ BlockedAt(t, j)' <=> BlockedAt(t, j)
  BY <1>5, ListsSame
<1>7. CASE th[t].state = "granted" /\ th' = [th EXCEPT ![t] = Returned(th[t])]
  <2>1. PICK r \in Thread : /\ r = Returned(th[t]) /\ r.pc = "run" /\ r.skip = 0
                            /\ r.lockwait = th[t].lockwait
    BY <1>3, ReturnedIs
  <2>2. /\ th' \in [Tran -> Thread]
        /\ th'[t] = r /\ \A v \in Tran \ {t} : th'[v] = th[v]
    BY <1>2, <1>7, <2>1, ThreadSet
  <2>3. Calm /\ \A v \in Tran : v # t => Same(v)
    BY <2>1, <2>2, ThreadMoves
  <2>4. \A j \in Key : ~BlockedAt(t, j)' /\ mutex'[j] # t
    BY <1>1, <1>2, <1>5, <1>6, <1>7 DEF ThreadInv
  <2>5. th'[t].pc \in {"run", "end"} /\ th'[t].skip = 0
    BY <2>1, <2>2
  <2>6. ThreadInv(t)'
    BY <2>4, <2>5, OutsideKeeps
  <2> QED BY <1>1, <1>5, <2>2, <2>3, <2>6, ThreadStep
<1>8. CASE th' = [th EXCEPT ![t] = [th[t] EXCEPT !.pc = "giveup"]]
  <2>1. PICK r : r = [th[t] EXCEPT !.pc = "giveup"]
    OBVIOUS
  <2>2. /\ r \in Thread /\ r.pc = "giveup" /\ r.at = th[t].at /\ r.skip = th[t].skip
        /\ r.lockwait = th[t].lockwait
    BY <1>3, <2>1, SMTT(30) DEF Thread
  <2>3. /\ th' \in [Tran -> Thread]
        /\ th'[t] = r /\ \A v \in Tran \ {t} : th'[v] = th[v]
    BY <1>2, <1>8, <2>1, <2>2, ThreadSet
  <2>4. Calm /\ \A v \in Tran : v # t => Same(v)
    BY <2>2, <2>3, ThreadMoves
  <2>5. PICK k \in Key : k = th[t].at /\ Has(t, k) /\ \A j \in Key : BlockedAt(t, j) => j = k
    BY <1>2, <1>4 DEF ThreadInv
  <2>6. /\ th'[t].pc \in {"giveup", "unlock"} /\ th'[t].at = k /\ th'[t].skip = 0
        /\ Has(t, k)' /\ \A j \in Key : mutex'[j] # t /\ (BlockedAt(t, j)' => j = k)
    BY <1>5, <1>6, <2>2, <2>3, <2>5
  <2>7. ThreadInv(t)'
    BY <2>6, LeavingKeeps
  <2> QED BY <1>1, <1>5, <2>3, <2>4, <2>7, ThreadStep
<1> QED BY <1>1, <1>7, <1>8

(* The end of a transaction keeps the invariant ...                        *)
LEMMA EndTranKeeps ==
    ASSUME Inv, NEW t \in Tran, EndTran(t)
    PROVE  Inv'
<1>1. /\ th[t].pc = "run" /\ UNCHANGED <<holder, waiter, total, mutex>>
      /\ th' = [th EXCEPT ![t] = [th[t] EXCEPT !.pc = "end"]]
  BY DEF EndTran
<1>2. th \in [Tran -> Thread]
  BY DEF Inv, Types
<1>3. th[t] \in Thread
  BY <1>2, SMTT(30)
<1>4. th[t].pc \notin Asking /\ th[t].pc \notin Loop
  BY <1>1, SMTT(30) DEF Asking, Loop
<1>5. /\ th[t].skip = 0 /\ \A j \in Key : mutex[j] # t /\ ~BlockedAt(t, j)
      /\ mutex' = mutex /\ holder' = holder /\ waiter' = waiter
  BY <1>1, <1>4, SkipIsZero, NoMutex, Running, SMTT(30)
<1>6. PICK r : r = [th[t] EXCEPT !.pc = "end"]
  OBVIOUS
<1>7. /\ r \in Thread /\ r.pc = "end" /\ r.skip = th[t].skip
      /\ r.lockwait = th[t].lockwait
  BY <1>3, <1>6, SMTT(30) DEF Thread
<1>8. /\ th' \in [Tran -> Thread]
      /\ th'[t] = r /\ \A v \in Tran \ {t} : th'[v] = th[v]
  BY <1>1, <1>2, <1>6, <1>7, ThreadSet
<1>9. Calm /\ \A v \in Tran : v # t => Same(v)
  BY <1>7, <1>8, ThreadMoves
<1>10. /\ th'[t].pc \in {"run", "end"} /\ th'[t].skip = 0
       /\ \A j \in Key : ~BlockedAt(t, j)' /\ mutex'[j] # t
  BY <1>5, <1>7, <1>8, ListsSame
<1>11. ThreadInv(t)'
  BY <1>10, OutsideKeeps
<1> QED BY <1>1, <1>5, <1>8, <1>9, <1>11, ThreadStep

(* ... and so does each turn of lock_unlock_all.                           *)
LEMMA UnlockAllKeeps ==
    ASSUME Inv, NEW t \in Tran, UnlockAll(t)
    PROVE  Inv'
<1>1. /\ th[t].pc = "end" /\ UNCHANGED <<holder, waiter, total, mutex>>
      /\ \/ \E k \in Key : /\ Holds(t, k)
                           /\ th' = [th EXCEPT ![t] = [th[t] EXCEPT !.pc = "unlock", !.at = k,
                                                                    !.force = TRUE]]
         \/ th' = [th EXCEPT ![t] = Returned(th[t])]
  BY DEF UnlockAll
<1>2. th \in [Tran -> Thread]
  BY DEF Inv, Types
<1>3. th[t] \in Thread
  BY <1>2, SMTT(30)
<1>4. th[t].pc \notin Asking /\ th[t].pc \notin Loop
  BY <1>1 DEF Asking, Loop
<1>5. /\ th[t].skip = 0 /\ \A j \in Key : mutex[j] # t /\ ~BlockedAt(t, j)
      /\ mutex' = mutex /\ holder' = holder /\ waiter' = waiter
  BY <1>1, <1>4, SkipIsZero, NoMutex, Running
<1>6. \A j : /\ Has(t, j)' <=> Has(t, j)
             /\ BlockedAt(t, j)' <=> BlockedAt(t, j)
  BY <1>5, ListsSame
<1>7. CASE th' = [th EXCEPT ![t] = Returned(th[t])]
  <2>1. PICK r \in Thread : /\ r = Returned(th[t]) /\ r.pc = "run" /\ r.skip = 0
                            /\ r.lockwait = th[t].lockwait
    BY <1>3, ReturnedIs
  <2>2. /\ th' \in [Tran -> Thread]
        /\ th'[t] = r /\ \A v \in Tran \ {t} : th'[v] = th[v]
    BY <1>2, <1>7, <2>1, ThreadSet
  <2>3. Calm /\ \A v \in Tran : v # t => Same(v)
    BY <2>1, <2>2, ThreadMoves
  <2>4. \A j \in Key : ~BlockedAt(t, j)' /\ mutex'[j] # t
    BY <1>5, <1>6
  <2>5. th'[t].pc \in {"run", "end"} /\ th'[t].skip = 0
    BY <2>1, <2>2
  <2>6. ThreadInv(t)'
    BY <2>4, <2>5, OutsideKeeps
  <2> QED BY <1>1, <1>5, <2>2, <2>3, <2>6, ThreadStep
<1>8. ASSUME NEW k \in Key, Holds(t, k),
             th' = [th EXCEPT ![t] = [th[t] EXCEPT !.pc = "unlock", !.at = k, !.force = TRUE]]
      PROVE  Inv'
  <2>1. PICK r : r = [th[t] EXCEPT !.pc = "unlock", !.at = k, !.force = TRUE]
    OBVIOUS
  <2>2. /\ r \in Thread /\ r.pc = "unlock" /\ r.at = k /\ r.skip = th[t].skip
        /\ r.lockwait = th[t].lockwait
    BY <1>3, <2>1 DEF Thread
  <2>3. /\ th' \in [Tran -> Thread]
        /\ th'[t] = r /\ \A v \in Tran \ {t} : th'[v] = th[v]
    BY <1>2, <1>8, <2>1, <2>2, ThreadSet
  <2>4. Calm /\ \A v \in Tran : v # t => Same(v)
    BY <2>2, <2>3, ThreadMoves
  <2>5. Has(t, k)
    <3>1. holder[k] \in Seq(Entry) /\ IndexOf(holder[k], t) # 0
      BY <1>8, AtKey DEF Holds
    <3>2. \E e \in Range(holder[k]) : e.tran = t
      <4>1. PICK i : i = IndexOf(holder[k], t)
        OBVIOUS
      <4>2. holder[k][i] \in Range(holder[k]) /\ holder[k][i].tran = t
        BY <3>1, <4>1, Present
      <4> QED BY <4>2
    <3> QED BY <3>2 DEF Has, Entries
  <2>6. /\ th'[t].pc \in {"giveup", "unlock"} /\ th'[t].at = k /\ th'[t].skip = 0
        /\ Has(t, k)' /\ \A j \in Key : mutex'[j] # t /\ (BlockedAt(t, j)' => j = k)
    BY <1>5, <1>6, <2>2, <2>3, <2>5
  <2>7. ThreadInv(t)'
    BY <2>6, LeavingKeeps
  <2> QED BY <1>1, <1>5, <2>3, <2>4, <2>7, ThreadStep
<1> QED BY <1>1, <1>7, <1>8

(* count--, and the early return.                                          *)
LEMMA DecrementIs ==
    ASSUME th \in [Tran -> Thread], NEW t \in Tran, NEW k \in Key, NEW s, NEW i,
           Decrement(t, k, s, i)
    PROVE  /\ th' \in [Tran -> Thread] /\ \A v \in Tran \ {t} : th'[v] = th[v]
           /\ s[i].count > 0 /\ th'[t].lockwait = th[t].lockwait
           /\ \/ s[i].blocked = NULL_LOCK /\ th'[t].pc = "run" /\ th'[t].skip = 0
              \/ th'[t].pc = "unlock" /\ th'[t].at = k /\ th'[t].skip = th[t].skip
<1>1. /\ s[i].count > 0
      /\ \/ s[i].blocked = NULL_LOCK /\ th' = [th EXCEPT ![t] = Returned(th[t])]
         \/ th' = [th EXCEPT ![t] = [th[t] EXCEPT !.pc = "unlock", !.at = k, !.force = FALSE]]
  BY DEF Decrement
<1>2. th[t] \in Thread
  BY SMTT(30)
<1>3. CASE s[i].blocked = NULL_LOCK /\ th' = [th EXCEPT ![t] = Returned(th[t])]
  <2>1. PICK r \in Thread : /\ r = Returned(th[t]) /\ r.pc = "run" /\ r.skip = 0
                            /\ r.lockwait = th[t].lockwait
    BY <1>2, ReturnedIs
  <2>2. /\ th' \in [Tran -> Thread]
        /\ th'[t] = r /\ \A v \in Tran \ {t} : th'[v] = th[v]
    BY <1>3, <2>1, ThreadSet
  <2> QED BY <1>1, <1>3, <2>1, <2>2
<1>4. CASE th' = [th EXCEPT ![t] = [th[t] EXCEPT !.pc = "unlock", !.at = k, !.force = FALSE]]
  <2>1. PICK r : r = [th[t] EXCEPT !.pc = "unlock", !.at = k, !.force = FALSE]
    OBVIOUS
  <2>2. /\ r \in Thread /\ r.pc = "unlock" /\ r.at = k /\ r.skip = th[t].skip
        /\ r.lockwait = th[t].lockwait
    BY <1>2, <2>1 DEF Thread
  <2>3. /\ th' \in [Tran -> Thread]
        /\ th'[t] = r /\ \A v \in Tran \ {t} : th'[v] = th[v]
    BY <1>4, <2>1, <2>2, ThreadSet
  <2> QED BY <1>1, <2>2, <2>3
<1> QED BY <1>1, <1>3, <1>4

(* t lowers the count of its entry e at k.                                 *)
LEMMA DecrementStep ==
    ASSUME Inv, Types', NEW t \in Tran, NEW k \in Key, Rest(k),
           total' = total, mutex' = mutex,
           HolderList(holder'[k]), WaiterList(waiter'[k]),
           Alike(holder[k], holder'[k]), Alike(waiter[k], waiter'[k]),
           th[t].pc \notin Loop, \A j \in Key \ {k} : ~BlockedAt(t, j),
           NEW e \in Entries(k), e.tran = t,
           \A v \in Tran \ {t} : th'[v] = th[v], th'[t].lockwait = th[t].lockwait,
           \/ e.blocked = NULL_LOCK /\ th'[t].pc = "run" /\ th'[t].skip = 0
           \/ th'[t].pc = "unlock" /\ th'[t].at = k /\ th'[t].skip = th[t].skip
    PROVE  Inv'
<1>1. th[t].skip = 0 /\ (\A j \in Key : mutex[j] # t) /\ \A j \in Key : mutex'[j] # t
  BY SkipIsZero, NoMutex
<1>2. Calm /\ \A v \in Tran : v # t => Same(v)
  BY ThreadMoves
<1>3. /\ Has(t, k)' <=> Has(t, k)
      /\ BlockedAt(t, k)' <=> BlockedAt(t, k)
  <2>1. holder[k] \in Seq(Entry) /\ waiter[k] \in Seq(Entry)
    BY AtKey
  <2>2. holder'[k] \in Seq(Entry) /\ waiter'[k] \in Seq(Entry)
    BY DEF HolderList, WaiterList
  <2> QED BY <2>1, <2>2, AlikeEntries
<1>4. \A j \in Key \ {k} : ~BlockedAt(t, j)'
  BY RestKept
<1>5. ThreadInv(t)'
  <2>1. CASE e.blocked = NULL_LOCK /\ th'[t].pc = "run" /\ th'[t].skip = 0
    <3>1. ~BlockedAt(t, k)
      <4>1. ASSUME NEW f \in Entries(k), f.tran = t PROVE f.blocked = NULL_LOCK
        <5>1. f = e
          BY <4>1, OneEntry
        <5> QED BY <2>1, <5>1
      <4> QED BY <4>1 DEF BlockedAt
    <3>2. th'[t].pc \in {"run", "end"} /\ \A j \in Key : ~BlockedAt(t, j)' /\ mutex'[j] # t
      BY <1>1, <1>3, <1>4, <2>1, <3>1
    <3> QED BY <2>1, <3>2, OutsideKeeps
  <2>2. CASE th'[t].pc = "unlock" /\ th'[t].at = k /\ th'[t].skip = th[t].skip
    <3>1. Has(t, k)'
      BY <1>3 DEF Has
    <3>2. /\ th'[t].pc \in {"giveup", "unlock"} /\ th'[t].skip = 0
          /\ \A j \in Key : mutex'[j] # t /\ (BlockedAt(t, j)' => j = k)
      BY <1>1, <1>4, <2>2
    <3> QED BY <2>2, <3>1, <3>2, LeavingKeeps
  <2> QED BY <2>1, <2>2
<1>6. \A u \in Tran : \/ Same(u)
                      \/ ThreadInv(u)' /\ \A j \in Key : mutex[j] # u
  BY <1>1, <1>2, <1>5
<1> QED BY <1>2, <1>6, CountStep

(* lock_unlock_object keeps the invariant.                                 *)
LEMMA UnlockKeeps ==
    ASSUME Inv, NEW t \in Tran, NEW k \in Key, Unlock(t, k)
    PROVE  Inv'
<1>1. PICK i : i = IndexOf(holder[k], t)
  OBVIOUS
<1>2. /\ th[t].pc = "run" /\ i # 0 /\ Decrement(t, k, holder[k], i)
      /\ waiter' = waiter /\ total' = total /\ mutex' = mutex
  BY <1>1, SMTT(30) DEF Unlock, Holds
<1>3. holder' = [holder EXCEPT ![k][i].count = holder[k][i].count - 1]
  BY <1>1 DEF Unlock
<1>4. holder[k] \in Seq(Entry) /\ waiter[k] \in Seq(Entry) /\ WaiterList(waiter[k])
  BY AtKey
<1>5. /\ i \in 1 .. Len(holder[k]) /\ holder[k][i] \in Range(holder[k])
      /\ holder[k][i] \in Entry /\ holder[k][i].tran = t
  BY <1>1, <1>2, <1>4, Present
<1>6. th \in [Tran -> Thread]
  BY DEF Inv, Types
<1>7. /\ th' \in [Tran -> Thread] /\ \A v \in Tran \ {t} : th'[v] = th[v]
      /\ holder[k][i].count > 0 /\ th'[t].lockwait = th[t].lockwait
      /\ \/ holder[k][i].blocked = NULL_LOCK /\ th'[t].pc = "run" /\ th'[t].skip = 0
         \/ th'[t].pc = "unlock" /\ th'[t].at = k /\ th'[t].skip = th[t].skip
  BY <1>2, <1>6, DecrementIs
<1>8. holder[k][i].count - 1 \in 0 .. MaxCount
  <2>1. holder[k][i].count \in 0 .. MaxCount
    BY <1>5, EntryIs
  <2> QED BY <1>7, <2>1, CountAssumption, SMTT(30)
<1>9. /\ holder' \in [Key -> Seq(Entry)] /\ HolderList(holder'[k])
      /\ Alike(holder[k], holder'[k])
      /\ \A j \in Key \ {k} : holder'[j] = holder[j]
  BY <1>3, <1>5, <1>8, HolderCount
<1>10. Types' /\ Rest(k)
  BY <1>2, <1>7, <1>9 DEF Inv, Types, Rest
<1>11. WaiterList(waiter'[k]) /\ Alike(waiter[k], waiter'[k])
  BY <1>2, <1>4, AlikeSelf
<1>12. th[t].pc \notin Loop /\ \A j \in Key \ {k} : ~BlockedAt(t, j)
  <2>1. th[t].pc \notin Loop /\ th[t].pc \notin Asking
    BY <1>2, SMTT(30) DEF Loop, Asking
  <2> QED BY <2>1, Running
<1>13. holder[k][i] \in Entries(k)
  BY <1>5 DEF Entries
<1> QED BY <1>2, <1>5, <1>7, <1>9, <1>10, <1>11, <1>12, <1>13, DecrementStep

(* A transaction that withdraws its request keeps the invariant.           *)
LEMMA GiveUpKeeps ==
    ASSUME Inv, NEW t \in Tran, GiveUp(t)
    PROVE  Inv'
<1>0. PICK k : k = th[t].at
  OBVIOUS
<1>1. /\ th[t].pc = "giveup" /\ total' = total /\ mutex' = mutex
      /\ \/ /\ IndexOf(holder[k], t) # 0
            /\ Decrement(t, k, holder[k], IndexOf(holder[k], t))
            /\ holder' = [holder EXCEPT ![k][IndexOf(holder[k], t)].count = @ - 1]
            /\ waiter' = waiter
         \/ /\ IndexOf(waiter[k], t) # 0
            /\ Decrement(t, k, waiter[k], IndexOf(waiter[k], t))
            /\ waiter' = [waiter EXCEPT ![k][IndexOf(waiter[k], t)].count = @ - 1]
            /\ holder' = holder
  BY <1>0 DEF GiveUp
<1>2. th[t].pc \in Asking /\ th[t].pc \notin Loop
  BY <1>1 DEF Asking, Loop
<1>3. k \in Key /\ \A j \in Key \ {k} : ~BlockedAt(t, j)
  BY <1>0, <1>2 DEF Inv, ThreadInv
<1>4. /\ holder[k] \in Seq(Entry) /\ waiter[k] \in Seq(Entry)
      /\ WaiterList(waiter[k]) /\ HolderList(holder[k])
  BY <1>3, AtKey
<1>5. th \in [Tran -> Thread]
  BY DEF Inv, Types
<1>6. ASSUME NEW i, i = IndexOf(holder[k], t), i # 0, Decrement(t, k, holder[k], i),
             holder' = [holder EXCEPT ![k][i].count = holder[k][i].count - 1], waiter' = waiter
      PROVE  Inv'
  <2>1. /\ i \in 1 .. Len(holder[k]) /\ holder[k][i] \in Range(holder[k])
        /\ holder[k][i] \in Entry /\ holder[k][i].tran = t
    BY <1>4, <1>6, Present
  <2>2. /\ th' \in [Tran -> Thread] /\ \A v \in Tran \ {t} : th'[v] = th[v]
        /\ holder[k][i].count > 0 /\ th'[t].lockwait = th[t].lockwait
        /\ \/ holder[k][i].blocked = NULL_LOCK /\ th'[t].pc = "run" /\ th'[t].skip = 0
           \/ th'[t].pc = "unlock" /\ th'[t].at = k /\ th'[t].skip = th[t].skip
    BY <1>3, <1>5, <1>6, DecrementIs
  <2>3. holder[k][i].count - 1 \in 0 .. MaxCount
    <3>1. holder[k][i].count \in 0 .. MaxCount
      BY <2>1, EntryIs
    <3> QED BY <2>2, <3>1, CountAssumption, SMTT(30)
  <2>4. /\ holder' \in [Key -> Seq(Entry)] /\ HolderList(holder'[k])
        /\ Alike(holder[k], holder'[k])
        /\ \A j \in Key \ {k} : holder'[j] = holder[j]
    BY <1>3, <1>6, <2>1, <2>3, HolderCount
  <2>5. Types' /\ Rest(k)
    BY <1>1, <1>6, <2>2, <2>4 DEF Inv, Types, Rest
  <2>6. WaiterList(waiter'[k]) /\ Alike(waiter[k], waiter'[k])
    BY <1>4, <1>6, AlikeSelf
  <2>7. holder[k][i] \in Entries(k)
    BY <2>1 DEF Entries
  <2> QED BY <1>1, <1>2, <1>3, <2>1, <2>2, <2>4, <2>5, <2>6, <2>7, DecrementStep
<1>7. ASSUME NEW i, i = IndexOf(waiter[k], t), i # 0, Decrement(t, k, waiter[k], i),
             waiter' = [waiter EXCEPT ![k][i].count = waiter[k][i].count - 1], holder' = holder
      PROVE  Inv'
  <2>1. /\ i \in 1 .. Len(waiter[k]) /\ waiter[k][i] \in Range(waiter[k])
        /\ waiter[k][i] \in Entry /\ waiter[k][i].tran = t
    BY <1>4, <1>7, Present
  <2>2. /\ th' \in [Tran -> Thread] /\ \A v \in Tran \ {t} : th'[v] = th[v]
        /\ waiter[k][i].count > 0 /\ th'[t].lockwait = th[t].lockwait
        /\ \/ waiter[k][i].blocked = NULL_LOCK /\ th'[t].pc = "run" /\ th'[t].skip = 0
           \/ th'[t].pc = "unlock" /\ th'[t].at = k /\ th'[t].skip = th[t].skip
    BY <1>3, <1>5, <1>7, DecrementIs
  <2>3. waiter[k][i].count - 1 \in 0 .. MaxCount
    <3>1. waiter[k][i].count \in 0 .. MaxCount
      BY <2>1, EntryIs
    <3> QED BY <2>2, <3>1, CountAssumption, SMTT(30)
  <2>4. /\ waiter' \in [Key -> Seq(Entry)] /\ WaiterList(waiter'[k])
        /\ Alike(waiter[k], waiter'[k])
        /\ \A j \in Key \ {k} : waiter'[j] = waiter[j]
    BY <1>3, <1>7, <2>1, <2>3, WaiterCount
  <2>5. Types' /\ Rest(k)
    BY <1>1, <1>7, <2>2, <2>4 DEF Inv, Types, Rest
  <2>6. HolderList(holder'[k]) /\ Alike(holder[k], holder'[k])
    BY <1>4, <1>7, AlikeSelf
  <2>7. waiter[k][i] \in Entries(k)
    BY <2>1 DEF Entries
  <2> QED BY <1>1, <1>2, <1>3, <2>1, <2>2, <2>4, <2>5, <2>6, <2>7, DecrementStep
<1> QED BY <1>1, <1>6, <1>7

(* A thread that runs a granting loop at k.                                *)
LEMMA GrantingKeeps ==
    ASSUME NEW t \in Tran, NEW k \in Key, th'[t].pc \in Loop, th'[t].at = k,
           mutex'[k] = t, \A j \in Key \ {k} : mutex'[j] # t,
           \A j \in Key : ~BlockedAt(t, j)'
    PROVE  ThreadInv(t)'
<1>1. th'[t].pc \notin Asking /\ th'[t].pc # "susp"
  BY SMTT(30) DEF Loop, Asking
<1> QED BY <1>1 DEF ThreadInv

(* A step of the thread that keeps res_mutex, or takes or leaves it.       *)
LEMMA OwnerStep ==
    ASSUME Inv, Types', NEW t \in Tran, NEW k \in Key, Rest(k),
           Lists(holder'[k], waiter'[k], total'[k]),
           mutex[k] \in {None, t}, mutex'[k] \in {None, t},
           \A j \in Key \ {k} : mutex[j] # t /\ ~BlockedAt(t, j),
           \A v \in Tran \ {t} : th'[v] = th[v], th'[t].lockwait = th[t].lockwait,
           ~BlockedAt(t, k)',
           \A u : u # t => /\ Has(u, k)' <=> Has(u, k)
                           /\ BlockedAt(u, k)' <=> BlockedAt(u, k),
           \/ /\ mutex'[k] = None /\ Settled(k)' /\ Stuck(k)'
              /\ th'[t].pc \in {"run", "end"} /\ th'[t].skip = 0
           \/ /\ mutex'[k] = t /\ OwnerInv(t, k)'
              /\ th'[t].pc \in Loop /\ th'[t].at = k
    PROVE  Inv'
<1>1. Calm /\ \A v \in Tran : v # t => Same(v)
  BY ThreadMoves
<1>2. ASSUME NEW j \in Key \ {k} PROVE ~BlockedAt(t, j)' /\ mutex'[j] # t
  BY RestKept
<1>3. \A j \in Key : ~BlockedAt(t, j)'
  BY <1>2
<1>4. ASSUME mutex'[k] = None, Settled(k)', Stuck(k)',
             th'[t].pc \in {"run", "end"}, th'[t].skip = 0
      PROVE  ThreadInv(t)' /\ LoopInv(k)'
  <2>1. \A j \in Key : ~BlockedAt(t, j)' /\ mutex'[j] # t
    BY <1>2, <1>3, <1>4, NoneAssumption
  <2>2. ThreadInv(t)'
    BY <1>4, <2>1, OutsideKeeps
  <2>3. LoopInv(k)'
    BY <1>4, NoneAssumption DEF LoopInv
  <2> QED BY <2>2, <2>3
<1>5. ASSUME mutex'[k] = t, OwnerInv(t, k)',
             th'[t].pc \in Loop, th'[t].at = k
      PROVE  ThreadInv(t)' /\ LoopInv(k)'
  <2>1. ThreadInv(t)'
    BY <1>2, <1>3, <1>5, GrantingKeeps
  <2>2. LoopInv(k)'
    BY <1>5, NoneAssumption DEF LoopInv
  <2> QED BY <2>1, <2>2
<1>6. ThreadInv(t)' /\ LoopInv(k)'
  BY <1>4, <1>5
<1>7. ASSUME NEW u \in Tran, u # t PROVE Bystander(u, k)
  <2>1. mutex[k] # u /\ mutex'[k] # u
    BY <1>7, NoneAssumption
  <2> QED BY <1>1, <1>7, <2>1 DEF Bystander
<1>8. \A u \in Tran : ThreadInv(u)' \/ Bystander(u, k)
  BY <1>6, <1>7
<1>9. \A u \in Tran : Same(u) \/ \A j \in Key \ {k} : mutex[j] # u
  BY <1>1
<1> QED BY <1>1, <1>6, <1>8, <1>9, KeyStep

(* The thread has changed the holders and goes on to the granting loops ...*)
LEMMA LoopStarts ==
    ASSUME NEW e \in Thread
    PROVE  /\ [e EXCEPT !.pc = "holders"] \in Thread
           /\ [e EXCEPT !.pc = "holders"].pc = "holders"
           /\ [e EXCEPT !.pc = "holders"].at = e.at
           /\ [e EXCEPT !.pc = "holders"].skip = e.skip
           /\ [e EXCEPT !.pc = "holders"].lockwait = e.lockwait
BY DEF Thread

(* ... or the waiters, and goes on behind the n-th.                        *)
Behind(e, n) == [e EXCEPT !.pc = "partial", !.skip = n]

(* It passes nothing else by.                                              *)
LEMMA BehindIs ==
    ASSUME NEW e \in Thread, NEW n \in Nat
    PROVE  /\ Behind(e, n) \in Thread /\ Behind(e, n).pc = "partial"
           /\ Behind(e, n).at = e.at /\ Behind(e, n).skip = n
           /\ Behind(e, n).lockwait = e.lockwait
BY DEF Thread, Behind

(* The holders without the entry of t, or with it freed.                   *)
LEMMA HolderUnlocks ==
    ASSUME NEW s, HolderList(s), NEW i \in 1 .. Len(s), NEW r,
           r = RemoveAt(s, i) \/ r = Position(RemoveAt(s, i), Freed(s[i]))
    PROVE  /\ HolderList(r)
           /\ \A f \in Range(r) : f \in Range(s) \ {s[i]} \/ f = Freed(s[i])
           /\ \A f \in Range(s) \ {s[i]} : f \in Range(r)
<1>1. /\ HolderList(RemoveAt(s, i))
      /\ Range(RemoveAt(s, i)) = Range(s) \ {s[i]}
      /\ \A e \in Range(RemoveAt(s, i)) : e.tran # s[i].tran
  BY HolderLeaves
<1>2. s \in Seq(Entry) /\ \A e \in Range(s) : HolderEntry(e)
  BY DEF HolderList
<1>3. s[i] \in Entry /\ s[i] \in Range(s) /\ HolderEntry(s[i])
  BY <1>2, RangeIs
<1>4. /\ Freed(s[i]) \in Entry /\ Freed(s[i]).tran = s[i].tran
      /\ Freed(s[i]).granted = s[i].granted /\ Freed(s[i]).blocked = NULL_LOCK
  BY <1>3, FreedIs
<1>5. HolderEntry(Freed(s[i]))
  BY <1>3, <1>4 DEF HolderEntry
<1>6. /\ HolderList(Position(RemoveAt(s, i), Freed(s[i])))
      /\ Range(Position(RemoveAt(s, i), Freed(s[i]))) = Range(RemoveAt(s, i)) \cup {Freed(s[i])}
  <2>1. \A f \in Range(RemoveAt(s, i)) : f.tran # Freed(s[i]).tran
    BY <1>1, <1>4
  <2> QED BY <1>1, <1>4, <1>5, <2>1, PositionIs
<1> QED BY <1>1, <1>6

(* The entries of the others when only those of t change.                  *)
LEMMA OthersSame ==
    ASSUME NEW t, NEW k \in Key,
           \A f : f.tran # t => (f \in Entries(k)' <=> f \in Entries(k))
    PROVE  \A u : u # t => /\ Has(u, k)' <=> Has(u, k)
                           /\ BlockedAt(u, k)' <=> BlockedAt(u, k)
BY DEF Has, BlockedAt

(* The entry of a holder goes, or stays with the mode it had.              *)
LEMMA RemoveHolderKeeps ==
    ASSUME Inv, NEW t \in Tran, RemoveHolder(t)
    PROVE  Inv'
<1>0. PICK k : k = th[t].at
  OBVIOUS
<1>1. PICK i : i = IndexOf(holder[k], t)
  OBVIOUS
<1>2. PICK r :
        /\ r = RemoveAt(holder[k], i) \/ r = Position(RemoveAt(holder[k], i), Freed(holder[k][i]))
        /\ th[t].pc = "unlock" /\ mutex[k] = None /\ i # 0 /\ waiter' = waiter
        /\ holder' = [holder EXCEPT ![k] = r]
        /\ total' = [total EXCEPT ![k] = TotalHolders(r)]
        /\ \/ /\ Idle(r, k)
              /\ mutex' = [mutex EXCEPT ![k] = None]
              /\ th' = [th EXCEPT ![t] = Return(th[t])]
           \/ /\ mutex' = [mutex EXCEPT ![k] = t]
              /\ th' = [th EXCEPT ![t] = [th[t] EXCEPT !.pc = "holders"]]
  BY <1>0, <1>1 DEF RemoveHolder, TotalAfter, Freed
<1>3. th[t].pc \in Asking /\ th[t].pc \notin Loop
  BY <1>2 DEF Asking, Loop
<1>4. k \in Key /\ \A j \in Key \ {k} : ~BlockedAt(t, j)
  BY <1>0, <1>3 DEF Inv, ThreadInv
<1>5. /\ holder[k] \in Seq(Entry) /\ HolderList(holder[k])
      /\ WaiterList(waiter[k]) /\ Apart(holder[k], waiter[k])
  BY <1>4, AtKey
<1>6. i \in 1 .. Len(holder[k]) /\ holder[k][i] \in Entry /\ holder[k][i].tran = t
  <2>1. i # 0
    BY <1>2
  <2> QED BY <1>1, <1>5, <2>1, Present
<1>7. PICK e \in Entry : e = holder[k][i] /\ e.tran = t /\ e \in Range(holder[k])
  BY <1>5, <1>6, RangeIs
<1>8. /\ HolderList(r)
      /\ \A f \in Range(r) : f \in Range(holder[k]) \ {e} \/ f = Freed(e)
      /\ \A f \in Range(holder[k]) \ {e} : f \in Range(r)
  <2>1. r = RemoveAt(holder[k], i) \/ r = Position(RemoveAt(holder[k], i), Freed(holder[k][i]))
    BY <1>2
  <2> QED BY <1>5, <1>6, <1>7, <2>1, HolderUnlocks
<1>9. Freed(e) \in Entry /\ Freed(e).tran = t /\ Freed(e).blocked = NULL_LOCK
  BY <1>7, FreedIs
<1>10. r \in Seq(Entry)
  BY <1>8 DEF HolderList
<1>11. IsTotal(TotalHolders(r), Range(r)) /\ TotalHolders(r) \in Mode
  BY <1>10, TotalIs DEF IsTotal
<1>12. Types
  BY DEF Inv
<1>13. /\ holder' \in [Key -> Seq(Entry)] /\ SetAt(holder', holder, k, r)
       /\ total' \in [Key -> Mode] /\ SetAt(total', total, k, TotalHolders(r))
  <2>1. holder \in [Key -> Seq(Entry)] /\ total \in [Key -> Mode]
    BY <1>12 DEF Types
  <2>2. [holder EXCEPT ![k] = r] \in [Key -> Seq(Entry)] /\ SetAt([holder EXCEPT ![k] = r], holder, k, r)
    BY <1>4, <1>10, <2>1, SetAtIs
  <2>3. /\ [total EXCEPT ![k] = TotalHolders(r)] \in [Key -> Mode]
        /\ SetAt([total EXCEPT ![k] = TotalHolders(r)], total, k, TotalHolders(r))
    BY <1>4, <1>11, <2>1, SetAtIs
  <2> QED BY <1>2, <2>2, <2>3
<1>14. PICK x \in {None, t}, p \in Thread :
          /\ mutex' = [mutex EXCEPT ![k] = x] /\ th' = [th EXCEPT ![t] = p]
          /\ p.lockwait = th[t].lockwait /\ p.skip = 0
          /\ \/ x = None /\ Idle(r, k) /\ p.pc \in {"run", "end"}
             \/ x = t /\ p.pc = "holders" /\ p.at = k
  <2>1. th[t] \in Thread
    BY <1>12 DEF Types
  <2>2. th[t].skip = 0
    BY <1>3, SkipIsZero
  <2>3. PICK q \in Thread : /\ q = Return(th[t]) /\ q.pc \in {"run", "end"}
                            /\ q.lockwait = th[t].lockwait /\ q.skip = 0
    BY <2>1, ReturnIs
  <2>4. PICK q1 \in Thread : /\ q1 = [th[t] EXCEPT !.pc = "holders"] /\ q1.pc = "holders"
                             /\ q1.at = k /\ q1.skip = 0 /\ q1.lockwait = th[t].lockwait
    BY <1>0, <2>1, <2>2, LoopStarts
  <2>5. \/ /\ Idle(r, k) /\ mutex' = [mutex EXCEPT ![k] = None]
           /\ th' = [th EXCEPT ![t] = q]
        \/ /\ mutex' = [mutex EXCEPT ![k] = t]
           /\ th' = [th EXCEPT ![t] = q1]
    BY <1>2, <2>3, <2>4
  <2> QED BY <2>3, <2>4, <2>5
<1>15. /\ mutex' \in [Key -> Tran \cup {None}] /\ SetAt(mutex', mutex, k, x)
       /\ th' \in [Tran -> Thread]
       /\ th'[t] = p /\ \A v \in Tran \ {t} : th'[v] = th[v]
  <2>1. mutex \in [Key -> Tran \cup {None}] /\ th \in [Tran -> Thread] /\ x \in Tran \cup {None}
    BY <1>12 DEF Types
  <2>2. mutex' = [mutex EXCEPT ![k] = x] /\ th' = [th EXCEPT ![t] = p]
    BY <1>14
  <2>3. /\ [mutex EXCEPT ![k] = x] \in [Key -> Tran \cup {None}]
        /\ SetAt([mutex EXCEPT ![k] = x], mutex, k, x)
    BY <1>4, <2>1, SetAtIs
  <2>4. /\ th' \in [Tran -> Thread]
        /\ th'[t] = p /\ \A v \in Tran \ {t} : th'[v] = th[v]
    BY <2>1, <2>2, ThreadSet
  <2> QED BY <2>2, <2>3, <2>4
<1>16. /\ holder'[k] = r /\ waiter'[k] = waiter[k] /\ mutex'[k] = x
       /\ total'[k] = TotalHolders(r) /\ waiter' = waiter
  BY <1>2, <1>13, <1>15 DEF SetAt
<1>17. Types' /\ Rest(k)
  <2>1. waiter' = waiter
    BY <1>16
  <2> QED BY <1>12, <1>13, <1>15, <2>1 DEF Types, Rest, SetAt
<1>18. Lists(holder'[k], waiter'[k], total'[k])
  <2>1. ASSUME NEW f \in Range(r), NEW g \in Range(waiter[k]) PROVE f.tran # g.tran
    <3>1. t # g.tran
      BY <1>5, <1>7 DEF Apart
    <3>2. f \in Range(holder[k]) => f.tran # g.tran
      BY <1>5 DEF Apart
    <3> QED BY <1>8, <1>9, <3>1, <3>2
  <2>2. Apart(r, waiter[k])
    BY <2>1 DEF Apart
  <2> QED BY <1>5, <1>8, <1>11, <1>16, <2>2 DEF Lists
<1>19. Entries(k)' = Range(r) \cup Range(waiter[k])
  BY <1>16 DEF Entries
<1>20. ~BlockedAt(t, k)'
  <2>1. ASSUME NEW f \in Range(r), f.tran = t PROVE f.blocked = NULL_LOCK
    <3>1. CASE f = Freed(e)
      BY <1>9, <3>1
    <3>2. CASE f \in Range(holder[k]) /\ f # e
      <4>1. f \in Entries(k) /\ e \in Entries(k) /\ f.tran = e.tran
        BY <1>7, <2>1, <3>2 DEF Entries
      <4> QED BY <1>4, <3>2, <4>1, OneEntry
    <3> QED BY <1>8, <3>1, <3>2
  <2>2. ASSUME NEW f \in Range(waiter[k]) PROVE f.tran # t
    BY <1>5, <1>7 DEF Apart
  <2> QED BY <1>19, <2>1, <2>2 DEF BlockedAt
<1>21. \A u : u # t => /\ Has(u, k)' <=> Has(u, k)
                       /\ BlockedAt(u, k)' <=> BlockedAt(u, k)
  <2>1. \A f : f.tran # t => (f \in Entries(k)' <=> f \in Entries(k))
    BY <1>7, <1>8, <1>9, <1>19 DEF Entries
  <2> QED BY <1>4, <2>1, OthersSame
<1>22. \A j \in Key \ {k} : mutex[j] # t
  BY <1>3, NoMutex
<1>23. \/ /\ mutex'[k] = None /\ Settled(k)' /\ Stuck(k)'
          /\ th'[t].pc \in {"run", "end"} /\ th'[t].skip = 0
       \/ /\ mutex'[k] = t /\ OwnerInv(t, k)'
          /\ th'[t].pc \in Loop /\ th'[t].at = k
  <2>1. CASE x = None /\ Idle(r, k) /\ p.pc \in {"run", "end"}
    <3>1. holder'[k] = <<>> /\ waiter'[k] = <<>>
      BY <1>16, <2>1 DEF Idle
    <3>2. Range(holder'[k]) = {}
      BY <3>1, SMTT(30) DEF Range
    <3>3. Settled(k)' /\ Stuck(k)'
      BY <3>1, <3>2 DEF Settled, Stuck
    <3> QED BY <1>14, <1>15, <1>16, <2>1, <3>3
  <2>2. CASE x = t /\ p.pc = "holders" /\ p.at = k
    <3>1. th'[t].skip = 0 /\ th'[t].pc = "holders" /\ th'[t].at = k /\ mutex'[k] = t
      BY <1>14, <1>15, <1>16, <2>2
    <3>2. 0 <= Len(r) /\ 1 .. 0 = {}
      BY <1>10, SMTT(30)
    <3>3. PassedHolders(k, 0)'
      BY <1>16, <3>2 DEF PassedHolders
    <3>4. /\ th'[t].pc # "waiters" /\ th'[t].pc # "partial" /\ th'[t].pc \in Loop
      BY <3>1 DEF Loop
    <3>5. OwnerInv(t, k)'
      BY <3>1, <3>3, <3>4 DEF OwnerInv, PassedHolders
    <3> QED BY <3>1, <3>4, <3>5
  <2> QED BY <1>14, <2>1, <2>2
<1>24. /\ mutex[k] \in {None, t} /\ mutex'[k] \in {None, t}
       /\ th'[t].lockwait = th[t].lockwait
  BY <1>2, <1>14, <1>15, <1>16
<1>25. \A j \in Key \ {k} : mutex[j] # t /\ ~BlockedAt(t, j)
  BY <1>4, <1>22
<1> QED BY <1>4, <1>15, <1>17, <1>18, <1>20, <1>21, <1>23, <1>24, <1>25, OwnerStep

(* The head of a list that loses another entry.                            *)
LEMMA HeadStays ==
    ASSUME NEW s \in Seq(Entry), NEW i \in 1 .. Len(s), NEW r, Removed(r, s, i),
           i > 1 \/ i = Len(s)
    PROVE  r # <<>> => s # <<>> /\ r[1] = s[1]
<1>1. /\ r \in Seq(Entry) /\ Len(r) = Len(s) - 1 /\ Len(s) \in Nat
      /\ \A j \in 1 .. Len(s) - 1 : r[j] = IF j < i THEN s[j] ELSE s[j + 1]
  BY SMTT(30) DEF Removed
<1>2. SUFFICES ASSUME r # <<>> PROVE s # <<>> /\ r[1] = s[1]
  BY SMTT(30)
<1>3. Len(r) >= 1
  BY <1>1, <1>2, SMTT(30)
<1>4. 1 \in 1 .. Len(s) - 1 /\ 1 < i /\ s # <<>>
  BY <1>1, <1>3, SMTT(30)
<1> QED BY <1>1, <1>4, SMTT(30)

(* The entry of a waiter that gives up goes.                               *)
LEMMA RemoveWaiterKeeps ==
    ASSUME Inv, NEW t \in Tran, RemoveWaiter(t)
    PROVE  Inv'
<1>0. PICK k : k = th[t].at
  OBVIOUS
<1>1. PICK i : i = IndexOf(waiter[k], t)
  OBVIOUS
<1>2. PICK r :
        /\ r = RemoveAt(waiter[k], i)
        /\ th[t].pc = "unlock" /\ mutex[k] = None /\ IndexOf(holder[k], t) = 0
        /\ holder' = holder /\ total' = total
        /\ waiter' = [waiter EXCEPT ![k] = r]
        /\ \/ /\ ~(i < Len(waiter[k]))
              /\ mutex' = [mutex EXCEPT ![k] = None]
              /\ th' = [th EXCEPT ![t] = Return(th[t])]
           \/ /\ i < Len(waiter[k])
              /\ mutex' = [mutex EXCEPT ![k] = t]
              /\ th' = [th EXCEPT ![t] = [th[t] EXCEPT !.pc = "partial", !.skip = i - 1]]
  BY <1>0, <1>1 DEF RemoveWaiter, GrantsBehind, Holds
<1>3. th[t].pc \in Asking /\ th[t].pc \notin Loop
  BY <1>2 DEF Asking, Loop
<1>4. k \in Key /\ Has(t, k) /\ \A j \in Key \ {k} : ~BlockedAt(t, j)
  BY <1>0, <1>3 DEF Inv, ThreadInv
<1>5. /\ holder[k] \in Seq(Entry) /\ HolderList(holder[k])
      /\ waiter[k] \in Seq(Entry)
      /\ WaiterList(waiter[k]) /\ Apart(holder[k], waiter[k])
      /\ IsTotal(total[k], Range(holder[k])) /\ LoopInv(k)
      /\ total[k] \in Mode
  BY <1>4, AtKey
<1>6. \A f \in Range(holder[k]) : f.tran # t
  <2>1. IndexOf(holder[k], t) = 0
    BY <1>2
  <2> QED BY <1>5, <2>1, Absent
<1>7. i # 0
  <2>1. PICK f \in Range(waiter[k]) : f.tran = t
    BY <1>4, <1>6 DEF Has, Entries
  <2> QED BY <1>1, <1>5, <2>1, Absent
<1>8. i \in 1 .. Len(waiter[k]) /\ waiter[k][i] \in Entry /\ waiter[k][i].tran = t
  BY <1>1, <1>5, <1>7, Present
<1>9. PICK e \in Entry : e = waiter[k][i] /\ e.tran = t /\ e \in Range(waiter[k])
  BY <1>5, <1>8, RangeIs
<1>10. /\ WaiterList(r) /\ Range(r) = Range(waiter[k]) \ {e}
       /\ (\A f \in Range(r) : f.tran # t) /\ Removed(r, waiter[k], i)
  <2>1. r = RemoveAt(waiter[k], i)
    BY <1>2
  <2>2. /\ WaiterList(RemoveAt(waiter[k], i))
        /\ Range(RemoveAt(waiter[k], i)) = Range(waiter[k]) \ {waiter[k][i]}
        /\ \A f \in Range(RemoveAt(waiter[k], i)) : f.tran # waiter[k][i].tran
        /\ Removed(RemoveAt(waiter[k], i), waiter[k], i)
    BY <1>5, <1>8, WaiterLeaves
  <2> QED BY <1>9, <2>1, <2>2
<1>11. r \in Seq(Entry)
  BY <1>10 DEF WaiterList
<1>12. Types
  BY DEF Inv
<1>13. waiter' \in [Key -> Seq(Entry)] /\ SetAt(waiter', waiter, k, r)
  <2>1. waiter \in [Key -> Seq(Entry)]
    BY <1>12 DEF Types
  <2>2. [waiter EXCEPT ![k] = r] \in [Key -> Seq(Entry)] /\ SetAt([waiter EXCEPT ![k] = r], waiter, k, r)
    BY <1>4, <1>11, <2>1, SetAtIs
  <2> QED BY <1>2, <2>2
<1>a. i - 1 \in Nat /\ i - 1 <= Len(r) /\ (i - 1 >= 1 => i > 1) /\ (~(i < Len(waiter[k])) => i = Len(waiter[k]))
  BY <1>5, <1>8, <1>10, SMTT(30) DEF Removed
<1>14. PICK x \in {None, t}, p \in Thread :
          /\ mutex' = [mutex EXCEPT ![k] = x] /\ th' = [th EXCEPT ![t] = p]
          /\ p.lockwait = th[t].lockwait
          /\ \/ /\ x = None /\ i = Len(waiter[k]) /\ p.pc \in {"run", "end"} /\ p.skip = 0
             \/ x = t /\ p.pc = "partial" /\ p.at = k /\ p.skip = i - 1
  <2>1. th[t] \in Thread
    BY <1>12 DEF Types
  <2>3. PICK q \in Thread : /\ q = Return(th[t]) /\ q.pc \in {"run", "end"}
                            /\ q.lockwait = th[t].lockwait /\ q.skip = 0
    BY <2>1, ReturnIs
  <2>4. PICK q1 \in Thread : /\ q1 = [th[t] EXCEPT !.pc = "partial", !.skip = i - 1]
                             /\ q1.pc = "partial" /\ q1.at = k /\ q1.skip = i - 1
                             /\ q1.lockwait = th[t].lockwait
    <3>1. PICK n \in Nat : n = i - 1
      BY <1>a
    <3>2. PICK q1 : q1 = Behind(th[t], n)
      OBVIOUS
    <3>3. /\ q1 \in Thread /\ q1.pc = "partial" /\ q1.at = th[t].at /\ q1.skip = n
          /\ q1.lockwait = th[t].lockwait
      BY <2>1, <3>2, BehindIs
    <3>4. q1 = [th[t] EXCEPT !.pc = "partial", !.skip = i - 1]
      BY <3>1, <3>2 DEF Behind
    <3> QED BY <1>0, <3>1, <3>3, <3>4
  <2>5. \/ /\ ~(i < Len(waiter[k])) /\ mutex' = [mutex EXCEPT ![k] = None]
           /\ th' = [th EXCEPT ![t] = q]
        \/ /\ mutex' = [mutex EXCEPT ![k] = t]
           /\ th' = [th EXCEPT ![t] = q1]
    BY <1>2, <2>3, <2>4
  <2> QED BY <1>a, <2>3, <2>4, <2>5
<1>15. /\ mutex' \in [Key -> Tran \cup {None}] /\ SetAt(mutex', mutex, k, x)
       /\ th' \in [Tran -> Thread]
       /\ th'[t] = p /\ \A v \in Tran \ {t} : th'[v] = th[v]
  <2>1. mutex \in [Key -> Tran \cup {None}] /\ th \in [Tran -> Thread] /\ x \in Tran \cup {None}
    BY <1>12 DEF Types
  <2>2. mutex' = [mutex EXCEPT ![k] = x] /\ th' = [th EXCEPT ![t] = p]
    BY <1>14
  <2>3. /\ [mutex EXCEPT ![k] = x] \in [Key -> Tran \cup {None}]
        /\ SetAt([mutex EXCEPT ![k] = x], mutex, k, x)
    BY <1>4, <2>1, SetAtIs
  <2>4. /\ th' \in [Tran -> Thread]
        /\ th'[t] = p /\ \A v \in Tran \ {t} : th'[v] = th[v]
    BY <2>1, <2>2, ThreadSet
  <2> QED BY <2>2, <2>3, <2>4
<1>16. /\ waiter'[k] = r /\ holder'[k] = holder[k] /\ mutex'[k] = x
       /\ total'[k] = total[k] /\ holder' = holder /\ total' = total
  BY <1>2, <1>13, <1>15 DEF SetAt
<1>17. Types' /\ Rest(k)
  <2>1. holder' = holder /\ total' = total
    BY <1>16
  <2> QED BY <1>12, <1>13, <1>15, <2>1 DEF Types, Rest, SetAt
<1>18. Lists(holder'[k], waiter'[k], total'[k])
  <2>1. Apart(holder[k], r)
    BY <1>5, <1>10 DEF Apart
  <2> QED BY <1>5, <1>10, <1>16, <2>1 DEF Lists
<1>19. Entries(k)' = Range(holder[k]) \cup Range(r)
  BY <1>16 DEF Entries
<1>20. ~BlockedAt(t, k)'
  BY <1>6, <1>10, <1>19 DEF BlockedAt
<1>21. \A u : u # t => /\ Has(u, k)' <=> Has(u, k)
                       /\ BlockedAt(u, k)' <=> BlockedAt(u, k)
  <2>1. \A f : f.tran # t => (f \in Entries(k)' <=> f \in Entries(k))
    BY <1>9, <1>10, <1>19 DEF Entries
  <2> QED BY <1>4, <2>1, OthersSame
<1>24. /\ mutex[k] = None /\ mutex[k] \in {None, t} /\ mutex'[k] \in {None, t}
       /\ th'[t].lockwait = th[t].lockwait
  BY <1>2, <1>14, <1>15, <1>16
<1>25. \A j \in Key \ {k} : mutex[j] # t /\ ~BlockedAt(t, j)
  BY <1>3, <1>4, NoMutex
<1>26. Calm
  BY <1>15, <1>24, ThreadMoves
<1>27. Settled(k) /\ Stuck(k)
  BY <1>5, <1>24 DEF LoopInv
<1>28. Settled(k)'
  <2>1. holder'[k] \in Seq(Entry) /\ Alike(holder[k], holder'[k])
    BY <1>5, <1>16, AlikeSelf
  <2>2. \A u \in Tran : ThreadInv(u)
    BY DEF Inv
  <2> QED BY <1>4, <1>5, <1>26, <1>27, <2>1, <2>2, SettledKept
<1>29. ASSUME i > 1 \/ i = Len(waiter[k]) PROVE Stuck(k)'
  <2>1. r # <<>> => waiter[k] # <<>> /\ r[1] = waiter[k][1]
    BY <1>5, <1>8, <1>10, <1>29, HeadStays
  <2>2. waiter'[k] # <<>> => waiter[k] # <<>> /\ waiter'[k][1] = waiter[k][1]
    BY <1>16, <2>1
  <2>3. total'[k] \in Mode /\ total[k] <= total'[k]
    BY <1>5, <1>16, ModeLeq
  <2> QED BY <1>4, <1>26, <1>27, <2>2, <2>3, StuckGrows
<1>23. \/ /\ mutex'[k] = None /\ Settled(k)' /\ Stuck(k)'
          /\ th'[t].pc \in {"run", "end"} /\ th'[t].skip = 0
       \/ /\ mutex'[k] = t /\ OwnerInv(t, k)'
          /\ th'[t].pc \in Loop /\ th'[t].at = k
  <2>1. CASE x = None /\ i = Len(waiter[k]) /\ p.pc \in {"run", "end"} /\ p.skip = 0
    <3>1. Stuck(k)'
      BY <1>29, <2>1
    <3> QED BY <1>14, <1>15, <1>16, <1>28, <2>1, <3>1
  <2>2. CASE x = t /\ p.pc = "partial" /\ p.at = k /\ p.skip = i - 1
    <3>1. th'[t].skip = i - 1 /\ th'[t].pc = "partial" /\ th'[t].at = k /\ mutex'[k] = t
      BY <1>14, <1>15, <1>16, <2>2
    <3>2. /\ th'[t].pc # "waiters" /\ th'[t].pc # "holders" /\ th'[t].pc \in Loop
      BY <3>1 DEF Loop
    <3>3. th'[t].skip <= Len(waiter'[k])
      BY <1>16, <1>a, <3>1
    <3>4. th'[t].skip >= 1 => Stuck(k)'
      BY <1>29, <1>a, <3>1
    <3>5. OwnerInv(t, k)'
      BY <1>28, <3>2, <3>3, <3>4 DEF OwnerInv
    <3> QED BY <3>1, <3>2, <3>5
  <2> QED BY <1>14, <2>1, <2>2
<1> QED BY <1>4, <1>15, <1>17, <1>18, <1>20, <1>21, <1>23, <1>24, <1>25, OwnerStep

(* A thread in a granting loop.                                            *)
LEMMA Granting ==
    ASSUME Inv, NEW t \in Tran, th[t].pc \in Loop, NEW k, k = th[t].at
    PROVE  /\ k \in Key /\ mutex[k] = t /\ OwnerInv(t, k) /\ th[t].skip \in Nat
           /\ ~BlockedAt(t, k)
           /\ \A j \in Key \ {k} : mutex[j] # t /\ ~BlockedAt(t, j)
<1>1. k \in Key /\ mutex[k] = t /\ \A j \in Key : mutex[j] = t => j = k
  BY DEF Inv, ThreadInv
<1>2. th[t].pc \notin Asking
  BY SMTT(30) DEF Loop, Asking
<1>3. \A j \in Key : ~BlockedAt(t, j)
  BY <1>2, Running
<1>4. OwnerInv(t, k)
  BY <1>1 DEF Inv, LoopInv
<1>5. th[t].skip \in Nat
  <2>1. th[t] \in Thread
    BY DEF Inv, Types
  <2> QED BY <2>1, SMTT(30) DEF Thread
<1> QED BY <1>1, <1>3, <1>4, <1>5

(* A step that changes no list and wakes nobody.                           *)
LEMMA NothingMoves ==
    ASSUME Inv, NEW k \in Key, holder' = holder, waiter' = waiter, total' = total,
           \A u \in Tran : th'[u].lockwait = th[u].lockwait
    PROVE  /\ Settled(k) => Settled(k)'
           /\ Stuck(k) => Stuck(k)'
<1>1. holder[k] \in Seq(Entry) /\ waiter[k] \in Seq(Entry)
  BY AtKey
<1>2. \A e \in Range(holder[k]) : e.tran \in Tran
  BY <1>1, RangeIs, EntryIs
<1>3. waiter[k] # <<>> => waiter[k][1].tran \in Tran
  <2>1. waiter[k] # <<>> => 1 \in 1 .. Len(waiter[k])
    BY <1>1, SMTT(30)
  <2> QED BY <1>1, <2>1, RangeIs, EntryIs
<1>4. Settled(k) => Settled(k)'
  BY <1>2 DEF Settled, Waits
<1>5. Stuck(k) => Stuck(k)'
  BY <1>3 DEF Stuck, Waits
<1> QED BY <1>4, <1>5

(* The thread in a granting loop goes on, or leaves.                       *)
LEMMA LoopMoves ==
    ASSUME Inv, NEW t \in Tran, th[t].pc \in Loop, NEW k, k = th[t].at,
           holder' = holder, waiter' = waiter, total' = total,
           NEW x \in {None, t},
           mutex' \in [Key -> Tran \cup {None}], SetAt(mutex', mutex, k, x),
           th' \in [Tran -> Thread], \A v \in Tran \ {t} : th'[v] = th[v],
           th'[t].lockwait = th[t].lockwait,
           \/ /\ x = None /\ Settled(k) /\ Stuck(k)
              /\ th'[t].pc \in {"run", "end"} /\ th'[t].skip = 0
           \/ x = t /\ OwnerInv(t, k)' /\ th'[t].pc \in Loop /\ th'[t].at = k
    PROVE  Inv'
<1>1. /\ k \in Key /\ mutex[k] = t /\ OwnerInv(t, k) /\ ~BlockedAt(t, k)
      /\ \A j \in Key \ {k} : mutex[j] # t /\ ~BlockedAt(t, j)
  BY Granting
<1>2. Types
  BY DEF Inv
<1>4. Types' /\ Rest(k)
  BY <1>2 DEF Types, Rest, SetAt
<1>5. Lists(holder'[k], waiter'[k], total'[k])
  BY <1>1 DEF Inv
<1>6. \A u, j : /\ Has(u, j)' <=> Has(u, j)
                /\ BlockedAt(u, j)' <=> BlockedAt(u, j)
  BY ListsSame
<1>7. \A u \in Tran : th'[u].lockwait = th[u].lockwait
  OBVIOUS
<1>8. mutex'[k] = x
  BY DEF SetAt
<1>9. (Settled(k) => Settled(k)') /\ (Stuck(k) => Stuck(k)')
  BY <1>1, <1>7, NothingMoves
<1>10. \/ /\ mutex'[k] = None /\ Settled(k)' /\ Stuck(k)'
          /\ th'[t].pc \in {"run", "end"} /\ th'[t].skip = 0
       \/ /\ mutex'[k] = t /\ OwnerInv(t, k)'
          /\ th'[t].pc \in Loop /\ th'[t].at = k
  BY <1>8, <1>9
<1>11. /\ mutex[k] \in {None, t} /\ mutex'[k] \in {None, t} /\ ~BlockedAt(t, k)'
       /\ \A u : u # t => /\ Has(u, k)' <=> Has(u, k)
                          /\ BlockedAt(u, k)' <=> BlockedAt(u, k)
       /\ th'[t].lockwait = th[t].lockwait
  BY <1>1, <1>6, <1>7, <1>8
<1> QED BY <1>1, <1>4, <1>5, <1>10, <1>11, OwnerStep

(* The thread in a granting loop at k grants the request of e.             *)
LEMMA GrantStep ==
    ASSUME Inv, Types', NEW t \in Tran, NEW k \in Key, Rest(k), mutex' = mutex, mutex[k] = t,
           Lists(holder'[k], waiter'[k], total'[k]),
           NEW e \in Entry, e \in Entries(k), e.blocked # NULL_LOCK,
           Entries(k)' = (Entries(k) \ {e}) \cup {Upgraded(e)},
           th'[e.tran].pc = th[e.tran].pc, th'[e.tran].at = th[e.tran].at,
           th'[e.tran].skip = th[e.tran].skip, ~th'[e.tran].lockwait,
           \A v \in Tran \ {e.tran} : th'[v] = th[v],
           OwnerInv(t, k)'
    PROVE  Inv'
<1>1. PICK u \in Tran : u = e.tran
  BY EntryIs
<1>2. BlockedAt(u, k)
  BY <1>1 DEF BlockedAt
<1>3. th[u].pc \in Asking /\ th[u].at = k
  BY <1>2 DEF Inv, ThreadInv
<1>4. th[u].pc \notin Loop
  BY <1>3, SMTT(30) DEF Asking, Loop
<1>5. th[u].skip = 0 /\ \A j \in Key : mutex[j] # u
  BY <1>4, NoMutex, SkipIsZero
<1>6. /\ Upgraded(e).tran = u /\ Upgraded(e).blocked = NULL_LOCK
  BY <1>1, UpgradedIs
<1>7. /\ \A v : v # u => /\ Has(v, k)' <=> Has(v, k)
                         /\ BlockedAt(v, k)' <=> BlockedAt(v, k)
      /\ Has(u, k)'
  BY <1>1, <1>6, OwnJoins
<1>8. ~BlockedAt(u, k)'
  <2>1. ASSUME NEW f \in Entries(k)', f.tran = u, f.blocked # NULL_LOCK PROVE FALSE
    <3>1. f \in Entries(k) /\ f # e
      BY <1>6, <2>1
    <3> QED BY <1>1, <2>1, <3>1, OneEntry
  <2> QED BY <2>1 DEF BlockedAt
<1>9. \A j \in Key : ~BlockedAt(u, j)'
  <2>1. ASSUME NEW j \in Key, j # k PROVE ~BlockedAt(u, j)'
    <3>1. ~BlockedAt(u, j)
      BY <1>3, <2>1 DEF Inv, ThreadInv
    <3> QED BY <2>1, <3>1, RestKept
  <2> QED BY <1>8, <2>1
<1>10. ThreadInv(u)'
  <2>1. th'[u].pc \in Asking /\ th'[u].pc \notin Loop /\ th'[u].at = k /\ th'[u].skip = 0
    BY <1>1, <1>3, <1>4, <1>5
  <2> QED BY <1>5, <1>7, <1>9, <2>1 DEF ThreadInv
<1>11. Calm /\ \A v \in Tran : v # u => Same(v)
  BY <1>1, ThreadMoves
<1>12. \A v \in Tran : ThreadInv(v)' \/ Bystander(v, k)
  BY <1>7, <1>10, <1>11 DEF Bystander
<1>13. \A v \in Tran : Same(v) \/ \A j \in Key \ {k} : mutex[j] # v
  BY <1>5, <1>11
<1>14. LoopInv(k)'
  BY NoneAssumption DEF LoopInv
<1> QED BY <1>11, <1>12, <1>13, <1>14, KeyStep

(* What follows the i-th entry.                                            *)
LEMMA AfterIs ==
    ASSUME NEW s \in Seq(Entry), NEW i \in 1 .. Len(s)
    PROVE  /\ After(s, i) \in Seq(Entry)
           /\ \A e \in Range(After(s, i)) : \E h \in i + 1 .. Len(s) : e = s[h]
           /\ \A h \in i + 1 .. Len(s) : s[h] \in Range(After(s, i))
<1>1. /\ After(s, i) \in Seq(Entry) /\ Len(After(s, i)) = Len(s) - i /\ Len(s) \in Nat
      /\ \A j \in 1 .. Len(s) - i : After(s, i)[j] = s[i + j]
  BY SMTT(30) DEF After
<1>2. ASSUME NEW e \in Range(After(s, i)) PROVE \E h \in i + 1 .. Len(s) : e = s[h]
  <2>1. PICK j \in 1 .. Len(After(s, i)) : e = After(s, i)[j]
    BY <1>1, RangeIs
  <2>2. i + j \in i + 1 .. Len(s) /\ e = s[i + j]
    BY <1>1, <2>1, SMTT(30)
  <2> QED BY <2>2
<1>3. ASSUME NEW h \in i + 1 .. Len(s) PROVE s[h] \in Range(After(s, i))
  <2>1. h - i \in 1 .. Len(s) - i /\ i + (h - i) = h
    BY <1>1, SMTT(30)
  <2>2. After(s, i)[h - i] = s[h] /\ h - i \in 1 .. Len(After(s, i))
    BY <1>1, <2>1, SMTT(30)
  <2>3. After(s, i)[h - i] \in Range(After(s, i))
    BY <1>1, <2>2, RangeIs
  <2> QED BY <2>2, <2>3
<1> QED BY <1>1, <1>2, <1>3

(* Whoever asks for a mode behind an upgrader that cannot be granted       *)
(* cannot be granted either.                                               *)
LEMMA OrderBlocks ==
    ASSUME NEW s, HolderList(s), NEW i \in 1 .. Len(s), NEW j \in 1 .. Len(s), i <= j,
           s[j].blocked # NULL_LOCK, NEW h \in 1 .. Len(s), h > i,
           ~lock_Comp[s[i].blocked][s[h].granted]
    PROVE  \E f \in 1 .. Len(s) : f # j /\ ~lock_Comp[s[j].blocked][s[f].granted]
<1>1. /\ s \in Seq(Entry) /\ Ordered(s) /\ \A e \in Range(s) : HolderEntry(e)
  BY DEF HolderList
<1>2. \A x \in 1 .. Len(s) : s[x] \in Entry /\ HolderEntry(s[x])
  BY <1>1, RangeIs
<1>3. CASE i = j
  BY <1>3, SMTT(30)
<1>4. CASE i < j
  <2>1. /\ s[i].blocked # NULL_LOCK
        /\ s[i].blocked = X_LOCK => ~lock_Comp[s[j].blocked][s[i].granted]
    BY <1>1, <1>4 DEF Ordered
  <2>2. i # j
    BY <1>4, SMTT(30)
  <2>3. CASE s[i].blocked = X_LOCK
    BY <2>1, <2>2, <2>3
  <2>4. CASE s[i].blocked # X_LOCK
    <3>1. /\ s[i].granted \in Mode /\ s[j].granted \in Mode /\ s[h].granted \in Mode
          /\ s[i].blocked \in Mode /\ s[j].blocked \in Mode
      BY <1>2, EntryIs
    <3>2. s[i].blocked = 3 /\ s[i].granted = 2
      <4>1. s[i].blocked \in {3, 4} /\ (s[i].blocked = 3 => s[i].granted = 2)
        BY <1>2, <2>1, HolderModes
      <4> QED BY <2>4, <4>1, SMTT(30) DEF X_LOCK
    <3>3. /\ s[j].blocked \in {3, 4} /\ s[j].granted \in {2, 3}
          /\ s[j].blocked = 3 => s[j].granted = 2
      BY <1>2, HolderModes
    <3>4. lock_Comp[s[i].blocked][s[h].granted] <=> s[i].blocked + s[h].granted <= 5
      BY <3>1, CompIs
    <3>5. s[h].granted >= 3
      BY <3>1, <3>2, <3>4, ModeIs, SMTT(30)
    <3>6. CASE h # j
      <4>1. lock_Comp[s[j].blocked][s[h].granted] <=> s[j].blocked + s[h].granted <= 5
        BY <3>1, CompIs
      <4>2. ~lock_Comp[s[j].blocked][s[h].granted]
        BY <3>1, <3>3, <3>5, <4>1, ModeIs, SMTT(30)
      <4> QED BY <3>6, <4>2
    <3>7. CASE h = j
      <4>1. lock_Comp[s[j].blocked][s[i].granted] <=> s[j].blocked + s[i].granted <= 5
        BY <3>1, CompIs
      <4>2. ~lock_Comp[s[j].blocked][s[i].granted]
        BY <3>2, <3>3, <3>5, <3>7, <4>1, SMTT(30)
      <4> QED BY <2>2, <4>2
    <3> QED BY <3>6, <3>7
  <2> QED BY <2>3, <2>4
<1>5. i = j \/ i < j
  BY SMTT(30)
<1> QED BY <1>3, <1>4, <1>5

(* Where the loop over the blocked holders stops, it forgets nobody.       *)
LEMMA HoldersDone ==
    ASSUME Inv, NEW k \in Key, NEW n \in Nat, PassedHolders(k, n),
           ~(/\ n + 1 <= Len(holder[k])
             /\ holder[k][n + 1].blocked # NULL_LOCK
             /\ lock_Comp[holder[k][n + 1].blocked][Granted(After(holder[k], n + 1))])
    PROVE  Settled(k)
<1>1. PICK s : s = holder[k] /\ HolderList(s) /\ s \in Seq(Entry)
  BY AtKey
<1>2. SUFFICES ASSUME NEW e \in Range(s), e.blocked # NULL_LOCK, Waits(e)
               PROVE  \E f \in Range(s) : f.tran # e.tran /\ ~lock_Comp[e.blocked][f.granted]
  BY <1>1 DEF Settled
<1>3. PICK j \in 1 .. Len(s) : e = s[j]
  BY <1>1, RangeIs
<1>4. PICK i : i = n + 1
  BY SMTT(30)
<1>5. ~(j \in 1 .. n)
  <2>1. \A x \in 1 .. n : ~Waits(s[x])
    BY <1>1 DEF PassedHolders
  <2> QED BY <1>2, <1>3, <2>1
<1>6. i \in 1 .. Len(s) /\ i <= j
  BY <1>1, <1>4, <1>5, SMTT(30)
<1>7. s[i].blocked # NULL_LOCK
  <2>1. CASE i = j
    BY <1>2, <1>3, <2>1
  <2>2. CASE i < j
    BY <1>1, <1>2, <1>3, <1>6, <2>2 DEF HolderList, Ordered
  <2>3. i = j \/ i < j
    BY <1>6, SMTT(30)
  <2> QED BY <2>1, <2>2, <2>3
<1>8. ~lock_Comp[s[i].blocked][Granted(After(s, i))]
  <2>1. i <= Len(s)
    BY <1>6, SMTT(30)
  <2> QED BY <1>1, <1>4, <1>7, <2>1
<1>9. After(s, i) \in Seq(Entry) /\ \A f \in Range(After(s, i)) : \E h \in i + 1 .. Len(s) : f = s[h]
  BY <1>1, <1>6, AfterIs
<1>10. s[i].blocked \in Mode
  BY <1>1, <1>6, RangeIs, EntryIs
<1>11. PICK f \in Range(After(s, i)) : ~lock_Comp[s[i].blocked][f.granted]
  BY <1>8, <1>9, <1>10, GrantedAllows
<1>12. PICK h \in i + 1 .. Len(s) : f = s[h]
  BY <1>9
<1>13. h \in 1 .. Len(s) /\ h > i
  BY <1>1, <1>6, SMTT(30)
<1>14. \E x \in 1 .. Len(s) : x # j /\ ~lock_Comp[s[j].blocked][s[x].granted]
  <2>1. ~lock_Comp[s[i].blocked][s[h].granted] /\ s[j].blocked # NULL_LOCK /\ HolderList(s)
    BY <1>1, <1>2, <1>3, <1>11, <1>12
  <2> QED BY <1>6, <1>13, <2>1, OrderBlocks
<1>15. PICK x \in 1 .. Len(s) : x # j /\ ~lock_Comp[s[j].blocked][s[x].granted]
  BY <1>14
<1>16. s[x] \in Range(s) /\ s[x].tran # s[j].tran
  BY <1>1, <1>15, RangeIs DEF HolderList, Distinct
<1> QED BY <1>3, <1>15, <1>16
=============================================================================
