--------------------------- MODULE LogFlushProofs ---------------------------
(***************************************************************************)
(* Theorems about LogFlush, for any set of transactions, any page size,    *)
(* any lengths of records and any bounds: whatever a crash hits, a restart *)
(* reads a prefix of the log that holds everything before nxio_lsa; data   *)
(* pages and commits may rely on it; no request to the log flush thread is *)
(* lost; the log implements DurableLog.                                    *)
(*                                                                         *)
(* First what a restart reads: Chain and EndOf are recursive functions,    *)
(* of which the prover knows nothing but their definition by CHOOSE.       *)
(* LooksAhead shows that such a function exists (by a least address where  *)
(* it would not), ChainReads that it reads the records up to the mark.     *)
(* Then the inductive invariant, one lemma for every action that it is     *)
(* kept (what is in the prior list, the page buffer and on disk, at every  *)
(* point of an append, a flush, a crash and a restart), and the theorems.  *)
(***************************************************************************)
EXTENDS LogFlush, WellFoundedInduction, TLAPS

(* The leaves of the proofs are for Zenon, unless they say SMT.            *)
USE Zenon

-----------------------------------------------------------------------------
(* What a restart reads *)

\* The address after record n.
End(n) == n.start + n.len

\* Address e is where a record of R starts, or where R ends.
Boundary(e, R, top) == e = top \/ \E n \in R : n.start = e

\* The records R fill the log from 0 to top, without gaps and overlaps.
Tiles(R, top) ==
  /\ R \subseteq Node /\ top \in Slot
  /\ \A n \in R : End(n) <= top /\ Boundary(End(n), R, top)
  /\ \A m, n \in R : m.start < n.start => End(m) <= n.start
  /\ \A m, n \in R : m.start = n.start => m = n
  /\ Boundary(0, R, top)
  /\ top # 0 => \E n \in R : End(n) = top
  /\ \A m \in R : m.start # 0 => \E n \in R : End(n) = m.start

\* A restart that finds volume d reads the records of R up to address e.
Reads(d, e, R, top) ==
  /\ Boundary(e, R, top) /\ d[e] = Eof
  /\ \A n \in R : n.start < e => Intact(n, d)

\* Every piece of a record lies where the address of the record says.
Placed(d) ==
  \A l \in Slot :
    d[l] \in Piece => d[l][1].start + d[l][2] = l /\ End(d[l][1]) < MaxLsa

\* A nonempty set of numbers has a least element.
LEMMA LeastNat ==
  ASSUME NEW T, T \subseteq Nat, T # {}
  PROVE  \E x \in T : \A y \in T : x <= y
<1> DEFINE R == OpToRel(<, Nat)
<1>1. IsWellFoundedOn(R, Nat)
  BY NatLessThanWellFounded
<1>2. \A x, y \in Nat : x < y => <<x, y>> \in R
  BY SMT DEF OpToRel
<1> HIDE DEF R
<1>3. PICK x \in T : \A y \in T : ~ (<<y, x>> \in R)
  BY <1>1, WFMin
<1>4. ASSUME NEW y \in T PROVE x <= y
  <2>1. x \in Nat /\ y \in Nat
    BY SMT
  <2>2. ~ (y < x)
    BY <1>2, <1>3, <2>1
  <2> QED BY <2>1, <2>2, SMT
<1> QED BY <1>4

\* A function on the addresses that looks ahead from those in go, by nx.
LookAhead(V, b, G, go, nx) ==
  \E f \in [Lsa -> V] :
    \A l \in Lsa : f[l] = IF l \in go THEN G[l][f[nx[l]]] ELSE b[l]

\* ... exists.
LEMMA LooksAhead ==
  ASSUME NEW V, NEW b \in [Lsa -> V], NEW G \in [Lsa -> [V -> V]], NEW go \in SUBSET Lsa,
         NEW nx \in [Lsa -> Lsa], \A l \in go : nx[l] > l
  PROVE  LookAhead(V, b, G, go, nx)
<1> USE BoundAssumption DEF Lsa
<1> DEFINE Ok(f, k) ==
             f \in [k .. MaxLsa -> V] /\
             \A l \in k .. MaxLsa : f[l] = IF l \in go THEN G[l][f[nx[l]]] ELSE b[l]
           T == {k \in 0 .. MaxLsa : ~ \E f : Ok(f, MaxLsa - k)}
<1>1. CASE T = {}
  <2>1. MaxLsa \in 0 .. MaxLsa /\ MaxLsa - MaxLsa = 0
    BY SMT
  <2> HIDE DEF Ok
  <2>2. \E f : Ok(f, 0)
    BY <1>1, <2>1
  <2> QED BY <2>2 DEF Ok, LookAhead
<1>2. CASE T # {}
  <2>1. PICK x \in T : \A y \in T : x <= y
    <3>1. T \subseteq Nat
      BY SMT
    <3> HIDE DEF T
    <3> QED BY <1>2, <3>1, LeastNat
  <2> DEFINE m == MaxLsa - x
  <2>2. m \in 0 .. MaxLsa /\ (x = 0 => m = MaxLsa) /\ x \in 0 .. MaxLsa
    BY SMT
  <2>3. \E f : Ok(f, m)
    <3>1. CASE x = 0
      <4> DEFINE g == [l \in MaxLsa .. MaxLsa |-> b[l]]
      <4>1. MaxLsa \notin go
        BY SMT
      <4>2. Ok(g, MaxLsa)
        BY <4>1, SMT
      <4> QED BY <4>2, <2>2, <3>1
    <3>2. CASE x # 0
      <4>1. x - 1 \in 0 .. MaxLsa /\ ~(x <= x - 1) /\ MaxLsa - (x - 1) = m + 1
        BY <2>2, <3>2, SMT
      <4>2. x - 1 \notin T
        BY <2>1, <4>1
      <4>3. PICK f : Ok(f, m + 1)
        <5>1. \E f : Ok(f, MaxLsa - (x - 1))
          BY <4>1, <4>2
        <5> QED BY <5>1, <4>1
      <4> DEFINE v == IF m \in go THEN G[m][f[nx[m]]] ELSE b[m]
                 g == [l \in m .. MaxLsa |-> IF l = m THEN v ELSE f[l]]
      <4> HIDE DEF m, T
      <4>4. m + 1 \in Nat /\ m \in Nat /\ m \in Lsa
        BY <2>2, SMT
      <4>5. \A l \in m .. MaxLsa : l \in go => nx[l] \in m + 1 .. MaxLsa
        BY <2>2, SMT
      <4>6. v \in V
        <5>1. CASE m \in go
          <6>1. nx[m] \in m + 1 .. MaxLsa
            BY <4>5, <5>1, <2>2, SMT
          <6>2. f[nx[m]] \in V
            BY <4>3, <6>1, SMT
          <6> QED BY <6>2, <5>1, <4>4, SMT
        <5>2. CASE m \notin go
          BY <5>2, <4>4, SMT
        <5> QED BY <5>1, <5>2, SMT
      <4> HIDE DEF v
      <4>7. \A l \in m + 1 .. MaxLsa : l \in m .. MaxLsa /\ l # m
        BY <4>4, SMT
      <4>8. \A l \in m .. MaxLsa : l # m => l \in m + 1 .. MaxLsa
        BY <4>4, SMT
      <4>9. g \in [m .. MaxLsa -> V]
        BY <4>3, <4>6, <4>8, SMT
      <4>10. \A l \in m + 1 .. MaxLsa : g[l] = f[l]
        BY <4>7, SMT
      <4>11. ASSUME NEW l \in m .. MaxLsa
             PROVE  g[l] = IF l \in go THEN G[l][g[nx[l]]] ELSE b[l]
        <5>1. l \in go => g[nx[l]] = f[nx[l]]
          BY <4>5, <4>10
        <5>2. CASE l = m
          <6>1. g[l] = v
            BY <5>2
          <6> QED BY <6>1, <5>1, <5>2 DEF v
        <5>3. CASE l # m
          <6>1. l \in m + 1 .. MaxLsa
            BY <4>8, <5>3
          <6>2. f[l] = IF l \in go THEN G[l][f[nx[l]]] ELSE b[l]
            BY <6>1, <4>3
          <6>3. g[l] = f[l]
            BY <6>1, <4>10
          <6> QED BY <5>1, <6>2, <6>3
        <5> QED BY <5>2, <5>3
      <4> QED BY <4>9, <4>11
    <3> QED BY <3>1, <3>2
  <2> QED BY <2>1, <2>3
<1> QED BY <1>1, <1>2

\* The header of a record leads to the next one.
LEMMA HeaderLeadsOn ==
  ASSUME NEW d \in [Slot -> Cell], Placed(d), NEW l \in Slot, IsHeader(d[l])
  PROVE  /\ d[l][1] \in Node /\ d[l][1].start = l
         /\ d[l][1].start + d[l][1].len \in Slot
         /\ d[l][1].start + d[l][1].len > l
<1>1. d[l] \in Piece
  BY DEF IsHeader, Cell
<1>2. d[l][1] \in Node /\ d[l][2] = 0
  <2>1. d[l][1] \in Node
    BY <1>1, SMT DEF Piece
  <2> QED BY <2>1 DEF IsHeader
<1>3. d[l][1].start + d[l][2] = l /\ d[l][1].start + d[l][1].len < MaxLsa
  BY <1>1 DEF Placed, End
<1>4. d[l][1].start \in Nat /\ d[l][1].len \in Nat \ {0}
  <2>1. d[l][1].start \in Slot /\ d[l][1].len \in 1 .. MaxLsa
    BY <1>2 DEF Node
  <2> QED BY <2>1, BoundAssumption, SMT DEF Slot
<1> QED BY <1>2, <1>3, <1>4, BoundAssumption, SMT DEF Slot

\* Where the records of a volume go on after a header.
Onward(d) == {l \in Slot : IsHeader(d[l])}
\* The address of the record after it.
NextOf(d) == [l \in Lsa |-> IF l \in Onward(d) THEN d[l][1].start + d[l][1].len ELSE l]

\* It is always further on.
LEMMA NextOfType ==
  ASSUME NEW d \in [Slot -> Cell], Placed(d)
  PROVE  /\ Onward(d) \in SUBSET Lsa /\ NextOf(d) \in [Lsa -> Lsa]
         /\ \A l \in Onward(d) : NextOf(d)[l] > l
<1>1. Slot \subseteq Lsa
  BY BoundAssumption, SMT DEF Slot, Lsa
<1>2. \A l \in Onward(d) : /\ d[l][1].start + d[l][1].len \in Lsa
                           /\ d[l][1].start + d[l][1].len > l
  BY <1>1, HeaderLeadsOn DEF Onward
<1> QED BY <1>1, <1>2 DEF Onward, NextOf

\* The test of the analysis, in these terms.
LEMMA OnwardSlot ==
  ASSUME NEW d, NEW l \in Lsa
  PROVE  l < MaxLsa /\ IsHeader(d[l]) <=> l \in Onward(d)
<1>1. l < MaxLsa <=> l \in Slot
  BY BoundAssumption, SMT DEF Slot, Lsa
<1> QED BY <1>1 DEF Onward

\* The functions that Chain and EndOf define satisfy f = ChainStep(d, f) and
\* f = EndStep(d, f).
ChainStep(d, f) ==
  [l \in Lsa |-> IF l < MaxLsa /\ IsHeader(d[l])
                   THEN {d[l][1]} \cup f[d[l][1].start + d[l][1].len]
                   ELSE {}]
\* One step of EndOf.
EndStep(d, f) ==
  [l \in Lsa |-> IF l < MaxLsa /\ IsHeader(d[l])
                   THEN f[d[l][1].start + d[l][1].len]
                   ELSE l]

\* The function that Chain defines exists.
LEMMA ChainUnfolds ==
  ASSUME NEW d \in [Slot -> Cell], Placed(d)
  PROVE  \E f : /\ Chain(d) = f[0]
                /\ f = ChainStep(d, f)
<1> DEFINE V == SUBSET Node
           b == [l \in Lsa |-> {}]
           G == [l \in Lsa |-> [v \in V |-> IF l \in Onward(d) THEN {d[l][1]} \cup v ELSE v]]
           go == Onward(d)
           nx == NextOf(d)
<1>1. go \in SUBSET Lsa /\ nx \in [Lsa -> Lsa] /\ \A l \in go : nx[l] > l
  BY NextOfType, SMT
<1>2. b \in [Lsa -> V]
  BY SMT
<1>3. G \in [Lsa -> [V -> V]]
  <2>1. \A l \in go : d[l][1] \in Node
    BY HeaderLeadsOn DEF Onward
  <2> QED BY <2>1, SMT
<1> HIDE DEF G, go, nx, b, V
<1>4. PICK f \in [Lsa -> V] :
         \A l \in Lsa : f[l] = IF l \in go THEN G[l][f[nx[l]]] ELSE b[l]
  <2>1. LookAhead(V, b, G, go, nx)
    BY <1>1, <1>2, <1>3, LooksAhead
  <2> QED BY <2>1 DEF LookAhead
<1>5. f = ChainStep(d, f)
  <2>1. ASSUME NEW l \in Lsa PROVE f[l] = ChainStep(d, f)[l]
    <3>1. CASE l \in go
      <4>1. l < MaxLsa /\ IsHeader(d[l])
        BY <3>1, OnwardSlot DEF go
      <4>2. nx[l] = d[l][1].start + d[l][1].len
        BY <3>1 DEF nx, NextOf, go
      <4>3. f[nx[l]] \in V
        BY <1>1, SMT
      <4>4. f[l] = G[l][f[nx[l]]]
        BY <3>1, <1>4
      <4>5. G[l][f[nx[l]]] = {d[l][1]} \cup f[nx[l]]
        BY <4>3, <3>1 DEF G, go
      <4> QED BY <4>1, <4>2, <4>4, <4>5 DEF ChainStep
    <3>2. CASE l \notin go
      <4>1. ~(l < MaxLsa /\ IsHeader(d[l]))
        BY <3>2, OnwardSlot DEF go
      <4>2. f[l] = {}
        BY <3>2, <1>4 DEF b
      <4> QED BY <4>1, <4>2 DEF ChainStep
    <3> QED BY <3>1, <3>2
  <2>2. ChainStep(d, f) = [l \in Lsa |-> ChainStep(d, f)[l]]
    BY DEF ChainStep
  <2> QED BY <2>1, <2>2
<1> DEFINE F == CHOOSE g : g = ChainStep(d, g)
<1>6. F = ChainStep(d, F)
  BY <1>5
<1>7. Chain(d) = F[0]
  BY DEF Chain, ChainStep
<1> QED BY <1>6, <1>7

\* So does the one that EndOf defines.
LEMMA EndUnfolds ==
  ASSUME NEW d \in [Slot -> Cell], Placed(d)
  PROVE  \E f : /\ EndOf(d) = f[0]
                /\ f = EndStep(d, f)
<1> DEFINE b == [l \in Lsa |-> l]
           G == [l \in Lsa |-> [v \in Lsa |-> v]]
           go == Onward(d)
           nx == NextOf(d)
<1>1. go \in SUBSET Lsa /\ nx \in [Lsa -> Lsa] /\ \A l \in go : nx[l] > l
  BY NextOfType, SMT
<1>2. b \in [Lsa -> Lsa]
  BY SMT
<1>3. G \in [Lsa -> [Lsa -> Lsa]]
  BY SMT
<1> HIDE DEF G, go, nx, b
<1>4. PICK f \in [Lsa -> Lsa] :
         \A l \in Lsa : f[l] = IF l \in go THEN G[l][f[nx[l]]] ELSE b[l]
  <2>1. LookAhead(Lsa, b, G, go, nx)
    BY <1>1, <1>2, <1>3, LooksAhead
  <2> QED BY <2>1 DEF LookAhead
<1>5. f = EndStep(d, f)
  <2>1. ASSUME NEW l \in Lsa PROVE f[l] = EndStep(d, f)[l]
    <3>1. CASE l \in go
      <4>1. l < MaxLsa /\ IsHeader(d[l])
        BY <3>1, OnwardSlot DEF go
      <4>2. nx[l] = d[l][1].start + d[l][1].len
        BY <3>1 DEF nx, NextOf, go
      <4>3. f[nx[l]] \in Lsa
        BY <1>1, SMT
      <4>4. f[l] = G[l][f[nx[l]]]
        BY <3>1, <1>4
      <4>5. G[l][f[nx[l]]] = f[nx[l]]
        BY <4>3 DEF G
      <4> QED BY <4>1, <4>2, <4>4, <4>5 DEF EndStep
    <3>2. CASE l \notin go
      <4>1. ~(l < MaxLsa /\ IsHeader(d[l]))
        BY <3>2, OnwardSlot DEF go
      <4>2. f[l] = l
        BY <3>2, <1>4 DEF b
      <4> QED BY <4>1, <4>2 DEF EndStep
    <3> QED BY <3>1, <3>2
  <2>2. EndStep(d, f) = [l \in Lsa |-> EndStep(d, f)[l]]
    BY DEF EndStep
  <2> QED BY <2>1, <2>2
<1> DEFINE F == CHOOSE g : g = EndStep(d, g)
<1>6. F = EndStep(d, F)
  BY <1>5
<1>7. EndOf(d) = F[0]
  BY DEF EndOf, EndStep
<1> QED BY <1>6, <1>7

\* The fields of a record.
LEMMA NodeFields ==
  ASSUME NEW n \in Node
  PROVE  /\ n.start \in Nat /\ n.start < MaxLsa /\ n.len \in Nat /\ n.len > 0
         /\ n.start \in Slot /\ n.len \in 1 .. MaxLsa /\ n.tran \in Trans
<1>1. n.start \in Slot /\ n.len \in 1 .. MaxLsa /\ n.tran \in Trans
  BY DEF Node
<1> QED BY <1>1, BoundAssumption, SMT DEF Slot

\* Two records of a log share no slot.
LEMMA TilesApart ==
  ASSUME NEW R, NEW top, Tiles(R, top), NEW m \in R, NEW n \in R,
         NEW i \in 0 .. m.len - 1, NEW j \in 0 .. n.len - 1, m.start + i = n.start + j
  PROVE  m = n /\ i = j
<1>1. m \in Node /\ n \in Node
  BY DEF Tiles
<1>2. /\ m.start < n.start => m.start + m.len <= n.start
      /\ n.start < m.start => n.start + n.len <= m.start
      /\ m.start = n.start => m = n
  BY DEF Tiles, End
<1>3. m.start \in Nat /\ n.start \in Nat /\ m.len \in Nat /\ n.len \in Nat
  BY <1>1, NodeFields
<1>4. i \in Nat /\ j \in Nat /\ i < m.len /\ j < n.len
  BY <1>3, SMT
<1>5. m.start = n.start
  BY <1>2, <1>3, <1>4, SMT
<1> QED BY <1>2, <1>3, <1>4, <1>5, SMT

\* A record that starts before a boundary ends before it.
LEMMA EndsBefore ==
  ASSUME NEW R, NEW top, Tiles(R, top), NEW e, Boundary(e, R, top), NEW n \in R, n.start < e
  PROVE  End(n) <= e
<1>1. CASE e = top
  BY <1>1 DEF Tiles
<1>2. ASSUME NEW m \in R, m.start = e PROVE End(n) <= e
  <2>1. n.start < m.start
    BY <1>2
  <2>2. End(n) <= m.start
    BY <2>1 DEF Tiles
  <2> QED BY <1>2, <2>2
<1> QED BY <1>1, <1>2 DEF Boundary

\* A boundary is an address of the log.
LEMMA BoundarySlot ==
  ASSUME NEW R, NEW top, Tiles(R, top), NEW e, Boundary(e, R, top)
  PROVE  e \in Slot /\ e <= top
<1>1. CASE e = top
  <2>1. top \in Slot
    BY DEF Tiles
  <2> QED BY <2>1, <1>1, BoundAssumption, SMT DEF Slot
<1>2. ASSUME NEW m \in R, m.start = e PROVE e \in Slot /\ e <= top
  <2>1. m \in Node /\ m.start + m.len <= top /\ top \in Slot
    BY DEF Tiles, End
  <2> QED BY <1>2, <2>1, NodeFields, BoundAssumption, SMT DEF Slot
<1> QED BY <1>1, <1>2 DEF Boundary

\* A record that starts at an address below a boundary is met there by a restart.
LEMMA HeaderRead ==
  ASSUME NEW R, NEW top, Tiles(R, top), NEW d, NEW e, Reads(d, e, R, top),
         NEW n \in R, n.start < e
  PROVE  d[n.start] = <<n, 0>> /\ IsHeader(d[n.start])
<1>1. n \in Node
  BY DEF Tiles
<1>2. 0 \in 0 .. n.len - 1 /\ n.start + 0 = n.start
  BY <1>1, NodeFields, SMT
<1>3. d[n.start] = <<n, 0>>
  BY <1>2 DEF Reads, Intact
<1>4. <<n, 0>> \in Piece
  BY <1>1, BoundAssumption, SMT DEF Piece
<1>5. <<n, 0>> \notin {Null, Eof} /\ <<n, 0>>[2] = 0
  BY <1>4, CellAssumption, SMT
<1> QED BY <1>3, <1>5 DEF IsHeader

\* A boundary below e is the start of a record.
LEMMA BoundaryRecord ==
  ASSUME NEW R, NEW top, Tiles(R, top), NEW e, Boundary(e, R, top),
         NEW b, Boundary(b, R, top), b < e
  PROVE  \E n \in R : n.start = b
<1>1. b # top
  <2>1. e \in Slot /\ e <= top /\ b \in Slot /\ top \in Slot
    BY BoundarySlot DEF Tiles
  <2> QED BY <2>1, BoundAssumption, SMT DEF Slot
<1> QED BY <1>1 DEF Boundary

\* f and g are what Chain and EndOf compute from each address on.
Follow(d, f, g) == f = ChainStep(d, f) /\ g = EndStep(d, g)

\* From address b they read the records up to e.
ReadFrom(b, e, R, f, g) ==
  f[b] = {n \in R : b <= n.start /\ n.start < e} /\ g[b] = e

\* What a restart that follows the headers reads, from a boundary on.
LEMMA ReadsFrom ==
  ASSUME NEW R, NEW top, Tiles(R, top), NEW d, NEW e, Reads(d, e, R, top),
         NEW f, NEW g, Follow(d, f, g)
  PROVE  \A b \in Slot : b <= e /\ Boundary(b, R, top) => ReadFrom(b, e, R, f, g)
<1> DEFINE Good(b) == ReadFrom(b, e, R, f, g)
           T == {k \in Nat : \E b \in Slot : b <= e /\ Boundary(b, R, top) /\ e - b = k /\ ~Good(b)}
<1> HIDE DEF Good, T
<1>1. Boundary(e, R, top) /\ d[e] = Eof /\ e \in Slot
  BY BoundarySlot DEF Reads
<1>2. SUFFICES ASSUME T # {} PROVE FALSE
  <2>1. \A b \in Slot : b <= e => e - b \in Nat
    BY <1>1, BoundAssumption, SMT DEF Slot
  <2>2. T = {} => \A b \in Slot : b <= e /\ Boundary(b, R, top) => Good(b)
    BY <2>1 DEF T
  <2> QED BY <2>2 DEF Good
<1>3. PICK k \in T : \A j \in T : k <= j
  <2>1. T \subseteq Nat
    BY DEF T
  <2> QED BY <1>2, <2>1, LeastNat
<1>4. PICK b \in Slot : b <= e /\ Boundary(b, R, top) /\ e - b = k /\ ~Good(b)
  BY DEF T
<1>5. /\ b \in Lsa /\ b < MaxLsa /\ e \in Nat /\ b \in Nat
  BY <1>1, BoundAssumption, SMT DEF Slot, Lsa
<1>6. /\ f[b] = IF IsHeader(d[b]) THEN {d[b][1]} \cup f[d[b][1].start + d[b][1].len] ELSE {}
      /\ g[b] = IF IsHeader(d[b]) THEN g[d[b][1].start + d[b][1].len] ELSE b
  <2>1. f[b] = ChainStep(d, f)[b] /\ g[b] = EndStep(d, g)[b]
    BY DEF Follow
  <2> QED BY <2>1, <1>5 DEF ChainStep, EndStep
<1>7. \A n \in R : n.start \in Nat /\ n.len \in Nat /\ n.len > 0
  BY NodeFields DEF Tiles
<1>8. CASE b = e
  <2>1. ~IsHeader(d[b])
    BY <1>1, <1>8 DEF IsHeader
  <2>2. f[b] = {} /\ g[b] = e
    BY <1>6, <1>8, <2>1
  <2>3. {n \in R : b <= n.start /\ n.start < e} = {}
    BY <1>7, <1>8, <1>5, SMT
  <2> QED BY <2>2, <2>3, <1>4 DEF Good, ReadFrom
<1>9. CASE b < e
  <2>1. PICK n \in R : n.start = b
    BY <1>1, <1>4, <1>9, BoundaryRecord, SMT
  <2>2. d[b] = <<n, 0>> /\ IsHeader(d[b])
    <3>1. n.start < e
      BY <2>1, <1>9
    <3>2. d[n.start] = <<n, 0>> /\ IsHeader(d[n.start])
      BY <3>1, HeaderRead
    <3> QED BY <2>1, <3>2
  <2> DEFINE c == n.start + n.len
  <2>3. d[b][1] = n
    BY <2>2, SMT
  <2>4. f[b] = {n} \cup f[c] /\ g[b] = g[c]
    BY <1>6, <2>2, <2>3
  <2>5. c <= e
    BY <2>1, <1>9, <1>1, EndsBefore DEF End
  <2>6. Boundary(c, R, top) /\ c \in Slot
    <3>1. Boundary(c, R, top)
      BY DEF Tiles, End
    <3> HIDE DEF c
    <3> QED BY <3>1, BoundarySlot
  <2>7. Good(c)
    <3>1. e - c \in Nat /\ ~(k <= e - c) /\ e - c = e - c
      BY <2>5, <2>1, <1>4, <1>5, <1>7, SMT
    <3>2. e - c \notin T
      BY <1>3, <3>1
    <3> HIDE DEF c
    <3> QED BY <3>1, <3>2, <2>5, <2>6 DEF T
  <2>8. {m \in R : b <= m.start /\ m.start < e}
          = {n} \cup {m \in R : c <= m.start /\ m.start < e}
    <3>1. ASSUME NEW m \in R
          PROVE  b <= m.start /\ m.start < e <=> m = n \/ (c <= m.start /\ m.start < e)
      <4>1. b < m.start => c <= m.start
        BY <2>1 DEF Tiles, End
      <4>2. b = m.start => m = n
        BY <2>1 DEF Tiles
      <4>3. m.start \in Nat /\ c > b /\ c \in Nat
        BY <1>7, <2>1, <1>5, SMT
      <4> HIDE DEF c
      <4> QED BY <4>1, <4>2, <4>3, <2>1, <1>9, <1>5, SMT
    <3> QED BY <3>1
  <2> QED BY <2>4, <2>7, <2>8, <1>4 DEF Good, ReadFrom
<1> QED BY <1>4, <1>5, <1>8, <1>9, SMT

\* A restart that finds volume d reads the records up to e and stops there.
LEMMA ChainReads ==
  ASSUME NEW R, NEW top, Tiles(R, top), NEW d \in [Slot -> Cell], Placed(d),
         NEW e, Reads(d, e, R, top)
  PROVE  Chain(d) = {n \in R : n.start < e} /\ EndOf(d) = e
<1>1. PICK f : Chain(d) = f[0] /\ f = ChainStep(d, f)
  BY ChainUnfolds
<1>2. PICK g : EndOf(d) = g[0] /\ g = EndStep(d, g)
  BY EndUnfolds
<1>3. 0 \in Slot /\ 0 <= e /\ Boundary(0, R, top)
  <2>1. e \in Slot
    BY BoundarySlot DEF Reads
  <2>2. Boundary(0, R, top)
    BY DEF Tiles
  <2> QED BY <2>1, <2>2, BoundAssumption, SMT DEF Slot
<1>4. f[0] = {n \in R : 0 <= n.start /\ n.start < e} /\ g[0] = e
  <2>1. Follow(d, f, g)
    BY <1>1, <1>2 DEF Follow
  <2>2. \A b \in Slot : b <= e /\ Boundary(b, R, top) => ReadFrom(b, e, R, f, g)
    BY <2>1, ReadsFrom
  <2> QED BY <1>3, <2>2 DEF ReadFrom
<1>5. \A n \in R : 0 <= n.start
  <2>1. \A n \in R : n.start \in Nat
    BY NodeFields DEF Tiles
  <2> QED BY <2>1, SMT
<1> QED BY <1>1, <1>2, <1>4, <1>5

-----------------------------------------------------------------------------
(* The inductive invariant *)

\* The records of s follow one another from address a to address b.
Chained(s, a, b) ==
  /\ s = <<>> => a = b
  /\ s # <<>> => s[1].start = a /\ End(s[Len(s)]) = b
  /\ \A i \in 1 .. Len(s) - 1 : End(s[i]) = s[i + 1].start

\* Where the prior list starts.
PriorStart == IF prior = <<>> THEN priorLsa ELSE prior[1].start

\* Inside logpb_flush_all_append_pages.
FlushPcs == {"flush", "write", "sync", "writeFirst", "syncFirst", "clean"}

\* The end-of-log mark of a flush is in the page buffer ...
Marked == fpc \in FlushPcs \ {"flush"}

\* ... and hides the header of a record.
Hidden == Marked /\ delayed # Null

\* Where the append is, or goes on after a flush.
Where ==
  IF fpc \in FlushPcs THEN ret
  ELSE IF fpc \in {"free", "drain"} THEN "exit" ELSE fpc

\* The log, as it is before, during and after a crash.
LogInv ==
  /\ Tiles(recs, priorLsa)
  /\ nxio \in Slot /\ Boundary(nxio, recs, priorLsa)
  /\ mem \in [Slot -> Cell] /\ disk \in [Slot -> Cell] /\ save \in Cell
  /\ Placed(mem) /\ Placed(disk)

\* After a crash a restart reads everything up to nxio_lsa.
DownInv ==
  ~up => /\ pending = {}
         /\ \E e \in Slot : e >= nxio /\ Reads(disk, e, recs, priorLsa)

\* The prior list follows the list being appended, which follows the log.
QueueInv ==
  /\ prior \in Seq(recs) /\ list \in Seq(recs)
  /\ Chained(prior, PriorStart, priorLsa)
  /\ Chained(list, append - done, PriorStart)

\* How far the append is, by where it is in the code.
PlaceInv ==
  /\ append \in Slot /\ done \in Nat /\ done <= append
  /\ nxio <= append - done
  /\ Where \in {"exit", "append", "create", "end"}
  /\ fpc \notin FlushPcs => ret = "exit"
  /\ fpc \notin FlushPcs => fpc \in {"free", "drain", "exit", "append", "create", "end"}
  /\ cs = Null <=> fpc = "free"
  /\ Where = "exit" => list = <<>> /\ done = 0
  /\ Where # "exit" => list # <<>>
  /\ Where = "append" => done < list[1].len
  /\ Where = "end" => done = list[1].len
  /\ Where = "create" => append % PageSize = 0 /\ done <= list[1].len
  /\ done > 0 => prev = append - done
  /\ done = 0 => delayed = Null
  /\ done > 0 /\ fpc \in FlushPcs \cup {"create"} => delayed # Null
  /\ fpc \in {"create", "end"} => done > 0
  /\ fpc \in FlushPcs /\ ret # "exit" => done > 0
  /\ fpc = "exit" => nxio = append

\* The pages of the page buffer: the first one to flush is that of nxio_lsa.
PageInv ==
  /\ pg = IF Where = "create" THEN Null ELSE PageOf(append)
  /\ delayed # Null => delayed = PageOf(prev) /\ delayed # pg /\ delayed \in dirty
  /\ delayed = Null /\ done > 0 => pg = PageOf(prev)
  /\ toflush \in Seq(Page) /\ toflush # <<>> /\ toflush[1] = PageOf(nxio)
  /\ \A i, j \in 1 .. Len(toflush) : toflush[i] = toflush[j] => i = j
  /\ \A i \in 1 .. Len(toflush) :
       toflush[i] = pg \/ \E l \in 0 .. append - 1 : toflush[i] = PageOf(l)
  /\ pg # Null => \E i \in 1 .. Len(toflush) : toflush[i] = pg
  /\ dirty \subseteq Range(toflush)
  /\ nxio < append \/ Marked => PageOf(nxio) \in dirty
  /\ Marked => PageOf(NextIo) \in dirty
  /\ Len(toflush) <= MaxToflush
  /\ fpc \notin FlushPcs => Len(toflush) < MaxToflush

\* The page buffer holds the records that were appended, but for the mark.
MemInv ==
  /\ \A n \in recs : \A i \in 0 .. n.len - 1 :
       n.start + i < append /\ ~(Hidden /\ n.start + i = prev)
         => mem[n.start + i] = <<n, i>>
  /\ Hidden => save = <<list[1], 0>>
  /\ Marked => mem[NextIo] = Eof

\* The disk is behind the page buffer only in dirty pages, and a flush writes the
\* page of nxio_lsa last.
DiskInv ==
  /\ \A l \in 0 .. append - 1 : PageOf(l) \notin dirty => disk[l] = mem[l]
  /\ fpc \in {"writeFirst", "syncFirst", "clean"} =>
       \A l \in Slot : PageOf(l) \in dirty \ {PageOf(nxio)} => disk[l] = mem[l]
  /\ fpc = "clean" => \A l \in Slot : PageOf(l) = PageOf(nxio) => disk[l] = mem[l]
  /\ pending = CASE fpc = "sync" -> dirty \ {PageOf(nxio)}
                 [] fpc = "syncFirst" -> {PageOf(nxio)}
                 [] OTHER -> {}
  /\ fpc # "clean" => Reads(disk, nxio, recs, priorLsa)

\* While the server is up.
UpInv == up => QueueInv /\ PlaceInv /\ PageInv /\ MemInv /\ DiskInv

\* The inductive invariant of the log.
IInv == LogInv /\ DownInv /\ UpInv

\* Where the record being appended starts, or the append if there is none.
Base == append - done

\* The parts of the invariant while the server is up.
LEMMA UpParts ==
  ASSUME IInv, up
  PROVE  LogInv /\ QueueInv /\ PlaceInv /\ PageInv /\ MemInv /\ DiskInv
BY DEF IInv, UpInv

\* The pages of the log.
LEMMA PageFacts ==
  ASSUME NEW a \in Nat
  PROVE  /\ PageOf(a) \in Nat /\ PageOf(a) # Null
         /\ a % PageSize \in Nat
         /\ a = PageSize * PageOf(a) + (a % PageSize) /\ a % PageSize < PageSize
<1>1. a \div PageSize \in Nat /\ a % PageSize \in 0 .. PageSize - 1
      /\ a = PageSize * (a \div PageSize) + (a % PageSize)
  BY PageSizeAssumption, Z3
<1>2. a \div PageSize # Null
  BY <1>1, NullAssumption
<1> QED BY <1>1, <1>2, PageSizeAssumption, SMT DEF PageOf

\* Every address has a page.
LEMMA PageType ==
  ASSUME NEW l \in Slot
  PROVE  PageOf(l) \in Page /\ PageOf(l) # Null /\ l \in Nat
<1>1. l \in Nat
  BY BoundAssumption, SMT DEF Slot
<1> QED BY <1>1, PageFacts DEF Page

\* A page that starts at address a holds nothing before it.
LEMMA FreshPage ==
  ASSUME NEW a \in Nat, a % PageSize = 0, NEW l \in Nat, l < a
  PROVE  PageOf(l) # PageOf(a)
<1>1. /\ PageOf(a) \in Nat /\ PageOf(l) \in Nat
      /\ a = PageSize * PageOf(a) + (a % PageSize)
      /\ l = PageSize * PageOf(l) + (l % PageSize) /\ l % PageSize \in Nat
  BY PageFacts
<1>2. a = PageSize * PageOf(a) /\ l >= PageSize * PageOf(l)
  BY <1>1, PageSizeAssumption, SMT
<1> QED BY <1>1, <1>2, SMT

\* An address that does not start a page is in the page of the one before.
LEMMA SamePage ==
  ASSUME NEW a \in Nat, (a + 1) % PageSize # 0
  PROVE  PageOf(a + 1) = PageOf(a)
BY PageSizeAssumption, Z3 DEF PageOf

\* How far the log is while the server is up.
LEMMA UpFacts ==
  ASSUME IInv, up
  PROVE  /\ append \in Nat /\ append < MaxLsa /\ append \in Slot
         /\ done \in Nat /\ done <= append
         /\ nxio \in Nat /\ nxio \in Slot /\ nxio <= Base /\ Base \in Nat
         /\ priorLsa \in Nat /\ priorLsa < MaxLsa /\ priorLsa \in Slot
<1>1. append \in Slot /\ done \in Nat /\ done <= append /\ nxio <= append - done
  BY UpParts DEF PlaceInv
<1>2. nxio \in Slot /\ priorLsa \in Slot
  BY UpParts DEF LogInv, Tiles
<1> QED BY <1>1, <1>2, BoundAssumption, SMT DEF Slot, Base

\* The record being appended.
LEMMA HeadFacts ==
  ASSUME IInv, up, list # <<>>
  PROVE  /\ Head(list) = list[1] /\ list[1] \in recs /\ list[1] \in Node
         /\ list[1].start = Base
         /\ End(list[1]) <= priorLsa /\ list[1].len \in Nat /\ list[1].len > 0
         /\ End(list[1]) = Base + list[1].len
         /\ Len(list) \in Nat /\ Len(list) >= 1
<1>1. list \in Seq(recs) /\ list[1].start = append - done
  BY UpParts DEF QueueInv, Chained
<1>2. Len(list) \in Nat /\ Len(list) >= 1 /\ list[1] \in recs /\ Head(list) = list[1]
  BY <1>1, SMT
<1>3. list[1] \in Node /\ End(list[1]) <= priorLsa
  BY <1>2, UpParts DEF LogInv, Tiles
<1>4. list[1].len \in Nat /\ list[1].len > 0
  BY <1>3, NodeFields
<1> QED BY <1>1, <1>2, <1>3, <1>4 DEF Base, End

\* Where the prior list starts.
LEMMA PriorFacts ==
  ASSUME IInv, up
  PROVE  /\ PriorStart \in Nat /\ PriorStart <= priorLsa
         /\ Boundary(PriorStart, recs, priorLsa)
         /\ list = <<>> => Base = PriorStart
<1>1. prior \in Seq(recs) /\ Tiles(recs, priorLsa)
  BY UpParts DEF QueueInv, LogInv
<1>2. list = <<>> => Base = PriorStart
  BY UpParts DEF QueueInv, Chained, Base
<1>3. Boundary(PriorStart, recs, priorLsa)
  <2>1. CASE prior = <<>>
    BY <2>1 DEF PriorStart, Boundary
  <2>2. CASE prior # <<>>
    <3>1. prior[1] \in recs
      BY <1>1, <2>2, SMT
    <3> QED BY <2>2, <3>1 DEF PriorStart, Boundary
  <2> QED BY <2>1, <2>2
<1>4. PriorStart \in Slot /\ PriorStart <= priorLsa
  BY <1>1, <1>3, BoundarySlot
<1>5. PriorStart \in Nat
  BY <1>4, BoundAssumption, SMT DEF Slot
<1> QED BY <1>2, <1>3, <1>4, <1>5

\* A flush may stop at the record that is being appended.
LEMMA BaseFacts ==
  ASSUME IInv, up
  PROVE  /\ Boundary(Base, recs, priorLsa) /\ Base \in Slot /\ Base <= append
         /\ append <= priorLsa
         /\ done > 0 => list # <<>> /\ prev = Base /\ done <= list[1].len
         /\ done = 0 => Base = append /\ delayed = Null
<1>1. CASE list = <<>>
  <2>1. Where = "exit"
    BY <1>1, UpParts DEF PlaceInv
  <2>2. done = 0 /\ delayed = Null
    BY <2>1, UpParts DEF PlaceInv
  <2>3. Base = append /\ ~(done > 0)
    BY <2>2, UpFacts, SMT DEF Base
  <2>4. Base = PriorStart /\ Boundary(PriorStart, recs, priorLsa) /\ PriorStart <= priorLsa
    BY <1>1, PriorFacts
  <2>5. append \in Slot /\ append <= append
    BY UpFacts, SMT
  <2> QED BY <2>2, <2>3, <2>4, <2>5
<1>2. CASE list # <<>>
  <2>1. Boundary(Base, recs, priorLsa)
    BY <1>2, HeadFacts DEF Boundary
  <2>2. Base \in Slot
    BY <2>1, UpParts, BoundarySlot DEF LogInv
  <2>3. /\ Where \in {"append", "end", "create"}
        /\ Where = "append" => done < list[1].len
        /\ Where = "end" => done = list[1].len
        /\ Where = "create" => done <= list[1].len
        /\ done > 0 => prev = append - done
        /\ done = 0 => delayed = Null
    BY <1>2, UpParts DEF PlaceInv
  <2>4. done <= list[1].len
    BY <2>3, <1>2, HeadFacts, UpFacts, SMT
  <2>5. append <= priorLsa
    BY <2>4, <1>2, HeadFacts, UpFacts, SMT DEF Base
  <2>6. Base <= append /\ (done = 0 => Base = append) /\ (done > 0 => prev = Base)
    BY <2>3, UpFacts, SMT DEF Base
  <2> QED BY <1>2, <2>1, <2>2, <2>3, <2>4, <2>5, <2>6
<1> QED BY <1>1, <1>2

\* A flush leaves the record that is being appended unwritten.
LEMMA NextIoFacts ==
  ASSUME IInv, up, fpc \in FlushPcs
  PROVE  /\ NextIo = Base /\ (delayed # Null <=> done > 0)
         /\ delayed # Null => prev = Base
<1>1. done > 0 => delayed # Null
  BY UpParts DEF PlaceInv
<1>2. done = 0 \/ done > 0
  BY UpFacts, SMT
<1>3. done = 0 => ~(done > 0)
  BY UpFacts, SMT
<1> QED BY <1>1, <1>2, <1>3, BaseFacts DEF NextIo

-----------------------------------------------------------------------------
(* Every step keeps it *)

\* The state the invariant is about.
logState == <<recs, priorLsa, prior, list, done, append, prev, pg, delayed, toflush, dirty,
              mem, save, nxio, disk, pending, cs, fpc, ret, up>>

\* Initially the log is empty.
LEMMA LogInit == Init => IInv
<1> SUFFICES ASSUME Init PROVE IInv
  OBVIOUS
<1>1. 0 \in Slot /\ Slot \subseteq Nat
  BY BoundAssumption, SMT DEF Slot
<1>2. PageOf(0) = 0 /\ 0 % PageSize = 0
  BY PageSizeAssumption, Z3 DEF PageOf
<1>3. /\ recs = {} /\ priorLsa = 0 /\ prior = <<>> /\ list = <<>> /\ done = 0 /\ append = 0
      /\ pg = 0 /\ delayed = Null /\ toflush = <<0>> /\ dirty = {} /\ mem = EmptyLog
      /\ save = Null /\ nxio = 0 /\ disk = EmptyLog /\ pending = {}
      /\ cs = Null /\ fpc = "free" /\ ret = "exit" /\ up = TRUE
  BY DEF Init
<1>4. EmptyLog \in [Slot -> Cell] /\ EmptyLog[0] = Eof /\ \A l \in Slot : EmptyLog[l] \notin Piece
  <2>1. \A l \in Slot : EmptyLog[l] \in {Null, Eof}
    BY DEF EmptyLog
  <2> QED BY <1>1, <2>1, CellAssumption DEF EmptyLog, Cell
<1>5. Placed(EmptyLog)
  BY <1>4 DEF Placed
<1>6. Tiles({}, 0) /\ Boundary(0, {}, 0)
  BY <1>1 DEF Tiles, Boundary
<1>7. LogInv
  BY <1>1, <1>3, <1>4, <1>5, <1>6 DEF LogInv, Cell
<1>8. PriorStart = 0
  BY <1>3 DEF PriorStart
<1>9. QueueInv
  BY <1>3, <1>8, SMT DEF QueueInv, Chained
<1>10. ~Marked /\ ~Hidden /\ Where = "exit"
  BY <1>3 DEF Marked, Hidden, Where, FlushPcs
<1>11. PlaceInv
  BY <1>1, <1>3, <1>10, SMT DEF PlaceInv, FlushPcs
<1>12. PageInv
  <2>1. pg = PageOf(append) /\ toflush \in Seq(Page) /\ toflush # <<>> /\ toflush[1] = PageOf(nxio)
    BY <1>1, <1>2, <1>3, SMT DEF Page
  <2>2. Len(toflush) = 1
    BY <1>3, SMT
  <2> QED BY <1>2, <1>3, <1>10, <2>1, <2>2, ToflushAssumption, SMT DEF PageInv, FlushPcs
<1>13. MemInv
  BY <1>3, <1>10 DEF MemInv
<1>14. DiskInv
  <2>1. Reads(disk, nxio, recs, priorLsa)
    BY <1>3, <1>4, <1>6 DEF Reads
  <2> QED BY <1>3, <2>1, SMT DEF DiskInv
<1> QED BY <1>3, <1>7, <1>9, <1>11, <1>12, <1>13, <1>14 DEF IInv, UpInv, DownInv

\* The steps of those who only wait for the log do not touch it.
LEMMA LogUnused ==
  ASSUME \/ \E t \in Trans : CommitStep(t) \/ CommitTimeout(t) \/ PageCopy(t)
         \/ LftCheck \/ LftTimeout \/ LftContinue \/ LftBroadcast \/ PageWrite
         \/ UNCHANGED vars
  PROVE  UNCHANGED logState
BY DEF CommitStep, CommitTest, CommitWait, CommitTimeout, PageCopy, LftCheck, LftTimeout,
   LftContinue, LftBroadcast, PageWrite, logState, tranVars, bufVars, diskVars, csVars, runVars,
   vars

\* ... so they keep the invariant.
LEMMA LogStutters ==
  ASSUME IInv, UNCHANGED logState
  PROVE  IInv'
<1>1. UNCHANGED <<Marked, Hidden, Where, PriorStart, NextIo>>
  BY DEF logState, Marked, Hidden, Where, PriorStart, NextIo
<1>2. LogInv' /\ DownInv'
  BY DEF logState, IInv, LogInv, DownInv
<1>3. QueueInv => QueueInv'
  BY <1>1 DEF logState, QueueInv
<1>4. PlaceInv => PlaceInv'
  BY <1>1 DEF logState, PlaceInv
<1>5. PageInv => PageInv'
  BY <1>1 DEF logState, PageInv
<1>6. MemInv => MemInv'
  BY <1>1 DEF logState, MemInv
<1>7. DiskInv => DiskInv'
  BY <1>1 DEF logState, DiskInv
<1>8. up' = up
  BY DEF logState
<1> QED BY <1>2, <1>3, <1>4, <1>5, <1>6, <1>7, <1>8 DEF IInv, UpInv

\* A thread enters LOG_CS.
LEMMA LogEnter ==
  ASSUME IInv, (\E t \in Trans : DirectEnter(t)) \/ LftEnter \/ PageEnter
  PROVE  IInv'
<1>1. /\ UNCHANGED <<recs, priorLsa, prior, list, done, append, prev, pg, delayed, toflush, dirty,
                     mem, save, nxio, disk, pending, up>>
      /\ cs = Null /\ cs' # Null /\ fpc' = "drain" /\ ret' = "exit" /\ up
  <2>1. /\ UNCHANGED <<list, done, append, prev, pg, delayed, toflush, dirty, mem, save>>
        /\ UNCHANGED <<recs, priorLsa, prior, nxio, disk, pending, up>> /\ up
    BY DEF DirectEnter, LftEnter, PageEnter, tranVars, bufVars, diskVars, runVars
  <2>2. cs = Null /\ cs' # Null /\ fpc' = "drain" /\ ret' = "exit"
    BY NullAssumption DEF DirectEnter, LftEnter, PageEnter, EnterLogCs, LFT, PB
  <2> QED BY <2>1, <2>2
<1>2. fpc = "free" /\ ret = "exit"
  BY <1>1, UpParts DEF PlaceInv, FlushPcs
<1>3. ~Marked /\ ~Marked' /\ ~Hidden /\ ~Hidden' /\ UNCHANGED <<Where, PriorStart>>
  BY <1>1, <1>2 DEF Marked, Hidden, Where, PriorStart, FlushPcs
<1>4. LogInv'
  BY <1>1, UpParts DEF LogInv
<1>5. QueueInv'
  BY <1>1, <1>3, UpParts DEF QueueInv
<1>6. PlaceInv'
  BY <1>1, <1>2, <1>3, UpParts DEF PlaceInv, FlushPcs
<1>7. PageInv'
  BY <1>1, <1>2, <1>3, UpParts DEF PageInv, FlushPcs
<1>8. MemInv'
  BY <1>1, <1>3, UpParts DEF MemInv
<1>9. DiskInv'
  BY <1>1, <1>2, UpParts DEF DiskInv
<1> QED BY <1>1, <1>4, <1>5, <1>6, <1>7, <1>8, <1>9 DEF IInv, UpInv, DownInv

\* A record added at the end of the log extends it.
LEMMA TilesAdd ==
  ASSUME NEW R, NEW top, Tiles(R, top), NEW n \in Node, n.start = top, End(n) < MaxLsa
  PROVE  /\ Tiles(R \cup {n}, End(n))
         /\ \A e : Boundary(e, R, top) => Boundary(e, R \cup {n}, End(n))
<1> DEFINE Q == R \cup {n}
           T == End(n)
<1>1. /\ R \subseteq Node /\ top \in Slot
      /\ \A m \in R : End(m) <= top /\ Boundary(End(m), R, top)
      /\ \A m, k \in R : m.start < k.start => End(m) <= k.start
      /\ \A m, k \in R : m.start = k.start => m = k
      /\ Boundary(0, R, top)
      /\ top # 0 => \E m \in R : End(m) = top
      /\ \A k \in R : k.start # 0 => \E m \in R : End(m) = k.start
  BY DEF Tiles
<1>2. top \in Nat /\ T \in Nat /\ T \in Slot /\ top < T
  <2>1. n.start \in Nat /\ n.len \in Nat /\ n.len > 0
    BY NodeFields
  <2>2. End(n) \in Nat /\ End(n) > n.start
    BY <2>1, SMT DEF End
  <2> QED BY <2>1, <2>2, BoundAssumption, SMT DEF Slot
<1>3. \A m \in R : End(m) <= top /\ m.start \in Nat /\ m.start < top /\ End(m) \in Nat
  <2>1. \A m \in R : m.start \in Nat /\ m.len \in Nat /\ m.len > 0 /\ m.start + m.len <= top
    BY <1>1, NodeFields DEF End
  <2> QED BY <2>1, <1>2, SMT DEF End
<1>4. \A e : Boundary(e, R, top) => Boundary(e, Q, T)
  BY DEF Boundary
<1>5. \A m \in Q : End(m) <= T /\ Boundary(End(m), Q, T)
  <2>1. \A m \in R : End(m) <= T
    BY <1>2, <1>3, SMT
  <2>2. T <= T /\ Boundary(T, Q, T)
    BY <1>2, SMT DEF Boundary
  <2> QED BY <2>1, <2>2, <1>1, <1>4
<1>6. \A m, k \in Q : m.start < k.start => End(m) <= k.start
  <2>1. \A k \in R : ~(n.start < k.start)
    BY <1>2, <1>3, SMT
  <2>2. ~(n.start < n.start)
    BY <1>2, SMT
  <2> HIDE DEF T
  <2> QED BY <1>1, <1>3, <2>1, <2>2
<1>7. \A m, k \in Q : m.start = k.start => m = k
  <2>1. \A k \in R : k.start # top
    BY <1>2, <1>3, SMT
  <2> QED BY <1>1, <2>1
<1>8. T # 0 => \E m \in Q : End(m) = T
  OBVIOUS
<1>9. \A k \in Q : k.start # 0 => \E m \in Q : End(m) = k.start
  BY <1>1
<1>10. Q \subseteq Node
  BY <1>1
<1> HIDE DEF Q, T
<1>11. Tiles(Q, T)
  BY <1>1, <1>2, <1>4, <1>5, <1>6, <1>7, <1>8, <1>9, <1>10 DEF Tiles
<1> QED BY <1>4, <1>11 DEF Q, T

\* A list of records of a set is one of a larger set.
LEMMA SeqWidens ==
  ASSUME NEW R, NEW Q, R \subseteq Q, NEW s \in Seq(R)
  PROVE  s \in Seq(Q)
<1>1. s \in [1 .. Len(s) -> Q] /\ Len(s) \in Nat
  BY SMT
<1> QED BY <1>1, SMT

\* A sequence of records grows at its end.
LEMMA ChainedAppend ==
  ASSUME NEW R, NEW s \in Seq(R), NEW a, NEW b, Chained(s, a, b), NEW n, n.start = b
  PROVE  Chained(Append(s, n), IF s = <<>> THEN n.start ELSE s[1].start, End(n))
<1> DEFINE q == Append(s, n)
<1>1. /\ Len(q) = Len(s) + 1 /\ Len(s) \in Nat /\ q[Len(s) + 1] = n /\ q # <<>>
      /\ \A i \in 1 .. Len(s) : q[i] = s[i]
  BY SMT
<1>2. q[1].start = IF s = <<>> THEN n.start ELSE s[1].start
  <2>1. CASE s = <<>>
    BY <2>1, SMT
  <2>2. CASE s # <<>>
    <3>1. 1 \in 1 .. Len(s)
      BY <2>2, SMT
    <3> QED BY <1>1, <2>2, <3>1
  <2> QED BY <2>1, <2>2
<1>3. End(q[Len(q)]) = End(n)
  BY <1>1
<1>4. ASSUME NEW i \in 1 .. Len(q) - 1 PROVE End(q[i]) = q[i + 1].start
  <2>1. i \in 1 .. Len(s)
    BY <1>1, SMT
  <2>2. CASE i = Len(s)
    <3>1. s # <<>>
      BY <2>1, <2>2, SMT
    <3>2. End(s[Len(s)]) = n.start
      BY <3>1 DEF Chained
    <3> QED BY <2>1, <2>2, <3>2, <1>1
  <2>3. CASE i # Len(s)
    <3>1. i \in 1 .. Len(s) - 1 /\ i + 1 \in 1 .. Len(s)
      BY <2>1, <2>3, SMT
    <3>2. End(s[i]) = s[i + 1].start
      BY <3>1 DEF Chained
    <3> QED BY <3>1, <3>2, <2>1, <1>1
  <2> QED BY <2>2, <2>3
<1> HIDE DEF q
<1>5. Chained(q, IF s = <<>> THEN n.start ELSE s[1].start, End(n))
  BY <1>1, <1>2, <1>3, <1>4 DEF Chained
<1> QED BY <1>5 DEF q

\* The first of a list that grows at its end.
LEMMA AppendFirst ==
  ASSUME NEW R, NEW s \in Seq(R), NEW n
  PROVE  /\ Append(s, n) # <<>>
         /\ s = <<>> => Append(s, n)[1] = n
         /\ s # <<>> => Append(s, n)[1] = s[1]
<1>1. CASE s = <<>>
  BY <1>1, SMT
<1>2. CASE s # <<>>
  <2>1. Len(s) \in Nat /\ Len(s) # 0
    BY <1>2, SMT
  <2> QED BY <1>2, <2>1, SMT
<1> QED BY <1>1, <1>2, SMT

\* A record joins the log and the prior list.
LEMMA LogRecord ==
  ASSUME IInv, up, NEW n \in Node, n.start = priorLsa, NextRecord(n),
         UNCHANGED <<list, done, append, prev, pg, delayed, toflush, dirty, mem, save,
                     nxio, disk, pending, cs, fpc, ret, up>>
  PROVE  IInv'
<1>1. recs' = recs \cup {n} /\ priorLsa' = End(n) /\ prior' = Append(prior, n) /\ End(n) < MaxLsa
  BY DEF NextRecord, End
<1>2. Tiles(recs, priorLsa)
  BY UpParts DEF LogInv
<1>3. /\ Tiles(recs', priorLsa')
      /\ \A e : Boundary(e, recs, priorLsa) => Boundary(e, recs', priorLsa')
  BY <1>1, <1>2, TilesAdd
<1>4. LogInv'
  BY <1>3, UpParts DEF LogInv
<1>5. QueueInv'
  <2>1. /\ prior \in Seq(recs) /\ list \in Seq(recs)
        /\ Chained(prior, PriorStart, priorLsa) /\ Chained(list, append - done, PriorStart)
    BY UpParts DEF QueueInv
  <2>2. list \in Seq(recs') /\ Append(prior, n) \in Seq(recs')
    <3>1. recs \subseteq recs' /\ n \in recs'
      BY <1>1
    <3>2. prior \in Seq(recs') /\ list \in Seq(recs')
      BY <2>1, <3>1, SeqWidens
    <3> QED BY <3>1, <3>2, SMT
  <2>3. /\ Append(prior, n) # <<>>
        /\ prior = <<>> => Append(prior, n)[1] = n
        /\ prior # <<>> => Append(prior, n)[1] = prior[1]
    BY <2>1, AppendFirst
  <2>4. PriorStart' = PriorStart /\ PriorStart = IF prior = <<>> THEN n.start ELSE prior[1].start
    BY <2>3, <1>1 DEF PriorStart
  <2>5. Chained(prior', PriorStart, End(n))
    BY <1>1, <2>1, <2>4, ChainedAppend
  <2> QED BY <1>1, <2>1, <2>2, <2>4, <2>5 DEF QueueInv
<1>6. UNCHANGED <<Marked, Hidden, Where, NextIo>>
  BY DEF Marked, Hidden, Where, NextIo
<1>7. PlaceInv'
  BY <1>6, UpParts DEF PlaceInv
<1>8. PageInv'
  BY <1>6, UpParts DEF PageInv
<1>9. MemInv'
  <2>1. \A i \in 0 .. n.len - 1 : ~(n.start + i < append)
    BY UpFacts, BaseFacts, SMT
  <2> QED BY <1>1, <1>6, <2>1, UpParts DEF MemInv
<1>10. Reads(disk, nxio, recs, priorLsa) => Reads(disk', nxio', recs', priorLsa')
  <2>1. ~(n.start < nxio)
    BY UpFacts, BaseFacts, SMT
  <2> QED BY <1>1, <1>3, <2>1 DEF Reads
<1>11. DiskInv'
  BY <1>10, UpParts DEF DiskInv
<1> QED BY <1>4, <1>5, <1>7, <1>8, <1>9, <1>11 DEF IInv, UpInv, DownInv

\* A transaction logs a record.
LEMMA LogAppends ==
  ASSUME IInv, NEW t \in Trans, Update(t) \/ Commit(t)
  PROVE  IInv'
<1>1. priorLsa \in Slot
  BY DEF IInv, LogInv, Tiles
<1>2. ASSUME NEW ty \in {"update", "commit"}, NEW k \in Nat \ {0},
             NextRecord([tran |-> t, type |-> ty, start |-> priorLsa, len |-> k]),
             up, UNCHANGED <<bufVars, nxio, diskVars, csVars, runVars>>
      PROVE  IInv'
  <2> DEFINE n == [tran |-> t, type |-> ty, start |-> priorLsa, len |-> k]
  <2>1. n.start = priorLsa /\ n.len = k
    BY SMT
  <2>2. priorLsa + k < MaxLsa
    BY <1>2, <2>1 DEF NextRecord
  <2>3. k \in 1 .. MaxLsa
    BY <1>1, <2>2, BoundAssumption, SMT DEF Slot
  <2>4. n \in Node
    BY <1>1, <2>3, SMT DEF Node
  <2>5. UNCHANGED <<list, done, append, prev, pg, delayed, toflush, dirty, mem, save,
                    nxio, disk, pending, cs, fpc, ret, up>>
    BY <1>2 DEF bufVars, diskVars, csVars, runVars
  <2>6. NextRecord(n)
    BY <1>2
  <2> HIDE DEF n
  <2> QED BY <1>2, <2>1, <2>4, <2>5, <2>6, LogRecord
<1>3. CASE Update(t)
  BY <1>3, <1>2, LengthAssumption DEF Update
<1>4. CASE Commit(t)
  BY <1>4, <1>2, LengthAssumption DEF Commit
<1> QED BY <1>3, <1>4

\* The owner of LOG_CS takes over the prior list.
LEMMA LogDrain ==
  ASSUME IInv, Drain
  PROVE  IInv'
<1>1. /\ UNCHANGED <<recs, priorLsa, done, append, prev, pg, delayed, toflush, dirty, mem, save>>
      /\ UNCHANGED <<nxio, disk, pending, cs, ret, up>>
      /\ up /\ fpc = "drain" /\ list' = prior /\ prior' = <<>>
      /\ fpc' = IF prior = <<>> THEN "flush" ELSE "append"
  BY DEF Drain, ownerFrame, diskVars, runVars
<1>2. /\ ret = "exit" /\ Where = "exit" /\ list = <<>> /\ done = 0 /\ ~Marked
      /\ fpc' \in {"flush", "append"}
  <2>1. Where = "exit" /\ ~Marked
    BY <1>1 DEF Where, Marked, FlushPcs
  <2>2. ret = "exit"
    BY <1>1, UpParts DEF PlaceInv, FlushPcs
  <2> QED BY <1>1, <2>1, <2>2, UpParts DEF PlaceInv
<1>3. ~Marked' /\ ~Hidden' /\ Where' = IF prior = <<>> THEN "exit" ELSE "append"
  BY <1>1, <1>2 DEF Where, Marked, Hidden, FlushPcs
<1>4. LogInv'
  BY <1>1, UpParts DEF LogInv
<1>5. QueueInv'
  <2>1. PriorStart' = priorLsa /\ Base = PriorStart
    BY <1>1, <1>2, PriorFacts DEF PriorStart
  <2>2. prior \in Seq(recs) /\ Chained(prior, append - done, priorLsa)
    <3>1. prior \in Seq(recs) /\ Chained(prior, PriorStart, priorLsa)
      BY <1>1, UpParts DEF QueueInv
    <3> QED BY <2>1, <3>1 DEF Base
  <2>3. <<>> \in Seq(recs)
    BY SMT
  <2>4. Chained(<<>>, priorLsa, priorLsa)
    BY SMT DEF Chained
  <2> QED BY <1>1, <2>1, <2>2, <2>3, <2>4 DEF QueueInv
<1>6. PlaceInv'
  <2>1. prior # <<>> => 0 < prior[1].len
    <3>1. prior \in Seq(recs) /\ recs \subseteq Node
      BY <1>1, UpParts DEF QueueInv, LogInv, Tiles
    <3>2. prior # <<>> => prior[1] \in Node
      BY <3>1, SMT
    <3> QED BY <3>2, NodeFields, SMT
  <2>2. ~(0 > 0)
    BY SMT
  <2> QED BY <1>1, <1>2, <1>3, <2>1, <2>2, UpParts DEF PlaceInv, FlushPcs
<1>7. PageInv'
  BY <1>1, <1>2, <1>3, UpParts DEF PageInv, FlushPcs
<1>8. MemInv'
  BY <1>1, <1>2, <1>3, UpParts DEF MemInv, Hidden
<1>9. DiskInv'
  BY <1>1, <1>2, UpParts DEF DiskInv
<1> QED BY <1>1, <1>4, <1>5, <1>6, <1>7, <1>8, <1>9 DEF IInv, UpInv, DownInv

\* What pending is, by where the flush is.
LEMMA NothingPending ==
  ASSUME DiskInv, fpc \notin {"sync", "syncFirst"}
  PROVE  pending = {}
BY DEF DiskInv

\* A slot of the record being appended goes to the page buffer.
LEMMA LogAppendSlot ==
  ASSUME IInv, AppendSlot
  PROVE  IInv'
<1> DEFINE n == list[1]
<1>1. /\ UNCHANGED <<recs, priorLsa, prior, list, toflush, save, nxio, disk, pending, cs, up>>
      /\ up /\ fpc = "append"
      /\ mem' = [mem EXCEPT ![append] = <<Head(list), done>>]
      /\ prev' = PrevLsa /\ dirty' = dirty \cup {PageOf(append)}
      /\ append' = append + 1 /\ done' = done + 1
  BY DEF AppendSlot, ownerFrame, diskVars, runVars
<1>2. /\ ret = "exit" /\ Where = "append" /\ list # <<>> /\ done < n.len /\ ~Marked /\ ~Hidden
      /\ pending = {} /\ cs # Null
  <2>1. Where = "append" /\ ~Marked /\ ~Hidden
    BY <1>1 DEF Where, Marked, Hidden, FlushPcs
  <2>2. ret = "exit" /\ list # <<>> /\ done < n.len /\ cs # Null
    BY <1>1, <2>1, UpParts DEF PlaceInv, FlushPcs
  <2> QED BY <1>1, <2>1, <2>2, UpParts, NothingPending
<1>3. /\ Head(list) = n /\ n \in recs /\ n \in Node /\ n.start = Base /\ n.len \in Nat
      /\ Base + n.len <= priorLsa
  BY <1>1, <1>2, HeadFacts
<1>4. /\ append \in Nat /\ done \in Nat /\ Base = append - done /\ nxio \in Nat /\ nxio <= Base
      /\ priorLsa \in Nat /\ priorLsa < MaxLsa /\ append < MaxLsa /\ append \in Slot
      /\ Base \in Nat /\ n.start + done = append /\ done <= append
  <2>1. /\ append \in Nat /\ done \in Nat /\ nxio \in Nat /\ nxio <= Base /\ Base \in Nat
        /\ priorLsa \in Nat /\ priorLsa < MaxLsa /\ append < MaxLsa /\ append \in Slot
        /\ done <= append
    BY <1>1, UpFacts
  <2> HIDE DEF n
  <2> QED BY <2>1, <1>3, SMT DEF Base
<1>5. /\ append' \in Slot /\ done' \in Nat /\ done' > 0 /\ done' <= append' /\ append' - done' = Base
      /\ nxio <= append' - done' /\ done' <= n.len /\ append' = append + 1 /\ done \in 0 .. MaxLsa
  <2> HIDE DEF n
  <2> QED BY <1>1, <1>2, <1>3, <1>4, BoundAssumption, SMT DEF Slot
<1>6. prev' = Base /\ (done > 0 => prev = Base) /\ (done = 0 => append = Base)
  <2>1. (done > 0 => prev = Base) /\ (done = 0 => append = Base) /\ (done = 0 \/ done > 0)
    BY <1>1, <1>4, BaseFacts, SMT
  <2> QED BY <1>1, <2>1 DEF PrevLsa
<1>7. \/ /\ append' % PageSize # 0 /\ fpc' = AfterSlot(done') /\ UNCHANGED <<pg, delayed, ret>>
      \/ /\ append' % PageSize = 0
         /\ delayed' = IF delayed = Null THEN PageOf(append) ELSE delayed
         /\ pg' = Null
         /\ (fpc' = "create" /\ ret' = ret) \/ (fpc' = "flush" /\ ret' = "create")
  BY DEF AppendSlot
<1>8. \/ /\ append' % PageSize # 0 /\ UNCHANGED <<pg, delayed, ret>>
         /\ fpc' = (IF done' = n.len THEN "end" ELSE "append") /\ Where' = fpc'
      \/ /\ append' % PageSize = 0 /\ Where' = "create"
         /\ delayed' = IF delayed = Null THEN PageOf(append) ELSE delayed
         /\ pg' = Null
         /\ (fpc' = "create" /\ ret' = "exit") \/ (fpc' = "flush" /\ ret' = "create")
  <2>1. AfterSlot(done') = IF done' = n.len THEN "end" ELSE "append"
    BY <1>3 DEF AfterSlot
  <2> HIDE DEF n
  <2> QED BY <1>2, <1>7, <2>1 DEF Where, FlushPcs
<1>9. ~Marked' /\ ~Hidden' /\ fpc' \in {"append", "end", "create", "flush"}
  BY <1>8 DEF Marked, Hidden, FlushPcs
<1>10. PageOf(append) \in Page /\ PageOf(append) # Null /\ PageOf(Base) # Null
  BY <1>4, PageType, PageFacts
<1>11. LogInv'
  <2>1. <<n, done>> \in Piece
    BY <1>3, <1>5, SMT DEF Piece
  <2>2. End(n) < MaxLsa
    <3>1. End(n) = Base + n.len
      BY <1>3 DEF End
    <3> HIDE DEF n
    <3> QED BY <3>1, <1>3, <1>4, BoundAssumption, SMT
  <2>3. mem \in [Slot -> Cell] /\ Placed(mem)
    BY <1>1, UpParts DEF LogInv
  <2>4. mem' \in [Slot -> Cell]
    BY <1>1, <1>3, <2>1, <2>3 DEF Cell
  <2>5. Placed(mem')
    <3>1. \A l \in Slot : mem'[l] = IF l = append THEN <<n, done>> ELSE mem[l]
      BY <1>1, <1>3, <2>3
    <3>2. <<n, done>>[1] = n /\ <<n, done>>[2] = done
      OBVIOUS
    <3> HIDE DEF n
    <3> QED BY <1>4, <2>2, <2>3, <3>1, <3>2 DEF Placed
  <2> QED BY <1>1, <2>4, <2>5, UpParts DEF LogInv
<1>12. QueueInv'
  <2>1. PriorStart' = PriorStart
    BY <1>1 DEF PriorStart
  <2> QED BY <1>1, <1>4, <1>5, <2>1, UpParts DEF QueueInv
<1>13. PlaceInv'
  <2> HIDE DEF n
  <2>1. /\ Where' \in {"append", "end", "create"}
        /\ fpc' \notin FlushPcs => ret' = "exit"
        /\ fpc' \in {"append", "end", "create"} \cup FlushPcs /\ fpc' # "free" /\ fpc' # "exit"
        /\ Where' = "create" => append' % PageSize = 0
        /\ Where' = "append" => done' # n.len
        /\ Where' = "end" => done' = n.len
    BY <1>2, <1>8 DEF FlushPcs
  <2>2. done' # n.len => done' < n.len
    BY <1>5, <1>3, SMT
  <2>3. fpc' \in FlushPcs \cup {"create"} => delayed' # Null
    BY <1>8, <1>10 DEF FlushPcs
  <2>4. done' # 0
    BY <1>5, SMT
  <2> QED BY <1>1, <1>2, <1>5, <1>6, <2>1, <2>2, <2>3, <2>4 DEF PlaceInv, n
<1>14. PageInv'
  <2>1. /\ pg = PageOf(append)
        /\ delayed # Null => delayed = PageOf(prev) /\ delayed # pg /\ delayed \in dirty
        /\ delayed = Null /\ done > 0 => pg = PageOf(prev)
        /\ delayed # Null => done # 0
    BY <1>1, <1>2, UpParts DEF PageInv, PlaceInv
  <2>2. PageOf(append) = PageOf(Base) \/ delayed # Null
    <3>1. done = 0 \/ done > 0
      BY <1>4, SMT
    <3> QED BY <2>1, <3>1, <1>6
  <2>3. delayed # Null => delayed = PageOf(Base)
    <3>1. done = 0 \/ done > 0
      BY <1>4, SMT
    <3> QED BY <2>1, <3>1, <1>6
  <2>4. append' % PageSize # 0 => PageOf(append') = PageOf(append)
    BY <1>4, <1>5, SamePage
  <2>5. /\ pg' = IF Where' = "create" THEN Null ELSE PageOf(append')
        /\ delayed' # Null => delayed' = PageOf(prev') /\ delayed' # pg' /\ delayed' \in dirty'
        /\ delayed' = Null /\ done' > 0 => pg' = PageOf(prev')
    <3>1. CASE append' % PageSize # 0
      <4>1. UNCHANGED <<pg, delayed>> /\ Where' # "create"
        BY <3>1, <1>8
      <4> QED BY <4>1, <3>1, <2>1, <2>2, <2>3, <2>4, <1>1, <1>6
    <3>2. CASE append' % PageSize = 0
      <4>1. /\ Where' = "create" /\ pg' = Null
            /\ delayed' = IF delayed = Null THEN PageOf(append) ELSE delayed
        BY <3>2, <1>8
      <4> QED BY <4>1, <2>1, <2>2, <2>3, <1>1, <1>6, <1>10
    <3> QED BY <3>1, <3>2
  <2>6. /\ toflush \in Seq(Page) /\ toflush # <<>> /\ toflush[1] = PageOf(nxio)
        /\ \A i, j \in 1 .. Len(toflush) : toflush[i] = toflush[j] => i = j
        /\ \A i \in 1 .. Len(toflush) :
             toflush[i] = pg \/ \E l \in 0 .. append - 1 : toflush[i] = PageOf(l)
        /\ \E i \in 1 .. Len(toflush) : toflush[i] = pg
        /\ dirty \subseteq Range(toflush)
        /\ nxio < append => PageOf(nxio) \in dirty
        /\ Len(toflush) <= MaxToflush /\ Len(toflush) < MaxToflush
    BY <1>1, <1>10, <2>1, UpParts DEF PageInv, FlushPcs
  <2>7. \A i \in 1 .. Len(toflush) : \E l \in 0 .. append' - 1 : toflush[i] = PageOf(l)
    <3>1. append \in 0 .. append' - 1 /\ 0 .. append - 1 \subseteq 0 .. append' - 1
      BY <1>4, <1>5, SMT
    <3> QED BY <3>1, <2>1, <2>6
  <2>8. pg' # Null => pg' = pg
    BY <1>8
  <2>9. dirty' \subseteq Range(toflush)
    <3>1. DOMAIN toflush = 1 .. Len(toflush)
      BY <2>6, SMT
    <3>2. PageOf(append) \in Range(toflush)
      BY <3>1, <2>1, <2>6 DEF Range
    <3> QED BY <3>2, <2>6, <1>1
  <2>10. PageOf(nxio) \in dirty'
    <3>1. nxio < append \/ nxio = append
      BY <1>4, SMT
    <3> QED BY <3>1, <2>6, <1>1
  <2> QED BY <1>1, <1>9, <2>5, <2>6, <2>7, <2>8, <2>9, <2>10 DEF PageInv
<1>15. MemInv'
  <2>1. ASSUME NEW m \in recs, NEW i \in 0 .. m.len - 1, m.start + i < append + 1
        PROVE  mem'[m.start + i] = <<m, i>>
    <3>1. m \in Node /\ Tiles(recs, priorLsa) /\ mem \in [Slot -> Cell]
      BY <1>1, UpParts DEF LogInv, Tiles
    <3>2. m.start \in Nat /\ i \in Nat /\ m.start + i \in Slot
      <4>1. m.start \in Nat /\ m.len \in Nat
        BY <3>1, NodeFields
      <4> QED BY <2>1, <4>1, <1>4, BoundAssumption, SMT DEF Slot
    <3>3. CASE m.start + i = append
      <4>1. done \in 0 .. n.len - 1
        <5> HIDE DEF n
        <5> QED BY <1>2, <1>3, <1>4, SMT
      <4>2. m.start + i = n.start + done
        BY <3>3, <1>4
      <4>3. m = n /\ i = done
        <5> HIDE DEF n
        <5> QED BY <3>1, <4>1, <4>2, <1>3, TilesApart, SMT
      <4>4. mem'[append] = <<n, done>>
        BY <1>1, <1>3, <1>4, <3>1
      <4> QED BY <4>3, <4>4, <3>3
    <3>4. CASE m.start + i # append
      <4>1. m.start + i < append
        BY <3>2, <3>4, <2>1, <1>4, SMT
      <4>2. mem[m.start + i] = <<m, i>>
        BY <4>1, <1>1, <1>2, UpParts DEF MemInv
      <4>3. mem'[m.start + i] = mem[m.start + i]
        BY <3>1, <3>2, <3>4, <1>1
      <4> QED BY <4>2, <4>3
    <3> QED BY <3>3, <3>4
  <2> QED BY <1>1, <1>9, <2>1 DEF MemInv
<1>16. DiskInv'
  <2>1. ASSUME NEW l \in 0 .. append' - 1, PageOf(l) \notin dirty' PROVE disk[l] = mem'[l]
    <3>1. l # append /\ PageOf(l) \notin dirty
      BY <2>1, <1>1
    <3>2. l \in 0 .. append - 1 /\ l \in Slot
      BY <3>1, <1>4, <1>5, BoundAssumption, SMT DEF Slot
    <3>3. disk[l] = mem[l]
      BY <3>1, <3>2, <1>1, UpParts DEF DiskInv
    <3>4. mem'[l] = mem[l]
      <4>1. mem \in [Slot -> Cell]
        BY <1>1, UpParts DEF LogInv
      <4> QED BY <4>1, <3>1, <3>2, <1>1
    <3> QED BY <3>3, <3>4
  <2>2. Reads(disk, nxio, recs, priorLsa)
    BY <1>1, UpParts DEF DiskInv
  <2> QED BY <1>1, <1>2, <1>9, <2>1, <2>2 DEF DiskInv
<1> QED BY <1>1, <1>11, <1>12, <1>13, <1>14, <1>15, <1>16 DEF IInv, UpInv, DownInv

\* Sequences and their elements.
LEMMA SeqFacts ==
  ASSUME NEW S, NEW s \in Seq(S)
  PROVE  /\ s = <<>> <=> Len(s) = 0
         /\ \A p : p \in Range(s) <=> \E i \in 1 .. Len(s) : s[i] = p
<1>1. DOMAIN s = 1 .. Len(s) /\ Len(s) \in Nat
  BY SMT
<1>2. s = <<>> => Len(s) = 0
  BY SMT
<1>3. Len(s) = 0 => s = <<>>
  BY SMT
<1>4. \A p : p \in Range(s) <=> \E i \in 1 .. Len(s) : s[i] = p
  BY <1>1 DEF Range
<1> QED BY <1>2, <1>3, <1>4

\* Where an append goes on, by how much of the record is there.
LEMMA AfterSlotFacts ==
  ASSUME IInv, up, list # <<>>, done <= list[1].len
  PROVE  /\ AfterSlot(done) \in {"append", "end"}
         /\ AfterSlot(done) = "append" => done < list[1].len
         /\ AfterSlot(done) = "end" => done = list[1].len
<1>1. Head(list) = list[1] /\ list[1].len \in Nat /\ done \in Nat
  BY HeadFacts, UpFacts
<1>2. done # list[1].len => done < list[1].len
  BY <1>1, SMT
<1> QED BY <1>1, <1>2 DEF AfterSlot

\* A new page is created for the record being appended.
LEMMA LogCreatePage ==
  ASSUME IInv, CreatePage
  PROVE  IInv'
<1>1. /\ UNCHANGED <<recs, priorLsa, prior, list, done, append, prev, delayed, dirty, save>>
      /\ UNCHANGED <<nxio, disk, pending, cs, up>>
      /\ up /\ fpc = "create" /\ pg' = PageOf(append)
      /\ mem' = [l \in Slot |-> IF PageOf(l) = pg' THEN Null ELSE mem[l]]
      /\ toflush' = Append(toflush, pg')
  BY DEF CreatePage, ownerFrame, diskVars, runVars
<1>2. /\ ret = "exit" /\ Where = "create" /\ list # <<>> /\ done <= list[1].len /\ ~Marked /\ ~Hidden
      /\ pending = {} /\ append % PageSize = 0 /\ done > 0 /\ delayed # Null /\ cs # Null
  <2>1. Where = "create" /\ ~Marked /\ ~Hidden
    BY <1>1 DEF Where, Marked, Hidden, FlushPcs
  <2>2. /\ ret = "exit" /\ list # <<>> /\ done <= list[1].len
        /\ append % PageSize = 0 /\ done > 0 /\ cs # Null
    BY <1>1, <2>1, UpParts DEF PlaceInv, FlushPcs
  <2>3. delayed # Null
    BY <1>1, <2>2, UpParts DEF PlaceInv, FlushPcs
  <2> QED BY <1>1, <2>1, <2>2, <2>3, UpParts, NothingPending
<1>3. /\ append \in Nat /\ append \in Slot /\ nxio \in Nat /\ Base \in Nat /\ Base < append
      /\ prev = Base
  BY <1>1, <1>2, UpFacts, BaseFacts, SMT DEF Base
<1>4. \A l \in Nat : l < append => PageOf(l) # pg'
  BY <1>1, <1>2, <1>3, FreshPage
<1>5. pg' \in Page /\ pg' # Null
  BY <1>1, <1>3, PageType
<1>6. \/ BuffersFull(Len(toflush')) /\ fpc' = "flush" /\ ret' = AfterSlot(done)
      \/ ~BuffersFull(Len(toflush')) /\ fpc' = AfterSlot(done) /\ ret' = "exit"
  BY <1>2 DEF CreatePage
<1>7. /\ AfterSlot(done) \in {"append", "end"}
      /\ AfterSlot(done) = "append" => done < list[1].len
      /\ AfterSlot(done) = "end" => done = list[1].len
  BY <1>1, <1>2, AfterSlotFacts
<1>8. /\ Where' = AfterSlot(done) /\ ~Marked' /\ ~Hidden' /\ fpc' \in {"append", "end", "flush"}
      /\ fpc' \notin FlushPcs => ret' = "exit"
  BY <1>6, <1>7 DEF Where, Marked, Hidden, FlushPcs
<1>9. mem \in [Slot -> Cell] /\ \A l \in Slot : l < append => mem'[l] = mem[l]
  <2>1. mem \in [Slot -> Cell] /\ \A l \in Slot : l \in Nat
    BY <1>1, UpParts, PageType DEF LogInv
  <2> QED BY <1>1, <1>4, <2>1
<1>10. LogInv'
  <2>1. mem' \in [Slot -> Cell]
    BY <1>1, <1>9 DEF Cell
  <2>2. Placed(mem')
    <3>1. \A l \in Slot : mem'[l] = mem[l] \/ mem'[l] = Null
      BY <1>1
    <3>2. Placed(mem)
      BY <1>1, UpParts DEF LogInv
    <3> QED BY <3>1, <3>2, CellAssumption DEF Placed
  <2> QED BY <1>1, <2>1, <2>2, UpParts DEF LogInv
<1>11. QueueInv'
  <2>1. PriorStart' = PriorStart
    BY <1>1 DEF PriorStart
  <2> QED BY <1>1, <2>1, UpParts DEF QueueInv
<1>12. PlaceInv'
  BY <1>1, <1>2, <1>7, <1>8, UpParts DEF PlaceInv, FlushPcs
<1>13. PageInv'
  <2>1. /\ toflush \in Seq(Page) /\ toflush # <<>> /\ toflush[1] = PageOf(nxio)
        /\ \A i, j \in 1 .. Len(toflush) : toflush[i] = toflush[j] => i = j
        /\ \A i \in 1 .. Len(toflush) :
             toflush[i] = Null \/ \E l \in 0 .. append - 1 : toflush[i] = PageOf(l)
        /\ dirty \subseteq Range(toflush)
        /\ Len(toflush) < MaxToflush
        /\ delayed = PageOf(prev) /\ delayed \in dirty
        /\ nxio < append => PageOf(nxio) \in dirty
    BY <1>1, <1>2, UpParts DEF PageInv, FlushPcs
  <2>2. /\ Len(toflush) \in Nat /\ Len(toflush) >= 1 /\ Len(toflush') = Len(toflush) + 1
        /\ toflush' \in Seq(Page) /\ toflush' # <<>> /\ toflush'[Len(toflush')] = pg'
        /\ \A i \in 1 .. Len(toflush) : toflush'[i] = toflush[i] /\ toflush[i] \in Page
        /\ DOMAIN toflush = 1 .. Len(toflush) /\ DOMAIN toflush' = 1 .. Len(toflush')
        /\ 1 \in 1 .. Len(toflush) /\ Len(toflush') \in 1 .. Len(toflush')
        /\ \A i \in 1 .. Len(toflush') : i = Len(toflush') \/ i \in 1 .. Len(toflush)
        /\ \A i \in 1 .. Len(toflush) : i \in 1 .. Len(toflush')
    BY <1>1, <1>5, <2>1, SMT
  <2>3. \A i \in 1 .. Len(toflush) : \E l \in 0 .. append - 1 : toflush[i] = PageOf(l)
    <3>1. \A p \in Page : p # Null
      BY PageType DEF Page
    <3> QED BY <2>1, <2>2, <3>1
  <2>4. \A i \in 1 .. Len(toflush) : toflush[i] # pg'
    <3>1. \A l \in 0 .. append - 1 : l \in Nat /\ l < append
      BY <1>3, SMT
    <3> QED BY <2>3, <3>1, <1>4
  <2>5. \A i, j \in 1 .. Len(toflush') : toflush'[i] = toflush'[j] => i = j
    <3> SUFFICES ASSUME NEW i \in 1 .. Len(toflush'), NEW j \in 1 .. Len(toflush'),
                        toflush'[i] = toflush'[j]
                 PROVE  i = j
      OBVIOUS
    <3>1. CASE i = Len(toflush') \/ j = Len(toflush')
      BY <3>1, <2>2, <2>4
    <3>2. CASE i # Len(toflush') /\ j # Len(toflush')
      <4>1. i \in 1 .. Len(toflush) /\ j \in 1 .. Len(toflush)
        BY <3>2, <2>2
      <4>2. toflush[i] = toflush[j]
        BY <4>1, <2>2
      <4> QED BY <4>1, <4>2, <2>1
    <3> QED BY <3>1, <3>2
  <2>6. dirty \subseteq Range(toflush')
    <3>1. ASSUME NEW p \in dirty PROVE p \in Range(toflush')
      <4>1. PICK i \in 1 .. Len(toflush) : toflush[i] = p
        BY <2>1, SeqFacts
      <4>2. i \in 1 .. Len(toflush') /\ toflush'[i] = p
        BY <4>1, <2>2
      <4> QED BY <4>2, <2>2, SeqFacts
    <3> QED BY <3>1
  <2>7. delayed # pg'
    BY <2>1, <1>3, <1>4
  <2>8. Len(toflush') <= MaxToflush /\ (fpc' \notin FlushPcs => Len(toflush') < MaxToflush)
    <3>1. fpc' \notin FlushPcs => ~BuffersFull(Len(toflush'))
      BY <1>6 DEF FlushPcs
    <3> QED BY <3>1, <2>1, <2>2, ToflushAssumption, SMT DEF BuffersFull
  <2>9. toflush'[1] = PageOf(nxio) /\ Where' # "create"
    BY <2>1, <2>2, <1>7, <1>8
  <2>10. \E i \in 1 .. Len(toflush') : toflush'[i] = pg'
    BY <2>2
  <2>11. \A i \in 1 .. Len(toflush') :
           toflush'[i] = pg' \/ \E l \in 0 .. append - 1 : toflush'[i] = PageOf(l)
    BY <2>2, <2>3
  <2> QED BY <1>1, <1>2, <1>8, <2>1, <2>2, <2>5, <2>6, <2>7, <2>8, <2>9, <2>10, <2>11 DEF PageInv
<1>14. MemInv'
  <2>1. ASSUME NEW m \in recs, NEW i \in 0 .. m.len - 1, m.start + i < append
        PROVE  mem'[m.start + i] = <<m, i>>
    <3>1. mem[m.start + i] = <<m, i>>
      BY <2>1, <1>1, <1>2, UpParts DEF MemInv
    <3>2. m.start + i \in Slot
      <4>1. m \in Node
        BY <1>1, UpParts DEF LogInv, Tiles
      <4>2. m.start \in Nat /\ m.len \in Nat
        BY <4>1, NodeFields
      <4>3. append < MaxLsa
        BY <1>1, UpFacts
      <4> QED BY <2>1, <4>2, <4>3, <1>3, BoundAssumption, SMT DEF Slot
    <3> QED BY <2>1, <3>1, <3>2, <1>9
  <2> QED BY <1>1, <1>8, <2>1 DEF MemInv
<1>15. DiskInv'
  <2>1. \A l \in 0 .. append - 1 : l \in Slot /\ l < append
    BY <1>3, BoundAssumption, SMT DEF Slot
  <2>2. \A l \in 0 .. append - 1 : PageOf(l) \notin dirty => disk[l] = mem'[l]
    BY <2>1, <1>1, <1>9, UpParts DEF DiskInv
  <2>3. Reads(disk, nxio, recs, priorLsa)
    BY <1>1, UpParts DEF DiskInv
  <2> QED BY <1>1, <1>2, <1>8, <2>2, <2>3 DEF DiskInv
<1> QED BY <1>1, <1>10, <1>11, <1>12, <1>13, <1>14, <1>15 DEF IInv, UpInv, DownInv

\* The rest of a sequence of records.
LEMMA ChainedTail ==
  ASSUME NEW R, NEW s \in Seq(R), s # <<>>, NEW a, NEW b, Chained(s, a, b)
  PROVE  Chained(Tail(s), End(s[1]), b) /\ Tail(s) \in Seq(R)
<1> DEFINE q == Tail(s)
<1>1. /\ Len(s) \in Nat /\ Len(s) >= 1 /\ q \in Seq(R) /\ Len(q) = Len(s) - 1
      /\ \A i \in 1 .. Len(q) : q[i] = s[i + 1]
      /\ q = <<>> <=> Len(q) = 0
  <2>1. Len(s) \in Nat /\ Len(s) >= 1
    BY SMT
  <2>2. q \in Seq(R) /\ Len(q) = Len(s) - 1
    BY SMT
  <2>3. \A i \in 1 .. Len(q) : q[i] = s[i + 1]
    BY SMT
  <2> HIDE DEF q
  <2>4. q = <<>> <=> Len(q) = 0
    BY <2>2, SeqFacts
  <2> QED BY <2>1, <2>2, <2>3, <2>4
<1>2. /\ End(s[Len(s)]) = b
      /\ \A i \in 1 .. Len(s) - 1 : End(s[i]) = s[i + 1].start
  BY DEF Chained
<1> HIDE DEF q
<1>3. q = <<>> => End(s[1]) = b
  <2>1. q = <<>> => Len(s) = 1
    BY <1>1, SMT
  <2> QED BY <2>1, <1>2
<1>4. q # <<>> => q[1].start = End(s[1]) /\ End(q[Len(q)]) = b
  <2> SUFFICES ASSUME q # <<>> PROVE q[1].start = End(s[1]) /\ End(q[Len(q)]) = b
    OBVIOUS
  <2>1. 1 \in 1 .. Len(q) /\ 1 \in 1 .. Len(s) - 1 /\ Len(q) \in 1 .. Len(q) /\ Len(q) + 1 = Len(s)
        /\ 1 + 1 = 2
    BY <1>1, SMT
  <2>2. q[1] = s[1 + 1] /\ q[Len(q)] = s[Len(s)]
    BY <1>1, <2>1
  <2>3. End(s[1]) = s[1 + 1].start
    BY <2>1, <1>2
  <2> QED BY <2>2, <2>3, <1>2
<1>5. ASSUME NEW i \in 1 .. Len(q) - 1 PROVE End(q[i]) = q[i + 1].start
  <2>1. i \in 1 .. Len(q) /\ i + 1 \in 1 .. Len(q) /\ i + 1 \in 1 .. Len(s) - 1
    BY <1>1, SMT
  <2>2. q[i] = s[i + 1] /\ q[i + 1] = s[(i + 1) + 1]
    BY <1>1, <2>1
  <2>3. End(s[i + 1]) = s[(i + 1) + 1].start
    BY <2>1, <1>2
  <2> QED BY <2>2, <2>3
<1>6. Chained(q, End(s[1]), b)
  BY <1>3, <1>4, <1>5 DEF Chained
<1> QED BY <1>1, <1>6 DEF q

\* A record is complete.
LEMMA LogEndAppend ==
  ASSUME IInv, EndAppend
  PROVE  IInv'
<1>1. /\ UNCHANGED <<recs, priorLsa, prior, append, prev, pg, toflush, mem, save>>
      /\ UNCHANGED <<nxio, disk, pending, cs, ret, up>>
      /\ up /\ fpc = "end" /\ delayed' = Null /\ list' = Tail(list) /\ done' = 0
      /\ dirty' = dirty \cup {IF delayed # Null THEN delayed ELSE pg}
      /\ fpc' = IF list' = <<>> THEN "flush" ELSE "append"
  BY DEF EndAppend, ownerFrame, diskVars, runVars
<1>2. /\ ret = "exit" /\ Where = "end" /\ list # <<>> /\ done = list[1].len /\ ~Marked /\ ~Hidden
      /\ pending = {} /\ cs # Null
  <2>1. Where = "end" /\ ~Marked /\ ~Hidden
    BY <1>1 DEF Where, Marked, Hidden, FlushPcs
  <2>2. ret = "exit" /\ list # <<>> /\ done = list[1].len /\ cs # Null
    BY <1>1, <2>1, UpParts DEF PlaceInv, FlushPcs
  <2> QED BY <1>1, <2>1, <2>2, UpParts, NothingPending
<1>3. /\ Where' = (IF list' = <<>> THEN "exit" ELSE "append") /\ ~Marked' /\ ~Hidden'
      /\ fpc' \in {"flush", "append"}
  BY <1>1, <1>2 DEF Where, Marked, Hidden, FlushPcs
<1>4. /\ append \in Nat /\ nxio \in Nat /\ nxio <= append /\ append - 0 = append /\ 0 <= append
      /\ End(list[1]) = append /\ append \in Slot
  <2>1. End(list[1]) = Base + list[1].len
    BY <1>1, <1>2, HeadFacts
  <2>2. append \in Nat /\ done \in Nat /\ done <= append /\ nxio \in Nat /\ nxio <= Base /\ append \in Slot
    BY <1>1, UpFacts
  <2>3. Base = append - done
    BY SMT DEF Base
  <2>4. End(list[1]) = Base + done
    BY <2>1, <1>2
  <2> QED BY <2>2, <2>3, <2>4, SMT
<1>5. LogInv'
  BY <1>1, UpParts DEF LogInv
<1>6. QueueInv'
  <2>1. PriorStart' = PriorStart
    BY <1>1 DEF PriorStart
  <2>2. /\ prior \in Seq(recs) /\ list \in Seq(recs)
        /\ Chained(prior, PriorStart, priorLsa) /\ Chained(list, append - done, PriorStart)
    BY <1>1, UpParts DEF QueueInv
  <2>3. Chained(Tail(list), End(list[1]), PriorStart) /\ Tail(list) \in Seq(recs)
    BY <2>2, <1>2, ChainedTail
  <2> QED BY <1>1, <1>4, <2>1, <2>2, <2>3 DEF QueueInv
<1>7. PlaceInv'
  <2>1. list' # <<>> => 0 < list'[1].len
    <3>1. list' \in Seq(recs) /\ recs \subseteq Node
      BY <1>1, <1>5, <1>6 DEF QueueInv, LogInv, Tiles
    <3>2. list' # <<>> => list'[1] \in Node
      BY <3>1, SMT
    <3> QED BY <3>2, NodeFields, SMT
  <2>2. ~(0 > 0) /\ 0 \in Nat
    BY SMT
  <2> QED BY <1>1, <1>2, <1>3, <1>4, <2>1, <2>2, UpParts DEF PlaceInv, FlushPcs
<1>8. PageInv'
  <2>1. /\ pg = PageOf(append)
        /\ delayed # Null => delayed \in dirty
        /\ toflush \in Seq(Page) /\ dirty \subseteq Range(toflush)
        /\ pg # Null => \E i \in 1 .. Len(toflush) : toflush[i] = pg
        /\ nxio < append => PageOf(nxio) \in dirty
    BY <1>1, <1>2, UpParts DEF PageInv
  <2>2. dirty' \subseteq Range(toflush)
    <3>1. DOMAIN toflush = 1 .. Len(toflush)
      BY <2>1, SMT
    <3>2. pg \in Range(toflush)
      BY <2>1, <3>1, <1>4, PageType DEF Range
    <3> QED BY <2>1, <3>2, <1>1
  <2>3. pg' = IF Where' = "create" THEN Null ELSE PageOf(append')
    BY <1>1, <1>3, <2>1
  <2>4. nxio < append => PageOf(nxio) \in dirty'
    BY <2>1, <1>1
  <2>5. ~(done' > 0)
    BY <1>1, SMT
  <2> QED BY <1>1, <1>3, <2>2, <2>3, <2>4, <2>5, UpParts DEF PageInv, FlushPcs
<1>9. MemInv'
  BY <1>1, <1>2, <1>3, UpParts DEF MemInv
<1>10. DiskInv'
  <2>1. Reads(disk, nxio, recs, priorLsa)
    BY <1>1, UpParts DEF DiskInv
  <2> QED BY <1>1, <1>2, <1>3, <2>1, UpParts DEF DiskInv
<1> QED BY <1>1, <1>5, <1>6, <1>7, <1>8, <1>9, <1>10 DEF IInv, UpInv, DownInv

\* The page where the mark of a flush goes is one of those to flush.
LEMMA MarkPage ==
  ASSUME IInv, up, fpc \in FlushPcs
  PROVE  /\ (IF delayed # Null THEN delayed ELSE pg) = PageOf(Base)
         /\ PageOf(Base) \in Range(toflush)
         /\ toflush \in Seq(Page) /\ dirty \subseteq Range(toflush)
         /\ ret = "exit" => done = 0
         /\ done = 0 => ret = "exit" /\ pg = PageOf(append)
<1>1. /\ NextIo = Base /\ (delayed # Null <=> done > 0) /\ (delayed # Null => prev = Base)
  BY NextIoFacts
<1>2. /\ pg = IF Where = "create" THEN Null ELSE PageOf(append)
      /\ delayed # Null => delayed = PageOf(prev) /\ delayed \in dirty
      /\ toflush \in Seq(Page) /\ dirty \subseteq Range(toflush)
      /\ pg # Null => \E i \in 1 .. Len(toflush) : toflush[i] = pg
  BY UpParts DEF PageInv
<1>3. ret = "exit" => done = 0
  BY UpParts DEF PlaceInv, Where
<1>4. done = 0 => ret = "exit" /\ Where = "exit"
  <2>1. ret # "exit" => done > 0
    BY UpParts DEF PlaceInv
  <2>2. done = 0 => ~(done > 0)
    BY SMT
  <2> QED BY <2>1, <2>2 DEF Where
<1>5. done \in Nat /\ (done > 0 \/ done = 0)
  BY UpFacts, SMT
<1>6. CASE delayed # Null
  BY <1>1, <1>2, <1>3, <1>4, <1>6
<1>7. CASE delayed = Null
  <2>1. done = 0
    BY <1>1, <1>5, <1>7
  <2>2. pg = PageOf(append) /\ Base = append
    BY <2>1, <1>2, <1>4, BaseFacts
  <2>3. pg # Null
    BY <2>2, UpFacts, PageType
  <2>4. pg \in Range(toflush)
    BY <2>3, <1>2, SeqFacts
  <2> QED BY <1>2, <1>3, <1>4, <1>7, <2>2, <2>4
<1> QED BY <1>6, <1>7

\* A flush writes its mark, or finds nothing to do.
LEMMA LogFlushStart ==
  ASSUME IInv, FlushStart
  PROVE  IInv'
<1>1. /\ UNCHANGED <<recs, priorLsa, prior, list, done, append, prev, pg, delayed, toflush>>
      /\ UNCHANGED <<nxio, disk, pending, cs, up>> /\ up /\ fpc = "flush"
  BY DEF FlushStart, ownerFrame, diskVars, runVars
<1>2. /\ fpc \in FlushPcs /\ ~Marked /\ ~Hidden /\ Where = ret /\ pending = {}
      /\ UNCHANGED <<PriorStart, NextIo>> /\ cs # Null
  <2>1. fpc \in FlushPcs /\ ~Marked /\ ~Hidden /\ Where = ret
    BY <1>1 DEF Where, Marked, Hidden, FlushPcs
  <2>2. UNCHANGED <<PriorStart, NextIo>>
    BY <1>1 DEF PriorStart, NextIo
  <2>3. pending = {} /\ cs # Null
    BY <1>1, UpParts, NothingPending DEF PlaceInv
  <2> QED BY <2>1, <2>2, <2>3
<1>3. /\ append \in Nat /\ done \in Nat /\ nxio \in Nat /\ nxio <= Base /\ Base <= append /\ Base \in Nat
      /\ Base \in Slot /\ (done = 0 => Base = append) /\ (done > 0 => Base < append)
      /\ (done > 0 \/ done = 0) /\ append < MaxLsa
  BY <1>1, UpFacts, BaseFacts, SMT DEF Base
<1>4. /\ NextIo = Base /\ (delayed # Null <=> done > 0) /\ (delayed # Null => prev = Base)
  BY <1>1, <1>2, NextIoFacts
<1>5. /\ (IF delayed # Null THEN delayed ELSE pg) = PageOf(Base)
      /\ PageOf(Base) \in Range(toflush)
      /\ toflush \in Seq(Page) /\ dirty \subseteq Range(toflush)
      /\ ret = "exit" => done = 0
      /\ done = 0 => ret = "exit" /\ pg = PageOf(append)
  BY <1>1, <1>2, MarkPage
<1>6. QueueInv'
  BY <1>1, <1>2, UpParts DEF QueueInv
<1>7. ASSUME NeedFlush PROVE IInv'
  <2>1. /\ save' = IF delayed # Null THEN mem[Base] ELSE save
        /\ mem' = [mem EXCEPT ![Base] = Eof]
        /\ dirty' = dirty \cup {PageOf(Base)}
        /\ fpc' = "write" /\ ret' = ret
    BY <1>4, <1>5, <1>7 DEF FlushStart, NextIo
  <2>2. Marked' /\ (Hidden' <=> delayed # Null) /\ Where' = Where /\ fpc' \in FlushPcs
    BY <1>1, <1>2, <2>1 DEF Where, Marked, Hidden, FlushPcs
  <2>3. /\ mem \in [Slot -> Cell] /\ Placed(mem) /\ save \in Cell /\ mem[Base] \in Cell
        /\ \A l \in Slot : mem'[l] = IF l = Base THEN Eof ELSE mem[l]
    <3>1. mem \in [Slot -> Cell] /\ Placed(mem) /\ save \in Cell
      BY <1>1, UpParts DEF LogInv
    <3> QED BY <3>1, <2>1, <1>3
  <2>4. LogInv'
    <3>1. mem' \in [Slot -> Cell] /\ save' \in Cell
      BY <2>1, <2>3 DEF Cell
    <3>2. Placed(mem')
      BY <2>3, CellAssumption DEF Placed
    <3> QED BY <1>1, <3>1, <3>2, UpParts DEF LogInv
  <2>5. PlaceInv'
    BY <1>1, <1>2, <2>1, <2>2, UpParts DEF PlaceInv, FlushPcs
  <2>6. PageInv'
    <3>1. dirty' \subseteq Range(toflush) /\ PageOf(Base) \in dirty'
      BY <1>5, <2>1
    <3>2. PageOf(nxio) \in dirty'
      <4>1. nxio < append \/ (nxio = Base /\ ~(nxio < append))
        BY <1>3, SMT
      <4>2. nxio < append => PageOf(nxio) \in dirty
        BY <1>1, UpParts DEF PageInv
      <4> QED BY <4>1, <4>2, <3>1, <2>1
    <3> QED BY <1>1, <1>2, <1>4, <2>1, <2>2, <3>1, <3>2, UpParts DEF PageInv
  <2>7. MemInv'
    <3>1. ASSUME NEW m \in recs, NEW i \in 0 .. m.len - 1, m.start + i < append,
                 ~(delayed # Null /\ m.start + i = prev)
          PROVE  mem'[m.start + i] = <<m, i>>
      <4>1. mem[m.start + i] = <<m, i>>
        BY <3>1, <1>1, <1>2, UpParts DEF MemInv
      <4>2. m.start + i # Base
        <5>1. delayed = Null => Base = append
          BY <1>3, <1>4
        <5>2. m.start + i # append
          <6>1. m \in Node
            BY <1>1, UpParts DEF LogInv, Tiles
          <6>2. m.start \in Nat /\ m.len \in Nat
            BY <6>1, NodeFields
          <6> QED BY <3>1, <6>2, <1>3, SMT
        <5> QED BY <3>1, <5>1, <5>2, <1>4
      <4>3. mem'[m.start + i] = mem[m.start + i]
        BY <2>1, <2>3, <4>2, SMT
      <4> QED BY <4>1, <4>3
    <3>2. delayed # Null => mem[Base] = <<list[1], 0>>
      <4> SUFFICES ASSUME delayed # Null PROVE mem[Base] = <<list[1], 0>>
        OBVIOUS
      <4>1. list # <<>>
        BY <1>1, <1>4, BaseFacts
      <4>2. list[1] \in recs /\ list[1].start = Base /\ list[1].len \in Nat /\ list[1].len > 0
        BY <1>1, <4>1, HeadFacts
      <4>3. 0 \in 0 .. list[1].len - 1 /\ list[1].start + 0 = Base /\ Base < append
        BY <4>2, <1>3, <1>4, SMT
      <4>4. list[1].start + 0 < append
        BY <4>3
      <4>5. mem[list[1].start + 0] = <<list[1], 0>>
        BY <4>2, <4>3, <4>4, <1>1, <1>2, UpParts DEF MemInv
      <4> QED BY <4>3, <4>5
    <3>3. mem'[Base] = Eof
      BY <2>3, <1>3
    <3> QED BY <1>1, <1>2, <1>4, <2>1, <2>2, <3>1, <3>2, <3>3 DEF MemInv
  <2>8. DiskInv'
    <3>1. \A l \in 0 .. append - 1 : PageOf(l) \notin dirty' => disk[l] = mem'[l]
      <4>1. \A l \in 0 .. append - 1 : l \in Slot
        BY <1>3, BoundAssumption, SMT DEF Slot
      <4>2. \A l \in 0 .. append - 1 : PageOf(l) \notin dirty => disk[l] = mem[l]
        BY <1>1, UpParts DEF DiskInv
      <4> QED BY <4>1, <4>2, <2>1, <2>3
    <3>2. Reads(disk, nxio, recs, priorLsa)
      BY <1>1, UpParts DEF DiskInv
    <3> QED BY <1>1, <1>2, <2>1, <3>1, <3>2 DEF DiskInv
  <2> QED BY <1>1, <1>6, <2>4, <2>5, <2>6, <2>7, <2>8 DEF IInv, UpInv, DownInv
<1>8. ASSUME ~NeedFlush PROVE IInv'
  <2>1. fpc' = ret /\ ret' = "exit" /\ UNCHANGED <<save, mem, dirty>>
    BY <1>8 DEF FlushStart
  <2>2. /\ toflush # <<>> /\ toflush[1] = PageOf(nxio)
        /\ nxio < append => PageOf(nxio) \in dirty
    BY <1>1, UpParts DEF PageInv
  <2>3. Len(toflush) = 1 /\ toflush[1] \notin dirty
    <3>1. Len(toflush) \in Nat /\ Len(toflush) >= 1
      BY <1>5, <2>2, SMT
    <3>2. ~(Len(toflush) > 1) /\ ~(Len(toflush) = 1 /\ toflush[1] \in dirty)
      BY <1>8 DEF NeedFlush
    <3>3. Len(toflush) = 1
      BY <3>1, <3>2, SMT
    <3> QED BY <3>2, <3>3
  <2>4. nxio = append /\ done = 0 /\ ret = "exit"
    <3>1. ~(nxio < append)
      BY <2>2, <2>3
    <3>2. nxio = append /\ done = 0
      BY <3>1, <1>3, SMT
    <3> QED BY <3>2, <1>5
  <2>5. /\ ~Marked' /\ ~Hidden' /\ Where' = "exit" /\ Where = "exit" /\ fpc' = "exit"
    BY <1>2, <2>1, <2>4 DEF Where, Marked, Hidden, FlushPcs
  <2>6. Len(toflush) < MaxToflush
    BY <2>3, ToflushAssumption, SMT
  <2>7. LogInv'
    BY <1>1, <2>1, UpParts DEF LogInv
  <2>8. PlaceInv'
    BY <1>1, <1>2, <2>1, <2>4, <2>5, UpParts DEF PlaceInv, FlushPcs
  <2>9. PageInv'
    BY <1>1, <1>2, <2>1, <2>5, <2>6, UpParts DEF PageInv
  <2>10. MemInv'
    BY <1>1, <1>2, <2>1, <2>5, UpParts DEF MemInv
  <2>11. DiskInv'
    BY <1>1, <1>2, <2>1, <2>5, UpParts DEF DiskInv
  <2> QED BY <1>1, <1>6, <2>7, <2>8, <2>9, <2>10, <2>11 DEF IInv, UpInv, DownInv
<1> QED BY <1>7, <1>8

\* The first dirty page is that of nxio_lsa.
LEMMA FirstDirtyIs ==
  ASSUME IInv, up, Marked
  PROVE  /\ FirstDirty = PageOf(nxio) /\ PageOf(nxio) \in dirty
         /\ RestDirty = dirty \ {PageOf(nxio)}
<1>1. /\ toflush \in Seq(Page) /\ toflush # <<>> /\ toflush[1] = PageOf(nxio)
      /\ PageOf(nxio) \in dirty /\ dirty \subseteq Range(toflush)
  BY UpParts DEF PageInv
<1> DEFINE First(i) == toflush[i] \in dirty /\ \A j \in 1 .. i - 1 : toflush[j] \notin dirty
<1>2. 1 \in DOMAIN toflush /\ DOMAIN toflush \subseteq Nat /\ 0 \notin DOMAIN toflush
  BY <1>1, SMT
<1>3. First(1)
  <2>1. 1 .. 1 - 1 = {}
    BY SMT
  <2> QED BY <2>1, <1>1
<1>4. ASSUME NEW i \in DOMAIN toflush, First(i) PROVE i = 1
  <2>1. i # 1 => 1 \in 1 .. i - 1
    BY <1>2, SMT
  <2> QED BY <2>1, <1>1, <1>4
<1>5. FirstDirty = toflush[CHOOSE i \in DOMAIN toflush : First(i)]
  BY DEF FirstDirty
<1> HIDE DEF First
<1>6. (CHOOSE i \in DOMAIN toflush : First(i)) = 1
  BY <1>2, <1>3, <1>4
<1>7. FirstDirty = PageOf(nxio)
  BY <1>1, <1>5, <1>6
<1> QED BY <1>1, <1>7 DEF RestDirty

\* The state that the writes of a flush leave alone.
LEMMA WriteFrame ==
  ASSUME WriteRest \/ SyncRest \/ WriteFirst \/ SyncFirst
  PROVE  /\ UNCHANGED <<recs, priorLsa, prior, list, done, append, prev, pg, delayed, toflush>>
         /\ UNCHANGED <<dirty, mem, save, nxio, cs, ret, up>>
         /\ up /\ fpc \in {"write", "sync", "writeFirst", "syncFirst"}
         /\ fpc' \in {"sync", "writeFirst", "syncFirst", "clean"}
BY DEF WriteRest, SyncRest, WriteFirst, SyncFirst, ownerFrame, bufVars, runVars

\* A write or a sync keeps what is not about the disk.
LEMMA LogWrites ==
  ASSUME IInv, WriteRest \/ SyncRest \/ WriteFirst \/ SyncFirst,
         disk' \in [Slot -> Cell], Placed(disk'), DiskInv'
  PROVE  IInv'
<1>1. /\ UNCHANGED <<recs, priorLsa, prior, list, done, append, prev, pg, delayed, toflush>>
      /\ UNCHANGED <<dirty, mem, save, nxio, cs, ret, up>>
      /\ up /\ fpc \in {"write", "sync", "writeFirst", "syncFirst"}
      /\ fpc' \in {"sync", "writeFirst", "syncFirst", "clean"}
  BY WriteFrame
<1>2. /\ UNCHANGED <<PriorStart, NextIo, Where>> /\ Marked /\ Marked' /\ (Hidden' <=> Hidden)
      /\ fpc \in FlushPcs /\ fpc' \in FlushPcs
  BY <1>1 DEF PriorStart, NextIo, Where, Marked, Hidden, FlushPcs
<1>3. LogInv'
  BY <1>1, UpParts DEF LogInv
<1>4. QueueInv'
  BY <1>1, <1>2, UpParts DEF QueueInv
<1>5. PlaceInv'
  <2>1. fpc # "free" /\ fpc' # "free" /\ fpc' # "exit" /\ fpc' \notin {"create", "end"}
    BY <1>1
  <2> QED BY <1>1, <1>2, <2>1, UpParts DEF PlaceInv
<1>6. PageInv'
  BY <1>1, <1>2, UpParts DEF PageInv
<1>7. MemInv'
  BY <1>1, <1>2, UpParts DEF MemInv
<1> QED BY <1>1, <1>3, <1>4, <1>5, <1>6, <1>7 DEF IInv, UpInv, DownInv

\* A volume after a crash is made of slots of the page buffer and of the disk.
LEMMA SurvivesType ==
  ASSUME LogInv, NEW S
  PROVE  Survives(S) \in [Slot -> Cell] /\ Placed(Survives(S))
<1>1. mem \in [Slot -> Cell] /\ disk \in [Slot -> Cell] /\ Placed(mem) /\ Placed(disk)
  BY DEF LogInv
<1>2. \A l \in Slot : Survives(S)[l] = mem[l] \/ Survives(S)[l] = disk[l]
  BY DEF Survives
<1>3. Survives(S) \in [Slot -> Cell]
  BY <1>1 DEF Survives
<1> QED BY <1>1, <1>2, <1>3 DEF Placed

\* The slots of a record.
LEMMA RecordSlots ==
  ASSUME LogInv, NEW n \in recs, NEW e, Boundary(e, recs, priorLsa), n.start < e,
         NEW i \in 0 .. n.len - 1
  PROVE  /\ n.start + i \in Slot /\ n.start + i < e /\ n.start + i \in Nat /\ e \in Nat
<1>1. Tiles(recs, priorLsa) /\ n \in Node
  BY DEF LogInv, Tiles
<1>2. End(n) <= e /\ e \in Slot
  BY <1>1, EndsBefore, BoundarySlot
<1>3. n.start \in Nat /\ n.len \in Nat
  BY <1>1, NodeFields
<1> QED BY <1>2, <1>3, BoundAssumption, SMT DEF End, Slot

\* A record below the one being appended is in the page buffer.
LEMMA MemIntact ==
  ASSUME IInv, up, NEW e, Boundary(e, recs, priorLsa), e <= Base,
         NEW n \in recs, n.start < e, NEW i \in 0 .. n.len - 1
  PROVE  mem[n.start + i] = <<n, i>>
<1>1. n.start + i < e /\ n.start + i \in Nat /\ e \in Nat
  BY UpParts, RecordSlots
<1>2. n.start + i < append /\ n.start + i # Base /\ Base <= append /\ append \in Nat /\ Base \in Nat
  BY <1>1, UpFacts, BaseFacts, SMT
<1>3. Hidden => prev = Base
  BY NextIoFacts DEF Hidden, Marked
<1> QED BY <1>2, <1>3, UpParts DEF MemInv

\* As long as the page of nxio_lsa is not written, a restart reads up to nxio_lsa.
LEMMA ReadsNxio ==
  ASSUME IInv, up, fpc # "clean", NEW S, PageOf(nxio) \notin S
  PROVE  Reads(Survives(S), nxio, recs, priorLsa)
<1>1. Reads(disk, nxio, recs, priorLsa) /\ LogInv
  BY UpParts DEF DiskInv
<1>2. nxio \in Slot /\ nxio <= Base /\ Boundary(nxio, recs, priorLsa)
  BY UpFacts, <1>1 DEF LogInv
<1>3. Survives(S)[nxio] = Eof
  BY <1>1, <1>2 DEF Survives, Reads
<1>4. ASSUME NEW n \in recs, n.start < nxio PROVE Intact(n, Survives(S))
  <2>1. ASSUME NEW i \in 0 .. n.len - 1 PROVE Survives(S)[n.start + i] = <<n, i>>
    <3>1. n.start + i \in Slot
      BY <1>1, <1>2, <1>4, RecordSlots
    <3>2. mem[n.start + i] = <<n, i>>
      BY <1>2, <1>4, MemIntact
    <3>3. disk[n.start + i] = <<n, i>>
      BY <1>1, <1>4 DEF Reads, Intact
    <3> QED BY <3>1, <3>2, <3>3 DEF Survives
  <2> QED BY <2>1 DEF Intact
<1> QED BY <1>2, <1>3, <1>4 DEF Reads

\* A volume that agrees with the page buffer, mark included, reads up to the mark.
LEMMA ReadsMark ==
  ASSUME IInv, up, Marked, NEW d, \A l \in Slot : l < append \/ l = Base => d[l] = mem[l]
  PROVE  Reads(d, Base, recs, priorLsa)
<1>1. /\ Base \in Slot /\ Boundary(Base, recs, priorLsa) /\ LogInv
      /\ Base \in Nat /\ append \in Nat /\ Base <= append
  BY UpFacts, BaseFacts, UpParts
<1>2. d[Base] = Eof
  <2>1. NextIo = Base
    BY NextIoFacts DEF Marked
  <2> QED BY <1>1, <2>1, UpParts DEF MemInv
<1>3. ASSUME NEW n \in recs, n.start < Base PROVE Intact(n, d)
  <2>1. ASSUME NEW i \in 0 .. n.len - 1 PROVE d[n.start + i] = <<n, i>>
    <3>1. n.start + i \in Slot /\ n.start + i < Base /\ n.start + i \in Nat
      BY <1>1, <1>3, RecordSlots
    <3>2. n.start + i < append /\ Base <= Base
      BY <1>1, <3>1, SMT
    <3>3. mem[n.start + i] = <<n, i>>
      BY <1>1, <1>3, <3>2, MemIntact
    <3> QED BY <3>1, <3>2, <3>3, SMT
  <2> QED BY <2>1 DEF Intact
<1> QED BY <1>1, <1>2, <1>3 DEF Reads

\* Once the rest is synced, the disk lacks only the page of nxio_lsa.
LEMMA RestSynced ==
  ASSUME IInv, up, fpc \in {"writeFirst", "syncFirst", "clean"}, NEW l \in Slot,
         l < append \/ l = Base
  PROVE  PageOf(l) # PageOf(nxio) \/ fpc = "clean" => disk[l] = mem[l]
<1>1. Marked
  BY DEF Marked, FlushPcs
<1>2. PageOf(Base) \in dirty
  <2>1. NextIo = Base
    BY <1>1, NextIoFacts DEF Marked
  <2> QED BY <1>1, <2>1, UpParts DEF PageInv
<1>3. l < append => l \in 0 .. append - 1
  BY UpFacts, BoundAssumption, SMT DEF Slot
<1>4. PageOf(l) \notin dirty => l \in 0 .. append - 1
  BY <1>2, <1>3
<1> QED BY <1>4, UpParts DEF DiskInv

\* The flush writes and syncs all dirty pages but the first.
LEMMA LogWriteRest ==
  ASSUME IInv, WriteRest
  PROVE  IInv'
<1>1. /\ UNCHANGED <<recs, priorLsa, append, dirty, mem, nxio, disk>> /\ up /\ fpc = "write"
      /\ pending' = RestDirty /\ fpc' = IF pending' = {} THEN "writeFirst" ELSE "sync"
  BY DEF WriteRest, ownerFrame, bufVars, runVars
<1>2. RestDirty = dirty \ {PageOf(nxio)}
  BY <1>1, FirstDirtyIs DEF Marked, FlushPcs
<1>3. DiskInv /\ LogInv /\ Reads(disk, nxio, recs, priorLsa)
  BY <1>1, UpParts DEF DiskInv
<1>4. DiskInv'
  <2>1. CASE pending' = {}
    <3>1. fpc' = "writeFirst" /\ dirty \ {PageOf(nxio)} = {}
      BY <1>1, <1>2, <2>1
    <3> QED BY <1>1, <1>3, <2>1, <3>1 DEF DiskInv
  <2>2. CASE pending' # {}
    <3>1. fpc' = "sync"
      BY <1>1, <2>2
    <3> QED BY <1>1, <1>2, <1>3, <3>1 DEF DiskInv
  <2> QED BY <2>1, <2>2
<1>5. disk' \in [Slot -> Cell] /\ Placed(disk')
  BY <1>1, <1>3 DEF LogInv
<1> QED BY <1>4, <1>5, LogWrites

\* They are synced: a restart still stops at nxio_lsa.
LEMMA LogSyncRest ==
  ASSUME IInv, SyncRest
  PROVE  IInv'
<1>1. /\ UNCHANGED <<recs, priorLsa, append, dirty, mem, nxio>> /\ up /\ fpc = "sync"
      /\ disk' = Survives(pending) /\ pending' = {} /\ fpc' = "writeFirst"
  BY DEF SyncRest, Sync, ownerFrame, bufVars, runVars
<1>2. pending = dirty \ {PageOf(nxio)} /\ DiskInv /\ LogInv
  BY <1>1, UpParts DEF DiskInv
<1>3. Reads(disk', nxio, recs, priorLsa)
  BY <1>1, <1>2, ReadsNxio
<1>4. \A l \in Slot : disk'[l] = IF PageOf(l) \in pending THEN mem[l] ELSE disk[l]
  BY <1>1 DEF Survives
<1>5. \A l \in 0 .. append - 1 : PageOf(l) \notin dirty => disk'[l] = mem[l]
  <2>1. \A l \in 0 .. append - 1 : l \in Slot
    BY <1>1, UpFacts, BoundAssumption, SMT DEF Slot
  <2> QED BY <2>1, <1>2, <1>4 DEF DiskInv
<1>6. DiskInv'
  BY <1>1, <1>2, <1>3, <1>4, <1>5 DEF DiskInv
<1>7. disk' \in [Slot -> Cell] /\ Placed(disk')
  BY <1>1, <1>2, SurvivesType
<1> QED BY <1>6, <1>7, LogWrites

\* ... then the first.
LEMMA LogWriteFirst ==
  ASSUME IInv, WriteFirst
  PROVE  IInv'
<1>1. /\ UNCHANGED <<recs, priorLsa, append, dirty, mem, nxio, disk>> /\ up /\ fpc = "writeFirst"
      /\ pending' = {FirstDirty} /\ fpc' = "syncFirst"
  BY DEF WriteFirst, ownerFrame, bufVars, runVars
<1>2. FirstDirty = PageOf(nxio)
  BY <1>1, FirstDirtyIs DEF Marked, FlushPcs
<1>3. DiskInv /\ LogInv
  BY <1>1, UpParts
<1>4. DiskInv'
  BY <1>1, <1>2, <1>3 DEF DiskInv
<1>5. disk' \in [Slot -> Cell] /\ Placed(disk')
  BY <1>1, <1>3 DEF LogInv
<1> QED BY <1>4, <1>5, LogWrites

\* It is synced: a restart now reads to the mark.
LEMMA LogSyncFirst ==
  ASSUME IInv, SyncFirst
  PROVE  IInv'
<1>1. /\ UNCHANGED <<recs, priorLsa, append, dirty, mem, nxio>> /\ up /\ fpc = "syncFirst"
      /\ disk' = Survives(pending) /\ pending' = {} /\ fpc' = "clean"
  BY DEF SyncFirst, Sync, ownerFrame, bufVars, runVars
<1>2. pending = {PageOf(nxio)} /\ DiskInv /\ LogInv
  BY <1>1, UpParts DEF DiskInv
<1>3. PageOf(nxio) \in dirty
  BY <1>1, FirstDirtyIs DEF Marked, FlushPcs
<1>4. \A l \in Slot : disk'[l] = IF PageOf(l) \in pending THEN mem[l] ELSE disk[l]
  BY <1>1 DEF Survives
<1>5. \A l \in 0 .. append - 1 : PageOf(l) \notin dirty => disk'[l] = mem[l]
  <2>1. \A l \in 0 .. append - 1 : l \in Slot
    BY <1>1, UpFacts, BoundAssumption, SMT DEF Slot
  <2> QED BY <2>1, <1>2, <1>3, <1>4 DEF DiskInv
<1>6. \A l \in Slot : PageOf(l) \in dirty \ {PageOf(nxio)} => disk'[l] = mem[l]
  BY <1>1, <1>2, <1>4 DEF DiskInv
<1>7. \A l \in Slot : PageOf(l) = PageOf(nxio) => disk'[l] = mem[l]
  BY <1>2, <1>4
<1>8. DiskInv'
  BY <1>1, <1>5, <1>6, <1>7 DEF DiskInv
<1>9. disk' \in [Slot -> Cell] /\ Placed(disk')
  BY <1>1, <1>2, SurvivesType
<1> QED BY <1>8, <1>9, LogWrites

\* At the end of a flush a restart reads up to the record being appended.
LEMMA CleanReads ==
  ASSUME IInv, up, fpc = "clean"
  PROVE  /\ Reads(disk, Base, recs, priorLsa)
         /\ \A l \in Slot : l < append => disk[l] = mem[l]
<1>1. \A l \in Slot : l < append \/ l = Base => disk[l] = mem[l]
  BY RestSynced
<1>2. Marked
  BY DEF Marked, FlushPcs
<1> QED BY <1>1, <1>2, ReadsMark

\* A sequence of two.
LEMMA AppendPair ==
  ASSUME NEW a, NEW b
  PROVE  Append(<<a>>, b) = <<a, b>>
<1> DEFINE s == Append(<<a>>, b)
           t == <<a, b>>
<1>1. Len(s) = 2 /\ s[1] = a /\ s[2] = b /\ s \in Seq({a, b})
  BY SMT
<1>2. Len(t) = 2 /\ t[1] = a /\ t[2] = b /\ t \in Seq({a, b})
  BY SMT
<1> HIDE DEF s, t
<1>3. s \in [1 .. 2 -> {a, b}] /\ t \in [1 .. 2 -> {a, b}]
  BY <1>1, <1>2, SMT
<1>4. \A i \in 1 .. 2 : i = 1 \/ i = 2
  BY SMT
<1>5. \A i \in 1 .. 2 : s[i] = t[i]
  BY <1>1, <1>2, <1>4
<1>6. s = t
  BY <1>3, <1>5, SMT
<1> QED BY <1>6 DEF s, t

\* The flush ends: nxio_lsa moves, a hidden record is put back.
LEMMA LogFlushEnd ==
  ASSUME IInv, FlushEnd
  PROVE  IInv' /\ nxio' >= nxio
<1>1. /\ UNCHANGED <<recs, priorLsa, prior, list, done, append, prev, pg, delayed>>
      /\ UNCHANGED <<disk, pending, cs, up>> /\ up /\ fpc = "clean"
      /\ mem' = IF delayed # Null THEN [mem EXCEPT ![prev] = save] ELSE mem
      /\ nxio' = NextIo /\ dirty' = (dirty \ Range(toflush)) \cup Range(KeptPages)
      /\ toflush' = IF pg # Null THEN Append(KeptPages, pg) ELSE KeptPages
      /\ save' = Null /\ fpc' = ret /\ ret' = "exit"
  BY DEF FlushEnd, ownerFrame, diskVars, runVars
<1>2. /\ fpc \in FlushPcs /\ Marked /\ (Hidden <=> delayed # Null) /\ Where = ret /\ pending = {}
      /\ UNCHANGED PriorStart /\ cs # Null /\ ret \in {"exit", "append", "create", "end"}
      /\ (ret # "exit" => done > 0)
  <2>1. fpc \in FlushPcs /\ Marked /\ (Hidden <=> delayed # Null) /\ Where = ret
    BY <1>1 DEF Where, Marked, Hidden, FlushPcs
  <2>2. UNCHANGED PriorStart
    BY <1>1 DEF PriorStart
  <2>3. pending = {} /\ cs # Null /\ ret \in {"exit", "append", "create", "end"}
        /\ (ret # "exit" => done > 0)
    BY <1>1, <2>1, UpParts, NothingPending DEF PlaceInv
  <2> QED BY <2>1, <2>2, <2>3
<1>3. /\ append \in Nat /\ done \in Nat /\ nxio \in Nat /\ nxio <= Base /\ Base <= append /\ Base \in Nat
      /\ Base \in Slot /\ (done = 0 => Base = append) /\ (done > 0 => Base < append)
      /\ (done > 0 \/ done = 0) /\ append < MaxLsa /\ append \in Slot
      /\ Boundary(Base, recs, priorLsa)
  <2>1. Boundary(Base, recs, priorLsa)
    BY <1>1, BaseFacts
  <2> QED BY <1>1, <2>1, UpFacts, BaseFacts, SMT DEF Base
<1>4. /\ NextIo = Base /\ (delayed # Null <=> done > 0) /\ (delayed # Null => prev = Base)
  BY <1>1, <1>2, NextIoFacts
<1>5. /\ (IF delayed # Null THEN delayed ELSE pg) = PageOf(Base)
      /\ dirty \subseteq Range(toflush)
      /\ ret = "exit" => done = 0
      /\ done = 0 => ret = "exit" /\ pg = PageOf(append)
  BY <1>1, <1>2, MarkPage
<1>6. /\ ~Marked' /\ ~Hidden' /\ Where' = ret /\ fpc' \notin FlushPcs
  BY <1>1, <1>2 DEF Where, Marked, Hidden, FlushPcs
<1>7. /\ mem \in [Slot -> Cell] /\ Placed(mem) /\ Tiles(recs, priorLsa)
  BY <1>1, UpParts DEF LogInv
<1>8. delayed # Null => /\ save = <<list[1], 0>> /\ list[1] \in recs /\ list[1] \in Node
                        /\ list[1].start = Base /\ End(list[1]) < MaxLsa
                        /\ 0 \in 0 .. list[1].len - 1 /\ list[1].start + 0 = Base
  <2> SUFFICES ASSUME delayed # Null
               PROVE  /\ save = <<list[1], 0>> /\ list[1] \in recs /\ list[1] \in Node
                      /\ list[1].start = Base /\ End(list[1]) < MaxLsa
                      /\ 0 \in 0 .. list[1].len - 1 /\ list[1].start + 0 = Base
    OBVIOUS
  <2>1. save = <<list[1], 0>>
    BY <1>1, <1>2, UpParts DEF MemInv
  <2>2. list # <<>>
    BY <1>1, <1>4, BaseFacts
  <2>3. /\ list[1] \in recs /\ list[1] \in Node /\ list[1].start = Base
        /\ End(list[1]) <= priorLsa /\ list[1].len \in Nat /\ list[1].len > 0
        /\ End(list[1]) = Base + list[1].len
    BY <1>1, <2>2, HeadFacts
  <2>4. End(list[1]) < MaxLsa /\ 0 \in 0 .. list[1].len - 1 /\ list[1].start + 0 = Base
    <3>1. priorLsa \in Nat /\ priorLsa < MaxLsa
      BY <1>1, UpFacts
    <3> QED BY <3>1, <2>3, <1>3, BoundAssumption, SMT
  <2> QED BY <2>1, <2>3, <2>4
<1>9. \A l \in Slot : mem'[l] = IF delayed # Null /\ l = Base THEN save ELSE mem[l]
  BY <1>1, <1>4, <1>7
<1>10. LogInv'
  <2>1. delayed # Null => save \in Piece /\ save[1] = list[1] /\ save[2] = 0
    BY <1>8, BoundAssumption, SMT DEF Piece
  <2>2. mem' \in [Slot -> Cell]
    BY <1>1, <1>7, <2>1 DEF Cell
  <2>3. Placed(mem')
    <3>1. ASSUME NEW l \in Slot, mem'[l] \in Piece
          PROVE  mem'[l][1].start + mem'[l][2] = l /\ End(mem'[l][1]) < MaxLsa
      <4>1. CASE delayed # Null /\ l = Base
        BY <4>1, <1>8, <1>9, <2>1
      <4>2. CASE ~(delayed # Null /\ l = Base)
        BY <4>2, <3>1, <1>7, <1>9 DEF Placed
      <4> QED BY <4>1, <4>2
    <3> QED BY <3>1 DEF Placed
  <2>4. Null \in Cell
    BY DEF Cell
  <2> QED BY <1>1, <1>3, <1>4, <2>2, <2>3, <2>4, UpParts DEF LogInv
<1>11. QueueInv'
  BY <1>1, <1>2, UpParts DEF QueueInv
<1>12. PlaceInv'
  <2>1. nxio' <= append' - done'
    BY <1>1, <1>3, <1>4, SMT DEF Base
  <2>2. ret = "exit" => nxio' = append
    BY <1>1, <1>3, <1>4, <1>5
  <2>3. fpc' \in {"exit", "append", "create", "end"} /\ fpc' # "free"
    BY <1>1, <1>2
  <2>4. done > 0 => delayed # Null
    BY <1>4
  <2> QED BY <1>1, <1>2, <1>6, <2>1, <2>2, <2>3, <2>4, UpParts DEF PlaceInv
<1>13. PageInv'
  <2>1. /\ pg = IF ret = "create" THEN Null ELSE PageOf(append)
        /\ delayed # Null => delayed = PageOf(prev) /\ delayed # pg
        /\ delayed = Null /\ done > 0 => pg = PageOf(prev)
    BY <1>1, <1>2, UpParts DEF PageInv
  <2>2. PageOf(append) \in Page /\ PageOf(append) # Null /\ PageOf(Base) \in Page
    BY <1>3, PageType
  <2>3. /\ dirty' = IF delayed # Null THEN {delayed} ELSE {}
        /\ KeptPages = IF delayed # Null THEN <<delayed>> ELSE <<>>
    <3>1. KeptPages = IF delayed # Null THEN <<delayed>> ELSE <<>>
      BY DEF KeptPages
    <3>2. Range(<<delayed>>) = {delayed} /\ Range(<<>>) = {}
      BY SMT DEF Range
    <3> QED BY <3>1, <3>2, <1>1, <1>5
  <2>4. CASE delayed # Null /\ pg # Null
    <3>1. toflush' = <<delayed, pg>> /\ dirty' = {delayed}
      <4>1. toflush' = Append(<<delayed>>, pg) /\ dirty' = {delayed}
        BY <2>3, <2>4, <1>1
      <4>2. Append(<<delayed>>, pg) = <<delayed, pg>>
        BY AppendPair
      <4> QED BY <4>1, <4>2
    <3>2. delayed \in Page /\ pg \in Page /\ delayed = PageOf(Base) /\ delayed # pg
      BY <2>1, <2>2, <2>4, <1>4
    <3>3. /\ toflush' \in Seq(Page) /\ toflush' # <<>> /\ toflush'[1] = delayed /\ toflush'[2] = pg
          /\ Len(toflush') = 2 /\ 1 .. Len(toflush') = {1, 2} /\ Len(toflush') < MaxToflush
          /\ Len(toflush') <= MaxToflush
      BY <3>1, <3>2, ToflushAssumption, SMT
    <3>4. dirty' \subseteq Range(toflush')
      BY <3>1, <3>3, SeqFacts
    <3>5. Base \in 0 .. append - 1
      BY <1>3, <1>4, <2>4, SMT
    <3>6. \A i, j \in 1 .. Len(toflush') : toflush'[i] = toflush'[j] => i = j
      BY <3>2, <3>3, SMT
    <3>7. \A i \in 1 .. Len(toflush') :
            toflush'[i] = pg \/ \E l \in 0 .. append - 1 : toflush'[i] = PageOf(l)
      BY <3>2, <3>3, <3>5
    <3>8. \E i \in 1 .. Len(toflush') : toflush'[i] = pg
      BY <3>3
    <3> QED BY <1>1, <1>4, <1>6, <2>1, <2>4, <3>1, <3>2, <3>3, <3>4, <3>6, <3>7, <3>8 DEF PageInv
  <2>5. CASE delayed # Null /\ pg = Null
    <3>1. toflush' = <<delayed>> /\ dirty' = {delayed}
      BY <2>3, <2>5, <1>1
    <3>2. delayed \in Page /\ delayed = PageOf(Base) /\ delayed # pg
      BY <2>1, <2>2, <2>5, <1>4
    <3>3. /\ toflush' \in Seq(Page) /\ toflush' # <<>> /\ toflush'[1] = delayed
          /\ Len(toflush') = 1 /\ 1 .. Len(toflush') = {1} /\ Len(toflush') < MaxToflush
          /\ Len(toflush') <= MaxToflush
      BY <3>1, <3>2, ToflushAssumption, SMT
    <3>4. dirty' \subseteq Range(toflush')
      <4>1. 1 \in 1 .. Len(toflush')
        BY <3>3
      <4>2. delayed \in Range(toflush')
        BY <3>3, <4>1, SeqFacts
      <4> QED BY <3>1, <4>2
    <3>5. Base \in 0 .. append - 1
      BY <1>3, <1>4, <2>5, SMT
    <3>6. \A i, j \in 1 .. Len(toflush') : toflush'[i] = toflush'[j] => i = j
      BY <3>3
    <3>7. \A i \in 1 .. Len(toflush') :
            toflush'[i] = pg \/ \E l \in 0 .. append - 1 : toflush'[i] = PageOf(l)
      BY <3>2, <3>3, <3>5
    <3> QED BY <1>1, <1>4, <1>6, <2>1, <2>5, <3>1, <3>2, <3>3, <3>4, <3>6, <3>7 DEF PageInv
  <2>6. CASE delayed = Null
    <3>1. done = 0 /\ ~(done > 0) /\ ret = "exit" /\ pg = PageOf(append) /\ Base = append
      BY <2>6, <1>3, <1>4, <1>5
    <3>2. toflush' = <<pg>> /\ dirty' = {}
      <4>1. toflush' = Append(<<>>, pg) /\ dirty' = {}
        BY <2>2, <2>3, <2>6, <3>1, <1>1
      <4>2. Append(<<>>, pg) = <<pg>>
        BY SMT
      <4> QED BY <4>1, <4>2
    <3>3. /\ toflush' \in Seq(Page) /\ toflush' # <<>> /\ toflush'[1] = pg
          /\ Len(toflush') = 1 /\ 1 .. Len(toflush') = {1} /\ Len(toflush') < MaxToflush
          /\ Len(toflush') <= MaxToflush
      BY <2>2, <3>1, <3>2, ToflushAssumption, SMT
    <3>4. \A i, j \in 1 .. Len(toflush') : toflush'[i] = toflush'[j] => i = j
      BY <3>3
    <3>5. \A i \in 1 .. Len(toflush') : toflush'[i] = pg
      BY <3>3
    <3>6. ~(nxio' < append)
      BY <3>1, <1>1, <1>3, <1>4, SMT
    <3>7. \E i \in 1 .. Len(toflush') : toflush'[i] = pg
      BY <3>3
    <3> QED BY <1>1, <1>4, <1>6, <2>1, <2>6, <3>1, <3>2, <3>3, <3>4, <3>5, <3>6, <3>7 DEF PageInv
  <2> QED BY <2>4, <2>5, <2>6
<1>14. MemInv'
  <2>1. ASSUME NEW m \in recs, NEW i \in 0 .. m.len - 1, m.start + i < append
        PROVE  mem'[m.start + i] = <<m, i>>
    <3>1. m.start + i \in Slot
      <4>1. m \in Node
        BY <1>7 DEF Tiles
      <4>2. m.start \in Nat /\ m.len \in Nat
        BY <4>1, NodeFields
      <4> QED BY <2>1, <4>2, <1>3, BoundAssumption, SMT DEF Slot
    <3>2. CASE delayed # Null /\ m.start + i = Base
      <4>1. m = list[1] /\ i = 0
        <5> DEFINE n == list[1]
        <5>1. n \in recs /\ 0 \in 0 .. n.len - 1 /\ m.start + i = n.start + 0
          BY <3>2, <1>8
        <5> HIDE DEF n
        <5>2. m = n /\ i = 0
          BY <5>1, <1>7, TilesApart, SMT
        <5> QED BY <5>2 DEF n
      <4> QED BY <4>1, <3>1, <3>2, <1>8, <1>9
    <3>3. CASE ~(delayed # Null /\ m.start + i = Base)
      <4>1. mem[m.start + i] = <<m, i>>
        BY <2>1, <3>3, <1>1, <1>2, <1>4, UpParts DEF MemInv
      <4> QED BY <3>1, <3>3, <4>1, <1>9, SMT
    <3> QED BY <3>2, <3>3
  <2> QED BY <1>1, <1>6, <2>1 DEF MemInv
<1>15. DiskInv'
  <2>1. Reads(disk, Base, recs, priorLsa) /\ \A l \in Slot : l < append => disk[l] = mem[l]
    BY <1>1, CleanReads
  <2>2. \A l \in 0 .. append - 1 : PageOf(l) \notin dirty' => disk[l] = mem'[l]
    <3>1. \A l \in 0 .. append - 1 : l \in Slot /\ l < append
      BY <1>3, BoundAssumption, SMT DEF Slot
    <3>2. delayed # Null => PageOf(Base) \in dirty'
      <4>1. delayed # Null => delayed = PageOf(Base) /\ delayed \in Range(KeptPages)
        <5>1. delayed \in Range(<<delayed>>)
          BY SMT DEF Range
        <5> QED BY <5>1, <1>5 DEF KeptPages
      <4> QED BY <4>1, <1>1
    <3> QED BY <2>1, <3>1, <3>2, <1>9
  <2>3. fpc' \notin {"sync", "writeFirst", "syncFirst", "clean"}
    BY <1>6 DEF FlushPcs
  <2> QED BY <1>1, <1>2, <1>4, <2>1, <2>2, <2>3 DEF DiskInv
<1>16. nxio' >= nxio
  BY <1>1, <1>3, <1>4, SMT
<1> QED BY <1>1, <1>10, <1>11, <1>12, <1>13, <1>14, <1>15, <1>16 DEF IInv, UpInv, DownInv

\* The owner leaves LOG_CS.
LEMMA LogExit ==
  ASSUME IInv, ExitLogCs
  PROVE  IInv'
<1>1. /\ UNCHANGED <<recs, priorLsa, prior, list, done, append, prev, pg, delayed, toflush, dirty>>
      /\ UNCHANGED <<mem, save, nxio, disk, pending, ret, up>>
      /\ up /\ fpc = "exit" /\ fpc' = "free" /\ cs' = Null
  <2>1. UNCHANGED <<list, done, append, prev, pg, delayed, toflush, dirty, mem, save>>
    BY DEF ExitLogCs, bufVars
  <2>2. UNCHANGED <<recs, priorLsa, prior, nxio, disk, pending, ret, up>>
    BY DEF ExitLogCs, diskVars, runVars
  <2>3. up /\ fpc = "exit" /\ fpc' = "free" /\ cs' = Null
    BY DEF ExitLogCs
  <2> QED BY <2>1, <2>2, <2>3
<1>2. ~Marked /\ ~Marked' /\ ~Hidden /\ ~Hidden' /\ UNCHANGED <<Where, PriorStart>>
  BY <1>1 DEF Where, Marked, Hidden, PriorStart, FlushPcs
<1>3. LogInv'
  BY <1>1, UpParts DEF LogInv
<1>4. QueueInv'
  BY <1>1, <1>2, UpParts DEF QueueInv
<1>5. PlaceInv'
  BY <1>1, <1>2, UpParts DEF PlaceInv, FlushPcs
<1>6. PageInv'
  BY <1>1, <1>2, UpParts DEF PageInv, FlushPcs
<1>7. MemInv'
  BY <1>1, <1>2, UpParts DEF MemInv
<1>8. DiskInv'
  BY <1>1, UpParts DEF DiskInv
<1> QED BY <1>1, <1>3, <1>4, <1>5, <1>6, <1>7, <1>8 DEF IInv, UpInv, DownInv

\* Whatever of the pages written and not synced survives a crash, a restart reads
\* the log up to nxio_lsa or further.
LEMMA OutcomeReads ==
  ASSUME IInv, NEW S \in SUBSET pending
  PROVE  \E e \in Slot : e >= nxio /\ Reads(Survives(S), e, recs, priorLsa)
<1>1. CASE up
  <2>1. /\ nxio \in Slot /\ nxio \in Nat /\ Base \in Slot /\ Base \in Nat /\ Base >= nxio
        /\ nxio >= nxio
    BY <1>1, UpFacts, BaseFacts, SMT
  <2>2. pending = CASE fpc = "sync" -> dirty \ {PageOf(nxio)}
                    [] fpc = "syncFirst" -> {PageOf(nxio)}
                    [] OTHER -> {}
    BY <1>1, UpParts DEF DiskInv
  <2>3. CASE PageOf(nxio) \notin S /\ fpc # "clean"
    <3>1. Reads(Survives(S), nxio, recs, priorLsa)
      BY <1>1, <2>3, ReadsNxio
    <3> QED BY <2>1, <3>1
  <2>4. CASE PageOf(nxio) \in S
    <3>1. fpc = "syncFirst"
      BY <2>2, <2>4
    <3>2. Marked
      BY <3>1 DEF Marked, FlushPcs
    <3>3. \A l \in Slot : l < append \/ l = Base => Survives(S)[l] = mem[l]
      <4>1. \A l \in Slot : l < append \/ l = Base =>
              (PageOf(l) # PageOf(nxio) => disk[l] = mem[l])
        BY <1>1, <3>1, RestSynced
      <4> QED BY <4>1, <2>4 DEF Survives
    <3>4. Reads(Survives(S), Base, recs, priorLsa)
      BY <1>1, <3>2, <3>3, ReadsMark
    <3> QED BY <2>1, <3>4
  <2>5. CASE fpc = "clean" /\ PageOf(nxio) \notin S
    <3>1. S = {}
      BY <2>2, <2>5
    <3>2. \A l \in Slot : Survives(S)[l] = disk[l]
      BY <3>1 DEF Survives
    <3>3. \A l \in Slot : l < append \/ l = Base => Survives(S)[l] = mem[l]
      BY <1>1, <2>5, <3>2, RestSynced
    <3>4. Marked
      BY <2>5 DEF Marked, FlushPcs
    <3>5. Reads(Survives(S), Base, recs, priorLsa)
      BY <1>1, <3>3, <3>4, ReadsMark
    <3> QED BY <2>1, <3>5
  <2> QED BY <2>3, <2>4, <2>5
<1>2. CASE ~up
  <2>1. pending = {} /\ disk \in [Slot -> Cell]
    BY <1>2 DEF IInv, DownInv, LogInv
  <2>2. Survives(S) = disk
    <3>1. S = {}
      BY <2>1
    <3>2. Survives(S) = [l \in Slot |-> disk[l]]
      BY <3>1 DEF Survives
    <3> QED BY <2>1, <3>2, SMT
  <2> QED BY <1>2, <2>2 DEF IInv, DownInv
<1> QED BY <1>1, <1>2

\* A crash.
LEMMA LogCrash ==
  ASSUME IInv, Crash
  PROVE  IInv'
<1>1. /\ UNCHANGED <<recs, priorLsa, nxio, mem, save>>
      /\ up /\ up' = FALSE /\ pending' = {}
  BY DEF Crash, tranVars, bufVars
<1>2. PICK S \in SUBSET pending : disk' = Survives(S)
  BY DEF Crash
<1>3. disk' \in [Slot -> Cell] /\ Placed(disk')
  BY <1>2, SurvivesType DEF IInv
<1>4. LogInv'
  BY <1>1, <1>3 DEF LogInv, IInv
<1>5. \E e \in Slot : e >= nxio' /\ Reads(disk', e, recs', priorLsa')
  BY <1>1, <1>2, OutcomeReads
<1> QED BY <1>1, <1>4, <1>5 DEF IInv, DownInv, UpInv

\* The records up to a boundary are a log.
LEMMA TilesPrefix ==
  ASSUME NEW R, NEW top, Tiles(R, top), NEW e, Boundary(e, R, top)
  PROVE  Tiles({n \in R : n.start < e}, e)
<1> DEFINE Q == {n \in R : n.start < e}
<1>1. e \in Slot /\ e <= top /\ top \in Slot /\ e \in Nat /\ top \in Nat
  <2>1. e \in Slot /\ e <= top /\ top \in Slot
    BY BoundarySlot DEF Tiles
  <2> QED BY <2>1, BoundAssumption, SMT DEF Slot
<1>2. \A n \in R : /\ n.start \in Nat /\ End(n) \in Nat /\ n.start < End(n)
                   /\ (n.start < e => End(n) <= e)
  <2>1. \A n \in R : n.start \in Nat /\ n.len \in Nat /\ n.len > 0
    BY NodeFields DEF Tiles
  <2>2. \A n \in R : n.start < e => End(n) <= e
    BY EndsBefore
  <2>3. \A n \in R : End(n) \in Nat /\ n.start < End(n)
    BY <2>1, SMT DEF End
  <2> QED BY <2>1, <2>2, <2>3
<1>3. ASSUME NEW b \in Nat, b < e, Boundary(b, R, top) PROVE \E n \in Q : n.start = b
  <2>1. PICK n \in R : n.start = b
    BY <1>3, BoundaryRecord, SMT
  <2> QED BY <2>1, <1>3
<1>4. \A n \in Q : End(n) <= e /\ Boundary(End(n), Q, e)
  <2>1. ASSUME NEW n \in Q PROVE Boundary(End(n), Q, e)
    <3>1. Boundary(End(n), R, top) /\ End(n) \in Nat /\ End(n) <= e
      BY <1>2 DEF Tiles
    <3>2. CASE End(n) = e
      BY <3>2 DEF Boundary
    <3>3. CASE End(n) # e
      <4>1. End(n) < e
        BY <3>1, <3>3, <1>1, SMT
      <4> HIDE DEF Q
      <4> QED BY <4>1, <3>1, <1>3 DEF Boundary
    <3> QED BY <3>2, <3>3
  <2> QED BY <2>1, <1>2
<1>5. Boundary(0, Q, e)
  <2>1. e = 0 \/ 0 < e
    BY <1>1, SMT
  <2>2. Boundary(0, R, top)
    BY DEF Tiles
  <2> HIDE DEF Q
  <2> QED BY <2>1, <2>2, <1>3, SMT DEF Boundary
<1>6. e # 0 => \E n \in Q : End(n) = e
  <2> SUFFICES ASSUME e # 0 PROVE \E n \in R : End(n) = e
    BY <1>2
  <2>1. CASE e = top
    BY <2>1 DEF Tiles
  <2>2. ASSUME NEW m \in R, m.start = e PROVE \E n \in R : End(n) = e
    BY <2>2 DEF Tiles
  <2> QED BY <2>1, <2>2 DEF Boundary
<1>7. \A m \in Q : m.start # 0 => \E n \in Q : End(n) = m.start
  <2> SUFFICES ASSUME NEW m \in Q, m.start # 0 PROVE \E n \in Q : End(n) = m.start
    OBVIOUS
  <2>1. PICK n \in R : End(n) = m.start
    BY DEF Tiles
  <2>2. n.start < e
    <3>1. n.start \in Nat /\ n.start < End(n) /\ m.start \in Nat /\ m.start < e
      BY <1>2
    <3> HIDE DEF Q
    <3> QED BY <2>1, <3>1, <1>1, SMT
  <2> QED BY <2>1, <2>2
<1>8. /\ Q \subseteq Node /\ \A m, n \in Q : m.start < n.start => End(m) <= n.start
      /\ \A m, n \in Q : m.start = n.start => m = n
  BY DEF Tiles
<1> HIDE DEF Q
<1>9. Tiles(Q, e)
  BY <1>1, <1>4, <1>5, <1>6, <1>7, <1>8 DEF Tiles
<1> QED BY <1>9 DEF Q

\* What a restart finds.
LEMMA DownReads ==
  ASSUME IInv, ~up
  PROVE  \E e \in Slot : /\ e >= nxio /\ Reads(disk, e, recs, priorLsa)
                         /\ Chain(disk) = {n \in recs : n.start < e} /\ EndOf(disk) = e
<1>1. PICK e \in Slot : e >= nxio /\ Reads(disk, e, recs, priorLsa)
  BY DEF IInv, DownInv
<1>2. Tiles(recs, priorLsa) /\ disk \in [Slot -> Cell] /\ Placed(disk)
  BY DEF IInv, LogInv
<1>3. Chain(disk) = {n \in recs : n.start < e} /\ EndOf(disk) = e
  BY <1>1, <1>2, ChainReads
<1> QED BY <1>1, <1>3

\* A restart goes on where the records end.
LEMMA LogRecover ==
  ASSUME IInv, Recover
  PROVE  IInv' /\ nxio' >= nxio /\ recs' = {n \in recs : n.start < nxio'}
<1>1. /\ ~up /\ up' = TRUE /\ recs' = Chain(disk)
      /\ prior' = <<>> /\ list' = <<>> /\ done' = 0 /\ delayed' = Null
      /\ dirty' = {} /\ mem' = disk /\ save' = Null
      /\ cs' = Null /\ fpc' = "free" /\ ret' = "exit"
      /\ UNCHANGED <<disk, pending>>
  BY DEF Recover, diskVars
<1>2. PICK e \in Slot : /\ e >= nxio /\ Reads(disk, e, recs, priorLsa)
                        /\ Chain(disk) = {n \in recs : n.start < e} /\ EndOf(disk) = e
  BY <1>1, DownReads
<1>3. /\ priorLsa' = e /\ append' = e /\ nxio' = e /\ pg' = PageOf(e) /\ toflush' = <<PageOf(e)>>
  BY <1>2 DEF Recover, RestartLsa
<1>4. recs' = {n \in recs : n.start < e} /\ pending = {}
  BY <1>1, <1>2 DEF IInv, DownInv
<1>5. Tiles(recs, priorLsa) /\ disk \in [Slot -> Cell] /\ Placed(disk) /\ Boundary(e, recs, priorLsa)
  BY <1>2 DEF IInv, LogInv, Reads
<1>6. Tiles(recs', e)
  BY <1>4, <1>5, TilesPrefix
<1>7. Boundary(e, recs', e)
  BY DEF Boundary
<1>8. LogInv'
  BY <1>1, <1>3, <1>5, <1>6, <1>7 DEF LogInv, Cell
<1>9. ~Marked' /\ ~Hidden' /\ Where' = "exit" /\ PriorStart' = e
  BY <1>1, <1>3 DEF Marked, Hidden, Where, FlushPcs, PriorStart
<1>10. QueueInv'
  <2>1. <<>> \in Seq(recs')
    BY SMT
  <2>2. Chained(<<>>, e, e)
    BY SMT DEF Chained
  <2>3. e - 0 = e
    BY BoundAssumption, SMT DEF Slot
  <2> QED BY <1>1, <1>3, <1>9, <2>1, <2>2, <2>3 DEF QueueInv
<1>11. PlaceInv'
  <2>1. e \in Nat /\ 0 <= e /\ e <= e - 0 /\ ~(0 > 0) /\ 0 \in Nat
    BY BoundAssumption, SMT DEF Slot
  <2> QED BY <1>1, <1>3, <1>9, <2>1 DEF PlaceInv, FlushPcs
<1>12. PageInv'
  <2>1. PageOf(e) \in Page /\ PageOf(e) # Null
    BY PageType
  <2>2. /\ toflush' \in Seq(Page) /\ toflush' # <<>> /\ toflush'[1] = PageOf(e)
        /\ Len(toflush') = 1 /\ 1 .. Len(toflush') = {1} /\ Len(toflush') < MaxToflush
        /\ Len(toflush') <= MaxToflush
    BY <1>3, <2>1, ToflushAssumption, SMT
  <2>3. ~(0 > 0) /\ ~(e < e)
    BY BoundAssumption, SMT DEF Slot
  <2>4. \A i, j \in 1 .. Len(toflush') : toflush'[i] = toflush'[j] => i = j
    BY <2>2
  <2>5. \A i \in 1 .. Len(toflush') : toflush'[i] = PageOf(e)
    BY <2>2
  <2>6. \E i \in 1 .. Len(toflush') : toflush'[i] = PageOf(e)
    BY <2>2
  <2> QED BY <1>1, <1>3, <1>9, <2>1, <2>2, <2>3, <2>4, <2>5, <2>6 DEF PageInv
<1>13. MemInv'
  <2>1. ASSUME NEW n \in recs', NEW i \in 0 .. n.len - 1 PROVE disk[n.start + i] = <<n, i>>
    BY <1>2, <1>4 DEF Reads, Intact
  <2> QED BY <1>1, <1>9, <2>1 DEF MemInv
<1>14. DiskInv'
  <2>1. Reads(disk, e, recs', e)
    BY <1>2, <1>4, <1>7 DEF Reads
  <2> QED BY <1>1, <1>3, <1>4, <2>1 DEF DiskInv
<1> QED BY <1>1, <1>2, <1>3, <1>4, <1>8, <1>10, <1>11, <1>12, <1>13, <1>14 DEF IInv, UpInv,
           DownInv

\* Every step keeps the invariant.
LEMMA LogStep ==
  ASSUME IInv, [Next]_vars
  PROVE  IInv'
<1>1. ASSUME NEW t \in Trans, Update(t) \/ Commit(t) PROVE IInv'
  BY <1>1, LogAppends
<1>2. ASSUME LogCsStep PROVE IInv'
  BY <1>2, LogDrain, LogAppendSlot, LogCreatePage, LogEndAppend, LogFlushStart, LogWriteRest,
     LogSyncRest, LogWriteFirst, LogSyncFirst, LogFlushEnd, LogExit DEF LogCsStep
<1>3. ASSUME UNCHANGED logState PROVE IInv'
  BY <1>3, LogStutters
<1> QED BY <1>1, <1>2, <1>3, LogUnused, LogEnter, LogCrash, LogRecover DEF Next

-----------------------------------------------------------------------------
(* No request is lost *)

PcSet == {"begin", "updated", "test", "lock", "wait", "direct", "in", "acked", "gone"}

\* NoLostRequest is inductive once group commit is known to send nobody to wait.
RequestInv ==
  /\ pc \in [Trans -> PcSet]
  /\ GroupCommit => \A t \in Trans : pc[t] \notin {"lock", "wait"}
  /\ NoLostRequest

\* The steps of the owner of LOG_CS inside the section leave the transactions and
\* the log flush thread alone.
LEMMA OwnerFrame ==
  ASSUME Drain \/ AppendSlot \/ CreatePage \/ EndAppend \/ FlushStart \/ WriteRest
           \/ SyncRest \/ WriteFirst \/ SyncFirst \/ FlushEnd
  PROVE  UNCHANGED <<pc, lft, nreq, up, config>>
BY DEF Drain, AppendSlot, CreatePage, EndAppend, FlushStart, WriteRest, SyncRest, WriteFirst,
   SyncFirst, FlushEnd, ownerFrame, lftVars, runVars

\* Initially nobody waits.
LEMMA RequestInit == Init => RequestInv
BY DEF Init, RequestInv, NoLostRequest, PcSet

\* Every step keeps a waiting commit's request known to the log flush thread.
LEMMA RequestStep == RequestInv /\ [Next]_vars => RequestInv'
<1> SUFFICES ASSUME RequestInv, [Next]_vars PROVE RequestInv'
  OBVIOUS
<1> USE DEF RequestInv, NoLostRequest, PcSet, GroupCommit
<1>1. ASSUME NEW t \in Trans, Update(t) PROVE RequestInv'
  <2>1. pc' = [pc EXCEPT ![t] = "updated"] /\ up' = up /\ config' = config
    BY <1>1 DEF Update, runVars
  <2>2. \/ lft' = lft /\ nreq' = nreq
        \/ nreq' = TRUE /\ lft' = IF lft = "waiting" THEN "enter" ELSE lft
    BY <1>1 DEF Update, NextRecord, WakeupLft, lftVars
  <2> QED BY <2>1, <2>2, SMT
<1>2. ASSUME NEW t \in Trans, Commit(t) PROVE RequestInv'
  <2>1. pc' = [pc EXCEPT ![t] = IF LftAvailable THEN "test" ELSE "direct"] /\ up' = up /\ config' = config
    BY <1>2 DEF Commit, runVars
  <2>2. \/ lft' = lft /\ nreq' = nreq
        \/ nreq' = TRUE /\ lft' = IF lft = "waiting" THEN "enter" ELSE lft
    BY <1>2 DEF Commit, NextRecord, WakeupLft, lftVars
  <2> QED BY <2>1, <2>2, SMT
<1>3. ASSUME NEW t \in Trans, CommitTest(t) PROVE RequestInv'
  <2>1. \/ pc' = [pc EXCEPT ![t] = "acked"]
        \/ ~GroupCommit /\ pc' = [pc EXCEPT ![t] = "lock"]
    BY <1>3 DEF CommitTest, Ack
  <2>2. lft' = lft /\ nreq' = nreq /\ up' = up /\ config' = config
    BY <1>3 DEF CommitTest, lftVars, runVars
  <2> QED BY <2>1, <2>2
<1>4. ASSUME NEW t \in Trans, CommitWait(t) PROVE RequestInv'
  <2>1. \/ pc' = [pc EXCEPT ![t] = "acked"] /\ lft' = lft /\ nreq' = nreq
        \/ /\ pc' = [pc EXCEPT ![t] = "wait"] /\ nreq' = TRUE
           /\ lft' = IF lft = "waiting" THEN "enter" ELSE lft
    BY <1>4 DEF CommitWait, Ack, WakeupLft, lftVars
  <2>2. up' = up /\ config' = config /\ pc[t] = "lock"
    BY <1>4 DEF CommitWait, runVars
  <2> QED BY <2>1, <2>2, SMT
<1>5. ASSUME NEW t \in Trans, CommitTimeout(t) PROVE RequestInv'
  BY <1>5 DEF CommitTimeout, lftVars, runVars
<1>6. ASSUME NEW t \in Trans, DirectEnter(t) PROVE RequestInv'
  BY <1>6 DEF DirectEnter, lftVars, runVars
<1>7. ASSUME NEW t \in Trans, PageCopy(t) PROVE RequestInv'
  BY <1>7 DEF PageCopy, tranVars, lftVars, runVars
<1>8. ASSUME LftCheck PROVE RequestInv'
  BY <1>8 DEF LftCheck, tranVars, runVars
<1>9. ASSUME LftTimeout \/ LftEnter PROVE RequestInv'
  BY <1>9 DEF LftTimeout, LftEnter, tranVars, runVars
<1>10. ASSUME LftContinue PROVE RequestInv'
  BY <1>10 DEF LftContinue, tranVars, runVars
<1>11. ASSUME LftBroadcast PROVE RequestInv'
  BY <1>11 DEF LftBroadcast, runVars
<1>12. ASSUME PageEnter \/ PageWrite PROVE RequestInv'
  BY <1>12, SMT DEF PageEnter, PageWrite, tranVars, lftVars, runVars
<1>13. ASSUME ExitLogCs PROVE RequestInv'
  <2>1. up' = up /\ config' = config /\ nreq' = nreq
    BY <1>13 DEF ExitLogCs, runVars
  <2>2. lft' \in {lft, "broadcast"} /\ (pc' = pc \/ pc' = [pc EXCEPT ![cs] = "acked"])
    BY <1>13 DEF ExitLogCs, Ack
  <2> QED BY <2>1, <2>2
<1>14. ASSUME Crash PROVE RequestInv'
  BY <1>14 DEF Crash, tranVars
<1>15. ASSUME Recover PROVE RequestInv'
  <2>1. pc' = [t \in Trans |-> IF pc[t] = "begin" THEN "begin" ELSE "gone"]
        /\ config' = config
    BY <1>15 DEF Recover
  <2> QED BY <2>1
<1>16. ASSUME UNCHANGED <<pc, lft, nreq, up, config>> PROVE RequestInv'
  BY <1>16
<1> HIDE DEF RequestInv, NoLostRequest, PcSet, GroupCommit
<1> QED
  BY <1>1, <1>2, <1>3, <1>4, <1>5, <1>6, <1>7, <1>8, <1>9, <1>10, <1>11, <1>12, <1>13, <1>14,
     <1>15, <1>16, OwnerFrame DEF Next, CommitStep, LogCsStep, vars

\* A commit never waits on gc_cond while the log flush thread sleeps or is about to
\* (logpb_flush_pages against thread_log_flush_thread).
THEOREM RequestsNotLost == Spec => []NoLostRequest
<1>1. RequestInv => NoLostRequest
  BY DEF RequestInv
<1> QED BY RequestInit, RequestStep, <1>1, PTL DEF Spec

-----------------------------------------------------------------------------
(* What the invariant of the log says of a crash *)

\* What a crash could leave now, as a restart reads it.
LEMMA OutcomeChain ==
  ASSUME IInv, NEW d \in Outcomes
  PROVE  \E e \in Slot : /\ e >= nxio /\ Reads(d, e, recs, priorLsa)
                         /\ Chain(d) = {n \in recs : n.start < e} /\ EndOf(d) = e
<1>1. PICK S \in SUBSET pending : d = Survives(S)
  BY DEF Outcomes
<1>2. PICK e \in Slot : e >= nxio /\ Reads(d, e, recs, priorLsa)
  BY <1>1, OutcomeReads
<1>3. Tiles(recs, priorLsa) /\ d \in [Slot -> Cell] /\ Placed(d)
  BY <1>1, SurvivesType DEF IInv, LogInv
<1>4. Chain(d) = {n \in recs : n.start < e} /\ EndOf(d) = e
  BY <1>2, <1>3, ChainReads
<1> QED BY <1>2, <1>4

\* A restart reads a whole prefix of the log, and no less than what was flushed.
LEMMA LogSafe ==
  ASSUME IInv
  PROVE  RecoveryReadsPrefix /\ FlushedSurvives
<1>1. ASSUME NEW d \in Outcomes
      PROVE  /\ d[EndOf(d)] = Eof /\ Chain(d) = {n \in recs : n.start < EndOf(d)}
             /\ \A n \in Chain(d) : Intact(n, d)
             /\ EndOf(d) >= nxio
  <2>1. PICK e \in Slot : /\ e >= nxio /\ Reads(d, e, recs, priorLsa)
                          /\ Chain(d) = {n \in recs : n.start < e} /\ EndOf(d) = e
    BY OutcomeChain
  <2> QED BY <2>1 DEF Reads
<1>2. RecoveryReadsPrefix
  BY <1>1 DEF RecoveryReadsPrefix
<1>3. FlushedSurvives
  BY <1>1 DEF FlushedSurvives
<1> QED BY <1>2, <1>3, SMT

-----------------------------------------------------------------------------
(* The invariant of those who wait for the log *)

\* Transaction t has a record of this type in R, before address l.
Logged(R, t, type, l) == \E n \in R : n.tran = t /\ n.type = type /\ n.start < l

\* The owner of LOG_CS is about to flush, or flushes, the records before this.
Taken == IF fpc = "drain" THEN priorLsa ELSE PriorStart

\* From the commit record to the end of the commit.
Committing == {"test", "lock", "wait", "direct", "in", "acked"}

\* Who owns LOG_CS.
OwnerInv ==
  /\ cs \in Trans \cup {LFT, PB, Null}
  /\ lft = "in" <=> cs = LFT
  /\ pb.state = "in" <=> cs = PB
  /\ \A t \in Trans : pc[t] = "in" <=> cs = t

\* A data page is written once the log record of its update is behind nxio_lsa.
PageFlushInv ==
  /\ pb \in [state : {"idle", "enter", "in", "write"}, tran : Trans \cup {Null}]
  /\ pb.state # "idle" => pb.tran \in Trans /\ Logged(recs, pb.tran, "update", priorLsa)
  /\ up /\ pb.state = "in" => Logged(recs, pb.tran, "update", Taken)
  /\ pb.state = "write" => Logged(recs, pb.tran, "update", nxio)
  /\ data \subseteq Trans /\ \A t \in data : Logged(recs, t, "update", nxio)

\* What the place of a transaction in logpb_flush_pages tells of its commit record.
TranInv(t) ==
  /\ pc[t] \in Committing => Logged(recs, t, "commit", priorLsa)
  /\ up /\ pc[t] = "in" => Logged(recs, t, "commit", Taken)
  /\ pc[t] \in {"test", "lock", "wait"} => config # "direct"
  /\ pc[t] = "acked" => t \in acked
  /\ pc[t] = "acked" /\ config = "normal" => Logged(recs, t, "commit", nxio + 1)

\* A transaction has at most one commit record, and none before it commits.
CommitRecsInv ==
  /\ \A n \in recs : n.type = "commit" => pc[n.tran] \in Committing \cup {"gone"}
  /\ \A m, n \in recs : m.type = "commit" /\ n.type = "commit" /\ m.tran = n.tran => m = n

\* Commits.
CommitInv ==
  /\ pc \in [Trans -> {"begin", "updated", "gone"} \cup Committing]
  /\ acked \subseteq Trans /\ config \in Configs
  /\ CommitRecsInv
  /\ \A t \in Trans : TranInv(t)
  /\ config = "direct" => \A t \in acked : Logged(recs, t, "commit", nxio)

\* The inductive invariant of those who wait, relative to that of the log.
WaitInv == OwnerInv /\ PageFlushInv /\ CommitInv

\* Initially nobody waits.
LEMMA WaitInit == Init => WaitInv
<1> SUFFICES ASSUME Init PROVE WaitInv
  OBVIOUS
<1>1. pb = NoPage /\ NoPage.state = "idle" /\ NoPage \in [state : {"idle", "enter", "in", "write"}, tran : Trans \cup {Null}]
  BY SMT DEF Init, NoPage
<1>2. PageFlushInv
  <2>1. data = {}
    BY DEF Init
  <2> QED BY <1>1, <2>1 DEF PageFlushInv
<1>3. OwnerInv
  <2>1. cs = Null /\ lft = "top" /\ pc = [t \in Trans |-> "begin"]
    BY DEF Init
  <2> QED BY <1>1, <2>1, NullAssumption DEF OwnerInv, LFT, PB
<1>4. CommitInv
  <2>1. pc = [t \in Trans |-> "begin"] /\ recs = {} /\ acked = {} /\ config \in Configs
    BY DEF Init
  <2> QED BY <2>1 DEF CommitInv, CommitRecsInv, TranInv, Committing
<1> QED BY <1>2, <1>3, <1>4 DEF WaitInv

\* A record that was logged before an address is logged before a later one.
LEMMA LoggedGrows ==
  ASSUME NEW R, R \subseteq Node, NEW Q, R \subseteq Q, NEW l \in Nat, NEW m \in Nat, l <= m,
         NEW t, NEW type, Logged(R, t, type, l)
  PROVE  Logged(Q, t, type, m)
<1>1. PICK n \in R : n.tran = t /\ n.type = type /\ n.start < l
  BY DEF Logged
<1>2. n.start \in Nat
  BY NodeFields
<1>3. n.start < m
  BY <1>1, <1>2, SMT
<1> QED BY <1>1, <1>3 DEF Logged

\* The log of every step but a restart: it grows, nxio_lsa moves forward.
Grows ==
  /\ recs \subseteq recs' /\ priorLsa' >= priorLsa /\ nxio' >= nxio /\ UNCHANGED config
  /\ up' => up /\ Taken' >= Taken

\* Where the prior list starts after a step.
LEMMA PriorNext == (IInv /\ up => PriorStart \in Nat)'
<1>1. IInv /\ up => PriorStart \in Nat
  BY PriorFacts
<1> QED BY <1>1, PTL

\* Then what was logged stays logged.
LEMMA LoggedStays ==
  ASSUME IInv, IInv', Grows
  PROVE  \A t, type : /\ Logged(recs, t, type, nxio) => Logged(recs', t, type, nxio')
                      /\ Logged(recs, t, type, nxio + 1) => Logged(recs', t, type, nxio' + 1)
                      /\ Logged(recs, t, type, priorLsa) => Logged(recs', t, type, priorLsa')
                      /\ up' /\ Logged(recs, t, type, Taken) => Logged(recs', t, type, Taken')
<1>1. recs \subseteq Node /\ nxio \in Slot /\ priorLsa \in Slot
  BY DEF IInv, LogInv, Tiles
<1>2. nxio' \in Slot /\ priorLsa' \in Slot
  BY DEF IInv, LogInv, Tiles
<1>3. /\ nxio \in Nat /\ priorLsa \in Nat /\ nxio' \in Nat /\ priorLsa' \in Nat
      /\ nxio + 1 \in Nat /\ nxio' + 1 \in Nat
      /\ nxio <= nxio' /\ nxio + 1 <= nxio' + 1 /\ priorLsa <= priorLsa'
  <2>1. priorLsa' >= priorLsa /\ nxio' >= nxio
    BY DEF Grows
  <2>2. nxio \in Nat /\ priorLsa \in Nat
    BY <1>1, BoundAssumption, SMT DEF Slot
  <2>3. nxio' \in Nat /\ priorLsa' \in Nat
    BY <1>2, BoundAssumption, SMT DEF Slot
  <2>4. \A a, b \in Nat : b >= a => a <= b /\ a + 1 \in Nat /\ b + 1 \in Nat /\ a + 1 <= b + 1
    BY SMT
  <2> QED BY <2>1, <2>2, <2>3, <2>4
<1>4. up' => Taken \in Nat /\ Taken' \in Nat /\ Taken <= Taken'
  <2>1. up' => PriorStart \in Nat /\ PriorStart' \in Nat
    BY PriorFacts, PriorNext DEF Grows
  <2>2. up' => Taken \in Nat /\ Taken' \in Nat
    BY <2>1, <1>3 DEF Taken
  <2>3. up' => Taken' >= Taken
    BY DEF Grows
  <2> QED BY <2>2, <2>3, SMT
<1>5. recs \subseteq recs'
  BY DEF Grows
<1> QED BY <1>1, <1>3, <1>4, <1>5, LoggedGrows

\* Addresses are numbers.
LEMMA GrowFacts ==
  ASSUME IInv
  PROVE  /\ nxio >= nxio /\ priorLsa >= priorLsa
         /\ up => Taken >= Taken /\ Taken \in Nat /\ priorLsa >= PriorStart
<1>1. nxio \in Slot /\ priorLsa \in Slot
  BY DEF IInv, LogInv, Tiles
<1>2. nxio \in Nat /\ priorLsa \in Nat
  BY <1>1, BoundAssumption, SMT DEF Slot
<1>3. up => PriorStart \in Nat /\ PriorStart <= priorLsa
  BY PriorFacts
<1>4. up => Taken \in Nat
  BY <1>2, <1>3 DEF Taken
<1> QED BY <1>2, <1>3, <1>4, SMT

\* A record of a transaction adds to the log.
LEMMA AppendGrows ==
  ASSUME IInv, NEW t \in Trans, Update(t) \/ Commit(t)
  PROVE  Grows
<1>1. up /\ UNCHANGED <<nxio, up, config, fpc>>
  BY DEF Update, Commit, csVars, runVars
<1>2. PICK k \in UpdateLens \cup {CommitLen}, type \in {"update", "commit"} :
        NextRecord([tran |-> t, type |-> type, start |-> priorLsa, len |-> k])
  BY DEF Update, Commit
<1> DEFINE n == [tran |-> t, type |-> type, start |-> priorLsa, len |-> k]
<1>3. n.start = priorLsa /\ n.len = k
  OBVIOUS
<1>4. recs' = recs \cup {n} /\ prior' = Append(prior, n) /\ priorLsa' = n.start + n.len
  BY <1>2 DEF NextRecord
<1> HIDE DEF n
<1>5. priorLsa \in Nat /\ k \in Nat
  BY <1>1, UpFacts, LengthAssumption, SMT
<1>6. priorLsa' >= priorLsa
  BY <1>3, <1>4, <1>5, SMT
<1>7. prior \in Seq(recs)
  BY <1>1, UpParts DEF QueueInv
<1>8. PriorStart' = PriorStart
  <2>1. prior = <<>> => prior' # <<>> /\ prior'[1] = n
    BY <1>4, <1>7, SMT
  <2>2. prior # <<>> => prior' # <<>> /\ prior'[1] = prior[1]
    BY <1>4, <1>7, SMT
  <2> QED BY <2>1, <2>2, <1>3 DEF PriorStart
<1>9. Taken' >= Taken
  <2>1. CASE fpc = "drain"
    BY <2>1, <1>1, <1>6 DEF Taken
  <2>2. CASE fpc # "drain"
    <3>1. Taken' = Taken
      BY <2>2, <1>1, <1>8 DEF Taken
    <3> QED BY <1>1, <3>1, GrowFacts
  <2> QED BY <2>1, <2>2
<1>10. nxio' >= nxio
  BY <1>1, GrowFacts
<1> QED BY <1>1, <1>4, <1>6, <1>9, <1>10 DEF Grows

\* So does the work of the owner of LOG_CS, who takes what it found in the list.
LEMMA OwnerGrows ==
  ASSUME IInv, LogCsStep \/ (\E t \in Trans : DirectEnter(t)) \/ LftEnter \/ PageEnter
  PROVE  Grows
<1>1. UNCHANGED <<recs, priorLsa, up, config>> /\ up
  BY DEF LogCsStep, DirectEnter, LftEnter, PageEnter, ownerFrame, tranVars, runVars, Drain,
     AppendSlot, CreatePage, EndAppend, FlushStart, WriteRest, SyncRest, WriteFirst, SyncFirst,
     FlushEnd, ExitLogCs
<1>2. FlushEnd \/ nxio' = nxio
  BY DEF LogCsStep, DirectEnter, LftEnter, PageEnter, Drain, AppendSlot, CreatePage, EndAppend,
     FlushStart, WriteRest, SyncRest, WriteFirst, SyncFirst, ExitLogCs
<1>3. nxio' >= nxio
  BY <1>2, LogFlushEnd, GrowFacts
<1>4. Taken' >= Taken
  <2>1. CASE Drain
    <3>1. Taken = priorLsa /\ Taken' = priorLsa
      BY <2>1, <1>1 DEF Drain, Taken, PriorStart
    <3> QED BY <3>1, GrowFacts
  <2>2. CASE (\E t \in Trans : DirectEnter(t)) \/ LftEnter \/ PageEnter
    <3>1. cs = Null /\ fpc' = "drain" /\ prior' = prior
      BY <2>2 DEF DirectEnter, LftEnter, PageEnter, EnterLogCs, tranVars
    <3>2. fpc = "free"
      BY <3>1, <1>1, UpParts DEF PlaceInv
    <3>3. Taken = PriorStart /\ Taken' = priorLsa
      BY <3>1, <3>2, <1>1 DEF Taken
    <3> QED BY <3>3, <1>1, GrowFacts
  <2>3. CASE LogCsStep /\ ~Drain
    <3>1. prior' = prior /\ fpc # "drain"
      BY <2>3 DEF LogCsStep, ownerFrame, AppendSlot, CreatePage, EndAppend, FlushStart, WriteRest,
         SyncRest, WriteFirst, SyncFirst, FlushEnd, ExitLogCs
    <3>2. fpc' # "drain"
      <4>1. ret # "drain"
        BY <1>1, UpParts DEF PlaceInv, Where
      <4> QED BY <4>1, <2>3 DEF LogCsStep, AppendSlot, CreatePage, EndAppend, FlushStart,
                 WriteRest, SyncRest, WriteFirst, SyncFirst, FlushEnd, ExitLogCs, AfterSlot
    <3>3. Taken' = Taken
      BY <3>1, <3>2, <1>1 DEF Taken, PriorStart
    <3> QED BY <3>3, <1>1, GrowFacts
  <2> QED BY <2>1, <2>2, <2>3
<1> QED BY <1>1, <1>3, <1>4, GrowFacts DEF Grows

\* The other steps leave the log alone.
LEMMA OtherGrows ==
  ASSUME IInv,
         \/ \E t \in Trans : CommitStep(t) \/ CommitTimeout(t) \/ PageCopy(t)
         \/ LftCheck \/ LftTimeout \/ LftContinue \/ LftBroadcast \/ PageWrite
         \/ Crash \/ UNCHANGED vars
  PROVE  Grows /\ recs' = recs /\ nxio' = nxio /\ cs' = cs
<1>1. /\ UNCHANGED <<recs, priorLsa, prior, nxio, cs, fpc, config>>
      /\ up' => up
  <2>1. CASE Crash
    BY <2>1 DEF Crash, tranVars, csVars
  <2>2. CASE ~Crash
    <3>1. UNCHANGED logState
      BY <2>2, LogUnused
    <3>2. config' = config
      BY <2>2 DEF CommitStep, CommitTest, CommitWait, CommitTimeout, PageCopy, LftCheck,
         LftTimeout, LftContinue, LftBroadcast, PageWrite, runVars, vars
    <3> QED BY <3>1, <3>2 DEF logState
  <2> QED BY <2>1, <2>2
<1>2. Taken' = Taken
  BY <1>1 DEF Taken, PriorStart
<1> QED BY <1>1, <1>2, GrowFacts DEF Grows

\* The thread that flushes a data page is not disturbed by what the others do.
LEMMA PageKept ==
  ASSUME IInv, IInv', PageFlushInv, Grows, UNCHANGED <<pb, data>>
  PROVE  PageFlushInv'
<1>1. UNCHANGED <<pb, data>> /\ (up' => up)
  BY DEF Grows
<1> QED BY <1>1, LoggedStays DEF PageFlushInv

\* Neither is a transaction that stays where it is.
LEMMA TranKept ==
  ASSUME IInv, IInv', Grows, NEW t \in Trans, TranInv(t), pc'[t] = pc[t], acked \subseteq acked'
  PROVE  TranInv(t)'
<1>1. config' = config /\ (up' => up)
  BY DEF Grows
<1> QED BY <1>1, LoggedStays DEF TranInv

\* No transaction takes a step.
LEMMA CommitKept ==
  ASSUME IInv, IInv', CommitInv, Grows, UNCHANGED <<recs, pc, acked>>
  PROVE  CommitInv'
<1>1. UNCHANGED <<recs, pc, acked>> /\ config' = config
  BY DEF Grows
<1>2. \A t \in Trans : TranInv(t)'
  BY <1>1, TranKept DEF CommitInv
<1>3. CommitRecsInv'
  BY <1>1 DEF CommitInv, CommitRecsInv
<1>4. config = "direct" => \A t \in acked : Logged(recs', t, "commit", nxio')
  BY LoggedStays DEF CommitInv
<1> QED BY <1>1, <1>2, <1>3, <1>4 DEF CommitInv

\* A transaction that has logged its commit goes from one place to another.
LEMMA CommitMoves ==
  ASSUME IInv, IInv', CommitInv, Grows, NEW t \in Trans, NEW place \in Committing,
         pc[t] \in Committing, pc' = [pc EXCEPT ![t] = place], recs' = recs,
         acked \subseteq acked', acked' \subseteq acked \cup {t}, TranInv(t)',
         config = "direct" /\ t \in acked' => Logged(recs', t, "commit", nxio')
  PROVE  CommitInv'
<1>1. config' = config
  BY DEF Grows
<1>2. pc \in [Trans -> {"begin", "updated", "gone"} \cup Committing]
  BY DEF CommitInv
<1>3. pc' \in [Trans -> {"begin", "updated", "gone"} \cup Committing]
  BY <1>2
<1>4. pc'[t] = place /\ \A u \in Trans : u # t => pc'[u] = pc[u]
  BY <1>2
<1>5. \A u \in Trans : TranInv(u)'
  BY <1>4, TranKept DEF CommitInv
<1>6. CommitRecsInv'
  <2>1. \A n \in recs : n.tran \in Trans
    BY NodeFields DEF IInv, LogInv, Tiles
  <2> QED BY <1>4, <2>1 DEF CommitInv, CommitRecsInv
<1>7. config' = "direct" => \A u \in acked' : Logged(recs', u, "commit", nxio')
  BY <1>1, LoggedStays DEF CommitInv
<1>8. acked' \subseteq Trans /\ config' \in Configs
  BY <1>1 DEF CommitInv
<1> QED BY <1>3, <1>5, <1>6, <1>7, <1>8 DEF CommitInv

\* The commit record of a transaction that commits.
LEMMA CommitRecIs ==
  ASSUME CommitInv, NEW t \in Trans, pc[t] \in Committing
  PROVE  CommitRec(t) \in recs /\ CommitRec(t).tran = t /\ CommitRec(t).type = "commit"
<1>1. \E n \in recs : n.tran = t /\ n.type = "commit"
  BY DEF CommitInv, TranInv, Logged
<1> QED BY <1>1 DEF CommitRec

\* A commit that finds nxio_lsa at its record or after it is reported.
LEMMA CommitReported ==
  ASSUME IInv, CommitInv, NEW t \in Trans, pc[t] \in Committing, nxio >= CommitRec(t).start
  PROVE  Logged(recs, t, "commit", nxio + 1)
<1>1. CommitRec(t) \in recs /\ CommitRec(t).tran = t /\ CommitRec(t).type = "commit"
  BY CommitRecIs
<1>2. nxio \in Slot /\ CommitRec(t).start \in Nat
  BY <1>1, NodeFields DEF IInv, LogInv, Tiles
<1>3. nxio \in Nat
  BY <1>2, BoundAssumption, SMT DEF Slot
<1>4. CommitRec(t).start < nxio + 1
  BY <1>2, <1>3, SMT
<1> QED BY <1>1, <1>4 DEF Logged

\* The loop of logpb_flush_pages.
LEMMA WaitCommit ==
  ASSUME IInv, IInv', WaitInv, NEW t \in Trans, CommitStep(t) \/ CommitTimeout(t)
  PROVE  WaitInv'
<1>1. Grows /\ recs' = recs /\ nxio' = nxio /\ cs' = cs
  BY OtherGrows
<1>2. UNCHANGED <<pb, data>> /\ lft' \in {lft, "enter"} /\ (lft' # lft => lft = "waiting")
  BY DEF CommitStep, CommitTest, CommitWait, CommitTimeout, WakeupLft, lftVars, pbVars
<1>3. pc[t] \in {"test", "lock", "wait"} /\ config # "direct" /\ pc[t] \in Committing
  BY DEF WaitInv, CommitInv, TranInv, CommitStep, CommitTest, CommitWait, CommitTimeout,
     Committing
<1>4. PICK place \in {"test", "lock", "wait", "acked"} :
        /\ pc' = [pc EXCEPT ![t] = place]
        /\ acked' = IF place = "acked" THEN acked \cup {t} ELSE acked
        /\ place = "acked" => config = "group" \/ nxio >= CommitRec(t).start
  BY DEF CommitStep, CommitTest, CommitWait, CommitTimeout, Ack, GroupCommit
<1>5. pc \in [Trans -> {"begin", "updated", "gone"} \cup Committing]
  BY DEF WaitInv, CommitInv
<1>6. place \in Committing /\ place # "in" /\ pc'[t] = place
  BY <1>4, <1>5 DEF Committing
<1>7. CommitInv'
  <2>1. acked \subseteq acked' /\ acked' \subseteq acked \cup {t} /\ (place = "acked" => t \in acked')
    BY <1>4
  <2>2. config' = config
    BY <1>1 DEF Grows
  <2>3. Logged(recs', t, "commit", priorLsa')
    BY <1>1, <1>3, LoggedStays DEF WaitInv, CommitInv, TranInv
  <2>4. place = "acked" /\ config = "normal" => Logged(recs', t, "commit", nxio' + 1)
    BY <1>1, <1>3, <1>4, CommitReported, LoggedStays DEF WaitInv
  <2>5. TranInv(t)'
    BY <1>3, <1>6, <2>1, <2>2, <2>3, <2>4 DEF TranInv
  <2>6. pc' = [pc EXCEPT ![t] = place]
    BY <1>4
  <2> QED BY <1>1, <1>3, <1>6, <2>1, <2>5, <2>6, CommitMoves DEF WaitInv
<1>8. PageFlushInv'
  BY <1>1, <1>2, PageKept DEF WaitInv
<1>9. OwnerInv'
  <2>1. \A u \in Trans : pc'[u] = "in" <=> pc[u] = "in"
    BY <1>3, <1>4, <1>5, <1>6
  <2>2. lft' = "in" <=> lft = "in"
    BY <1>2
  <2> QED BY <1>1, <1>2, <2>1, <2>2 DEF WaitInv, OwnerInv
<1> QED BY <1>7, <1>8, <1>9 DEF WaitInv

\* The steps that neither move a transaction nor change the owner of LOG_CS.
LEMMA WaitKept ==
  ASSUME IInv, IInv', WaitInv, Grows, UNCHANGED <<recs, pc, acked, cs>>, PageFlushInv',
         lft' = "in" <=> lft = "in", pb'.state = "in" <=> pb.state = "in"
  PROVE  WaitInv'
<1>1. CommitInv'
  BY CommitKept DEF WaitInv
<1>2. OwnerInv'
  BY DEF WaitInv, OwnerInv
<1> QED BY <1>1, <1>2 DEF WaitInv

\* The log flush thread before it enters LOG_CS, the owner of LOG_CS, and a crash.
LEMMA WaitLog ==
  ASSUME IInv, IInv', WaitInv,
         \/ LftCheck \/ LftTimeout \/ LftContinue \/ (LogCsStep /\ ~ExitLogCs)
         \/ Crash \/ UNCHANGED vars
  PROVE  WaitInv'
<1>1. Grows
  BY OtherGrows, OwnerGrows
<1>2. CASE LogCsStep /\ ~ExitLogCs
  <2>1. UNCHANGED <<recs, pc, acked, cs, pb, data, lft>>
    BY <1>2 DEF LogCsStep, ownerFrame, lftVars, pbVars, Drain, AppendSlot, CreatePage, EndAppend,
       FlushStart, WriteRest, SyncRest, WriteFirst, SyncFirst, FlushEnd
  <2>2. PageFlushInv'
    BY <1>1, <2>1, PageKept DEF WaitInv
  <2> QED BY <1>1, <2>1, <2>2, WaitKept
<1>3. CASE LftCheck \/ LftTimeout \/ LftContinue \/ Crash \/ UNCHANGED vars
  <2>1. /\ UNCHANGED <<recs, pc, acked, cs, pb, data>>
        /\ lft' = "in" <=> lft = "in"
    BY <1>3 DEF LftCheck, LftTimeout, LftContinue, Crash, vars, tranVars, csVars, lftVars, pbVars
  <2>2. PageFlushInv'
    BY <1>1, <2>1, PageKept DEF WaitInv
  <2> QED BY <1>1, <2>1, <2>2, WaitKept
<1> QED BY <1>2, <1>3

\* The log flush thread wakes the commits.
LEMMA WaitBroadcast ==
  ASSUME IInv, IInv', WaitInv, LftBroadcast
  PROVE  WaitInv'
<1>1. Grows /\ recs' = recs /\ nxio' = nxio /\ cs' = cs
  BY OtherGrows
<1>2. /\ UNCHANGED <<pb, data, acked>> /\ lft = "broadcast" /\ lft' = "top"
      /\ pc' = [t \in Trans |-> IF pc[t] = "wait" THEN "test" ELSE pc[t]]
  BY DEF LftBroadcast, pbVars
<1>3. PageFlushInv'
  BY <1>1, <1>2, PageKept DEF WaitInv
<1>4. OwnerInv'
  BY <1>1, <1>2 DEF WaitInv, OwnerInv
<1>5. CommitInv'
  <2>1. \A t \in Trans : pc'[t] = pc[t] \/ (pc[t] = "wait" /\ pc'[t] = "test")
    BY <1>2
  <2>2. pc \in [Trans -> {"begin", "updated", "gone"} \cup Committing] /\ "test" \in Committing
    BY DEF WaitInv, CommitInv, Committing
  <2>3. pc' \in [Trans -> {"begin", "updated", "gone"} \cup Committing]
    BY <1>2, <2>2
  <2>4. \A t \in Trans : pc[t] = "wait" => config # "direct" /\ Logged(recs, t, "commit", priorLsa)
    BY DEF WaitInv, CommitInv, TranInv, Committing
  <2>5. config' = config
    BY <1>1 DEF Grows
  <2>6. ASSUME NEW t \in Trans PROVE TranInv(t)'
    <3>1. CASE pc'[t] = pc[t]
      BY <1>1, <1>2, <3>1, TranKept DEF WaitInv, CommitInv
    <3>2. CASE pc[t] = "wait" /\ pc'[t] = "test"
      BY <1>1, <2>4, <2>5, <3>2, LoggedStays DEF TranInv, Committing
    <3> QED BY <2>1, <3>1, <3>2
  <2>7. CommitRecsInv'
    <3>1. \A n \in recs : n.tran \in Trans
      BY NodeFields DEF IInv, LogInv, Tiles
    <3> QED BY <1>1, <2>1, <2>2, <3>1 DEF WaitInv, CommitInv, CommitRecsInv
  <2>8. config = "direct" => \A t \in acked : Logged(recs', t, "commit", nxio')
    BY <1>1, LoggedStays DEF WaitInv, CommitInv
  <2> QED BY <1>2, <2>3, <2>5, <2>6, <2>7, <2>8 DEF WaitInv, CommitInv
<1> QED BY <1>3, <1>4, <1>5 DEF WaitInv

\* The update record of a transaction that has one.
LEMMA UpdateRecIs ==
  ASSUME NEW t, \E n \in recs : n.tran = t /\ n.type = "update"
  PROVE  UpdateRec(t) \in recs /\ UpdateRec(t).tran = t /\ UpdateRec(t).type = "update"
BY DEF UpdateRec

\* A data page is copied; the log is forced unless it is known to be on disk.
LEMMA WaitPageCopy ==
  ASSUME IInv, IInv', WaitInv, NEW t \in Trans, PageCopy(t)
  PROVE  WaitInv'
<1>1. Grows /\ recs' = recs /\ nxio' = nxio /\ cs' = cs
  BY OtherGrows
<1>2. /\ UNCHANGED <<pc, acked, lft, data>> /\ pb = NoPage
      /\ pb' = [state |-> IF NeedWal(UpdateRec(t).start) THEN "enter" ELSE "write", tran |-> t]
      /\ \E n \in recs : n.tran = t /\ n.type = "update"
  BY DEF PageCopy, tranVars, lftVars
<1>3. UpdateRec(t) \in recs /\ UpdateRec(t).tran = t /\ UpdateRec(t).type = "update"
  BY <1>2, UpdateRecIs
<1>4. /\ UpdateRec(t).start \in Nat /\ UpdateRec(t).start < priorLsa
      /\ ~NeedWal(UpdateRec(t).start) => UpdateRec(t).start < nxio
  <2>1. UpdateRec(t) \in Node /\ End(UpdateRec(t)) <= priorLsa /\ nxio \in Slot /\ priorLsa \in Slot
    BY <1>3 DEF IInv, LogInv, Tiles
  <2>2. UpdateRec(t).start \in Nat /\ UpdateRec(t).len \in Nat /\ UpdateRec(t).len > 0
    BY <2>1, NodeFields
  <2> QED BY <2>1, <2>2, BoundAssumption, SMT DEF Slot, NeedWal, End
<1>5. Logged(recs, t, "update", priorLsa) /\ (~NeedWal(UpdateRec(t).start) => Logged(recs, t, "update", nxio))
  BY <1>3, <1>4 DEF Logged
<1>6. pb'.tran = t /\ pb'.state = IF NeedWal(UpdateRec(t).start) THEN "enter" ELSE "write"
  BY <1>2
<1>7. pb' \in [state : {"idle", "enter", "in", "write"}, tran : Trans \cup {Null}]
  BY <1>2, SMT
<1>8. pb.state = "idle"
  BY <1>2 DEF NoPage
<1>9. PageFlushInv'
  <2>1. data' \subseteq Trans /\ \A u \in data' : Logged(recs', u, "update", nxio')
    BY <1>1, <1>2, LoggedStays DEF WaitInv, PageFlushInv
  <2>2. Logged(recs', t, "update", priorLsa')
    BY <1>1, <1>5, LoggedStays
  <2>3. pb'.state = "write" => Logged(recs', t, "update", nxio')
    BY <1>1, <1>5, <1>6, LoggedStays
  <2>4. pb'.state # "in"
    BY <1>6
  <2> QED BY <1>6, <1>7, <2>1, <2>2, <2>3, <2>4 DEF PageFlushInv
<1>10. pb'.state = "in" <=> pb.state = "in"
  BY <1>6, <1>8
<1> QED BY <1>1, <1>2, <1>9, <1>10, WaitKept

\* The copy is written.
LEMMA WaitPageWrite ==
  ASSUME IInv, IInv', WaitInv, PageWrite
  PROVE  WaitInv'
<1>1. Grows /\ recs' = recs /\ nxio' = nxio /\ cs' = cs
  BY OtherGrows
<1>2. /\ UNCHANGED <<pc, acked, lft>> /\ pb.state = "write" /\ pb' = NoPage
      /\ data' = data \cup {pb.tran}
  BY DEF PageWrite, tranVars, lftVars
<1>3. NoPage.state = "idle" /\ NoPage \in [state : {"idle", "enter", "in", "write"}, tran : Trans \cup {Null}]
  BY SMT DEF NoPage
<1>4. pb.tran \in Trans /\ Logged(recs, pb.tran, "update", nxio)
  BY <1>2 DEF WaitInv, PageFlushInv
<1>5. data' \subseteq Trans /\ \A u \in data' : Logged(recs', u, "update", nxio')
  BY <1>1, <1>2, <1>4, LoggedStays DEF WaitInv, PageFlushInv
<1>6. PageFlushInv'
  BY <1>2, <1>3, <1>5 DEF PageFlushInv
<1>7. pb'.state = "in" <=> pb.state = "in"
  BY <1>2, <1>3
<1> QED BY <1>1, <1>2, <1>6, <1>7, WaitKept

\* A transaction logs its update or its commit.
LEMMA WaitAppends ==
  ASSUME IInv, IInv', WaitInv, NEW t \in Trans, Update(t) \/ Commit(t)
  PROVE  WaitInv'
<1>1. Grows
  BY AppendGrows
<1>2. PICK k \in UpdateLens \cup {CommitLen}, type \in {"update", "commit"} :
        /\ NextRecord([tran |-> t, type |-> type, start |-> priorLsa, len |-> k])
        /\ type = "commit" <=> pc[t] = "updated"
        /\ type = "update" <=> pc[t] = "begin"
  BY DEF Update, Commit
<1> DEFINE n == [tran |-> t, type |-> type, start |-> priorLsa, len |-> k]
<1>3. n.tran = t /\ n.type = type /\ n.start = priorLsa /\ n.len = k
  OBVIOUS
<1>4. recs' = recs \cup {n} /\ priorLsa' = n.start + n.len
  BY <1>2 DEF NextRecord
<1>5. lft' = "in" <=> lft = "in"
  BY <1>2 DEF NextRecord, WakeupLft, lftVars
<1> HIDE DEF n
<1>6. n.start < priorLsa'
  <2>1. priorLsa \in Slot
    BY DEF IInv, LogInv, Tiles
  <2> QED BY <1>3, <1>4, <2>1, BoundAssumption, LengthAssumption, SMT DEF Slot
<1>7. UNCHANGED <<acked, cs, pb, data, config>>
  BY DEF Update, Commit, csVars, pbVars, runVars
<1>8. PageFlushInv'
  BY <1>1, <1>7, PageKept DEF WaitInv
<1>9. pc \in [Trans -> {"begin", "updated", "gone"} \cup Committing]
  BY DEF WaitInv, CommitInv
<1>10. PICK place \in {"updated", "test", "direct"} :
         /\ pc' = [pc EXCEPT ![t] = place]
         /\ place = "updated" <=> type = "update"
         /\ place = "test" => config # "direct"
  BY <1>2 DEF Update, Commit, LftAvailable
<1>11. pc'[t] = place /\ \A u \in Trans : u # t => pc'[u] = pc[u]
  BY <1>9, <1>10
<1>12. pc' \in [Trans -> {"begin", "updated", "gone"} \cup Committing]
  BY <1>9, <1>10 DEF Committing
<1>13. pc[t] \in {"begin", "updated"} /\ pc[t] # "in" /\ place # "in" /\ place # "acked"
  BY <1>2, <1>10
<1>14. OwnerInv'
  BY <1>5, <1>7, <1>11, <1>13 DEF WaitInv, OwnerInv
<1>15. CommitRecsInv'
  <2>1. \A m \in recs : m.tran \in Trans
    BY NodeFields DEF IInv, LogInv, Tiles
  <2>2. \A m \in recs : m.type = "commit" => m.tran # t
    BY <1>13 DEF WaitInv, CommitInv, CommitRecsInv, Committing
  <2>3. type = "commit" => place \in Committing
    BY <1>2, <1>10 DEF Committing
  <2>4. \A m \in recs' : m.type = "commit" => pc'[m.tran] \in Committing \cup {"gone"}
    BY <1>3, <1>4, <1>11, <2>1, <2>2, <2>3 DEF WaitInv, CommitInv, CommitRecsInv
  <2>5. \A l, m \in recs' : l.type = "commit" /\ m.type = "commit" /\ l.tran = m.tran => l = m
    BY <1>3, <1>4, <2>2 DEF WaitInv, CommitInv, CommitRecsInv
  <2> QED BY <2>4, <2>5 DEF CommitRecsInv
<1>16. ASSUME NEW u \in Trans PROVE TranInv(u)'
  <2>1. CASE u # t
    BY <1>1, <1>7, <1>11, <2>1, TranKept DEF WaitInv, CommitInv
  <2>2. CASE u = t
    <3>1. place \in Committing => type = "commit"
      BY <1>2, <1>10 DEF Committing
    <3>2. type = "commit" => Logged(recs', t, "commit", priorLsa')
      BY <1>3, <1>4, <1>6 DEF Logged
    <3> QED BY <1>7, <1>10, <1>11, <1>13, <2>2, <3>1, <3>2 DEF TranInv
  <2> QED BY <2>1, <2>2
<1>17. config = "direct" => \A u \in acked : Logged(recs', u, "commit", nxio')
  BY <1>1, LoggedStays DEF WaitInv, CommitInv
<1>18. CommitInv'
  BY <1>7, <1>12, <1>15, <1>16, <1>17 DEF WaitInv, CommitInv
<1> QED BY <1>8, <1>14, <1>18 DEF WaitInv

\* A thread enters LOG_CS: it will flush whatever is in the prior list.
LEMMA WaitEnter ==
  ASSUME IInv, IInv', WaitInv, (\E t \in Trans : DirectEnter(t)) \/ LftEnter \/ PageEnter
  PROVE  WaitInv'
<1>1. Grows
  BY OwnerGrows
<1>2. cs = Null /\ fpc' = "drain" /\ UNCHANGED <<recs, priorLsa, acked, data, config>>
  BY DEF DirectEnter, LftEnter, PageEnter, EnterLogCs, tranVars, pbVars, runVars
<1>3. Taken' = priorLsa'
  BY <1>2 DEF Taken
<1>4. lft # "in" /\ pb.state # "in" /\ \A t \in Trans : pc[t] # "in"
  BY <1>2, NullAssumption DEF WaitInv, OwnerInv, LFT, PB
<1>5. LFT # PB /\ LFT \notin Trans /\ PB \notin Trans
  BY NullAssumption DEF LFT, PB
<1>6. CASE LftEnter
  <2>1. UNCHANGED <<pc, pb>> /\ cs' = LFT /\ lft' = "in"
    BY <1>6 DEF LftEnter, EnterLogCs, tranVars, pbVars
  <2>2. PageFlushInv' /\ CommitInv'
    BY <1>1, <1>2, <2>1, PageKept, CommitKept DEF WaitInv
  <2>3. OwnerInv'
    BY <1>4, <1>5, <2>1 DEF OwnerInv
  <2> QED BY <2>2, <2>3 DEF WaitInv
<1>7. CASE PageEnter
  <2>1. UNCHANGED <<pc, lft>> /\ cs' = PB /\ pb.state = "enter" /\ pb' = [pb EXCEPT !.state = "in"]
    BY <1>7 DEF PageEnter, EnterLogCs, tranVars, lftVars
  <2>2. pb \in [state : {"idle", "enter", "in", "write"}, tran : Trans \cup {Null}]
    BY DEF WaitInv, PageFlushInv
  <2>3. /\ pb' \in [state : {"idle", "enter", "in", "write"}, tran : Trans \cup {Null}]
        /\ pb'.state = "in" /\ pb'.tran = pb.tran
    BY <2>1, <2>2, SMT
  <2>4. pb.tran \in Trans /\ Logged(recs', pb.tran, "update", priorLsa')
    BY <1>2, <2>1 DEF WaitInv, PageFlushInv
  <2>5. data \subseteq Trans /\ \A u \in data : Logged(recs', u, "update", nxio')
    BY <1>1, LoggedStays DEF WaitInv, PageFlushInv
  <2>6. PageFlushInv'
    BY <1>2, <1>3, <2>3, <2>4, <2>5 DEF PageFlushInv
  <2>7. CommitInv'
    BY <1>1, <1>2, <2>1, CommitKept DEF WaitInv
  <2>8. OwnerInv'
    BY <1>4, <1>5, <2>1, <2>3 DEF OwnerInv
  <2> QED BY <2>6, <2>7, <2>8 DEF WaitInv
<1>8. ASSUME NEW t \in Trans, DirectEnter(t) PROVE WaitInv'
  <2>1. UNCHANGED <<lft, pb>> /\ cs' = t /\ pc[t] = "direct" /\ pc' = [pc EXCEPT ![t] = "in"]
    BY <1>8 DEF DirectEnter, EnterLogCs, lftVars, pbVars
  <2>2. PageFlushInv'
    BY <1>1, <1>2, <2>1, PageKept DEF WaitInv
  <2>3. pc \in [Trans -> {"begin", "updated", "gone"} \cup Committing]
    BY DEF WaitInv, CommitInv
  <2>4. pc'[t] = "in" /\ \A u \in Trans : u # t => pc'[u] = pc[u]
    BY <2>1, <2>3
  <2>5. OwnerInv'
    BY <1>4, <1>5, <2>1, <2>4 DEF OwnerInv
  <2>6. pc[t] \in Committing /\ "in" \in Committing
    BY <2>1 DEF Committing
  <2>7. Logged(recs', t, "commit", priorLsa')
    BY <1>2, <2>6 DEF WaitInv, CommitInv, TranInv
  <2>8. TranInv(t)'
    BY <1>3, <2>4, <2>7 DEF TranInv
  <2>9. config = "direct" /\ t \in acked' => Logged(recs', t, "commit", nxio')
    BY <1>1, <1>2, LoggedStays DEF WaitInv, CommitInv
  <2>10. CommitInv'
    BY <1>1, <1>2, <2>1, <2>6, <2>8, <2>9, CommitMoves DEF WaitInv
  <2> QED BY <2>2, <2>5, <2>10 DEF WaitInv
<1> QED BY <1>6, <1>7, <1>8

\* The owner of LOG_CS leaves it: all it took from the prior list is on disk.
LEMMA WaitExit ==
  ASSUME IInv, IInv', WaitInv, ExitLogCs
  PROVE  WaitInv'
<1>1. Grows
  BY OwnerGrows DEF LogCsStep
<1>2. up /\ fpc = "exit" /\ cs' = Null /\ UNCHANGED <<recs, priorLsa, nxio, data, config>>
  BY DEF ExitLogCs, runVars
<1>3. Taken = nxio
  <2>1. Where = "exit"
    BY <1>2 DEF Where, FlushPcs
  <2>2. list = <<>> /\ done = 0 /\ nxio = append
    BY <1>2, <2>1, UpParts DEF PlaceInv
  <2>3. Base = PriorStart /\ Base = append
    BY <1>2, <2>2, PriorFacts, BaseFacts
  <2> QED BY <1>2, <2>2, <2>3 DEF Taken
<1>4. cs # Null
  BY <1>2, UpParts DEF PlaceInv
<1>5. /\ LFT # PB /\ LFT \notin Trans /\ PB \notin Trans /\ Null \notin Trans
      /\ Null # LFT /\ Null # PB
  BY NullAssumption DEF LFT, PB
<1>6. CASE cs = LFT
  <2>1. UNCHANGED <<pc, pb, acked>> /\ lft' = "broadcast"
    BY <1>5, <1>6 DEF ExitLogCs
  <2>2. PageFlushInv' /\ CommitInv'
    BY <1>1, <1>2, <2>1, PageKept, CommitKept DEF WaitInv
  <2>3. OwnerInv'
    BY <1>2, <1>5, <1>6, <2>1 DEF WaitInv, OwnerInv
  <2> QED BY <2>2, <2>3 DEF WaitInv
<1>7. CASE cs = PB
  <2>1. UNCHANGED <<pc, lft, acked>> /\ pb' = [pb EXCEPT !.state = "write"]
    BY <1>5, <1>7 DEF ExitLogCs
  <2>2. pb \in [state : {"idle", "enter", "in", "write"}, tran : Trans \cup {Null}] /\ pb.state = "in"
    BY <1>7 DEF WaitInv, OwnerInv, PageFlushInv
  <2>3. /\ pb' \in [state : {"idle", "enter", "in", "write"}, tran : Trans \cup {Null}]
        /\ pb'.state = "write" /\ pb'.tran = pb.tran
    BY <2>1, <2>2, SMT
  <2>4. /\ pb.tran \in Trans /\ Logged(recs', pb.tran, "update", priorLsa')
        /\ Logged(recs', pb.tran, "update", nxio')
    BY <1>2, <1>3, <2>2 DEF WaitInv, PageFlushInv
  <2>5. data \subseteq Trans /\ \A u \in data : Logged(recs', u, "update", nxio')
    BY <1>2 DEF WaitInv, PageFlushInv
  <2>6. PageFlushInv'
    BY <1>2, <2>3, <2>4, <2>5 DEF PageFlushInv
  <2>7. CommitInv'
    BY <1>1, <1>2, <2>1, CommitKept DEF WaitInv
  <2>8. OwnerInv'
    BY <1>2, <1>5, <1>7, <2>1, <2>3 DEF WaitInv, OwnerInv
  <2> QED BY <2>6, <2>7, <2>8 DEF WaitInv
<1>8. CASE cs # LFT /\ cs # PB
  <2>1. PICK t \in Trans : cs = t
    BY <1>4, <1>8 DEF WaitInv, OwnerInv
  <2>2. UNCHANGED <<lft, pb>> /\ pc' = [pc EXCEPT ![t] = "acked"] /\ acked' = acked \cup {t}
    BY <1>8, <2>1 DEF ExitLogCs, Ack
  <2>3. PageFlushInv'
    BY <1>1, <1>2, <2>2, PageKept DEF WaitInv
  <2>4. pc \in [Trans -> {"begin", "updated", "gone"} \cup Committing] /\ pc[t] = "in"
    BY <2>1 DEF WaitInv, OwnerInv, CommitInv
  <2>5. pc'[t] = "acked" /\ \A u \in Trans : u # t => pc'[u] = pc[u]
    BY <2>2, <2>4
  <2>6. OwnerInv'
    BY <1>2, <1>5, <1>8, <2>1, <2>2, <2>5 DEF WaitInv, OwnerInv
  <2>7. pc[t] \in Committing /\ "acked" \in Committing
    BY <2>4 DEF Committing
  <2>8. Logged(recs', t, "commit", nxio') /\ Logged(recs', t, "commit", priorLsa')
    BY <1>2, <1>3, <2>4, <2>7 DEF WaitInv, CommitInv, TranInv
  <2>9. Logged(recs', t, "commit", nxio' + 1)
    <3>1. recs' \subseteq Node /\ nxio \in Slot /\ nxio' = nxio
      BY <1>2 DEF IInv, LogInv, Tiles
    <3>2. nxio' \in Nat /\ nxio' + 1 \in Nat /\ nxio' <= nxio' + 1
      BY <3>1, BoundAssumption, SMT DEF Slot
    <3> QED BY <2>8, <3>1, <3>2, LoggedGrows
  <2>10. TranInv(t)'
    BY <2>2, <2>5, <2>8, <2>9 DEF TranInv
  <2>11. acked \subseteq acked' /\ acked' \subseteq acked \cup {t}
    BY <2>2
  <2>12. CommitInv'
    BY <1>1, <1>2, <2>2, <2>7, <2>8, <2>10, <2>11, CommitMoves DEF WaitInv
  <2> QED BY <2>3, <2>6, <2>12 DEF WaitInv
<1> QED BY <1>6, <1>7, <1>8

\* A restart: whoever waited is gone, what was flushed is still there.
LEMMA WaitRecover ==
  ASSUME IInv, IInv', WaitInv, Recover
  PROVE  WaitInv'
<1>1. nxio' >= nxio /\ recs' = {n \in recs : n.start < nxio'}
  BY LogRecover
<1>2. /\ cs' = Null /\ lft' = "top" /\ pb' = NoPage /\ UNCHANGED <<acked, data, config>>
      /\ pc' = [t \in Trans |-> IF pc[t] = "begin" THEN "begin" ELSE "gone"]
  BY DEF Recover
<1>3. \A t, type : Logged(recs, t, type, nxio) => Logged(recs', t, type, nxio')
  <2> SUFFICES ASSUME NEW n \in recs, n.start < nxio PROVE n.start < nxio'
    BY <1>1 DEF Logged
  <2>1. n.start \in Nat /\ nxio \in Slot /\ nxio' \in Slot
    BY NodeFields DEF IInv, LogInv, Tiles
  <2> QED BY <1>1, <2>1, BoundAssumption, SMT DEF Slot
<1>4. pb'.state = "idle" /\ pb' \in [state : {"idle", "enter", "in", "write"}, tran : Trans \cup {Null}]
  BY <1>2, SMT DEF NoPage
<1>5. PageFlushInv'
  <2>1. data' \subseteq Trans /\ \A u \in data' : Logged(recs', u, "update", nxio')
    BY <1>2, <1>3 DEF WaitInv, PageFlushInv
  <2> QED BY <1>4, <2>1 DEF PageFlushInv
<1>6. \A t \in Trans : pc'[t] \in {"begin", "gone"}
  BY <1>2
<1>7. OwnerInv'
  BY <1>2, <1>4, <1>6, NullAssumption DEF OwnerInv, LFT, PB
<1>8. CommitInv'
  <2>1. CommitRecsInv'
    <3>1. \A n \in recs : n.tran \in Trans
      BY NodeFields DEF IInv, LogInv, Tiles
    <3>2. \A n \in recs : n.type = "commit" => pc[n.tran] # "begin"
      BY DEF WaitInv, CommitInv, CommitRecsInv, Committing
    <3> QED BY <1>1, <1>2, <3>1, <3>2 DEF WaitInv, CommitInv, CommitRecsInv
  <2>2. \A t \in Trans : TranInv(t)'
    BY <1>6 DEF TranInv, Committing
  <2>3. config = "direct" => \A u \in acked : Logged(recs', u, "commit", nxio')
    BY <1>3 DEF WaitInv, CommitInv
  <2>4. pc' \in [Trans -> {"begin", "updated", "gone"} \cup Committing]
    BY <1>2
  <2> QED BY <1>2, <2>1, <2>2, <2>3, <2>4 DEF WaitInv, CommitInv
<1> QED BY <1>5, <1>7, <1>8 DEF WaitInv

\* Every step keeps it.
LEMMA WaitStep ==
  ASSUME IInv, IInv', WaitInv, [Next]_vars
  PROVE  WaitInv'
BY WaitAppends, WaitCommit, WaitEnter, WaitPageCopy, WaitPageWrite, WaitLog, WaitBroadcast,
   WaitExit, WaitRecover DEF Next

\* A restart that finds the log as in d meets a record of t of this type.
InChain(d, t, type) == \E n \in Chain(d) : n.tran = t /\ n.type = type

\* What is before nxio_lsa is read by every restart.
LEMMA LoggedSurvives ==
  ASSUME IInv, NEW t, NEW type, Logged(recs, t, type, nxio), NEW d \in Outcomes
  PROVE  InChain(d, t, type)
<1>1. PICK n \in recs : n.tran = t /\ n.type = type /\ n.start < nxio
  BY DEF Logged
<1>2. PICK e \in Slot : e >= nxio /\ Chain(d) = {m \in recs : m.start < e}
  BY OutcomeChain
<1>3. nxio \in Slot /\ n.start \in Nat
  BY NodeFields DEF IInv, LogInv, Tiles
<1>4. n.start < e
  BY <1>1, <1>2, <1>3, BoundAssumption, SMT DEF Slot
<1> QED BY <1>1, <1>2, <1>4 DEF InChain

\* What a data page on disk and a reported commit may rely on.
LEMMA WaitSafe ==
  ASSUME IInv, WaitInv
  PROVE  WalRule /\ DirectSurvives /\ AckedOrNext
<1>1. WalRule
  <2>1. \A t \in data : Logged(recs, t, "update", nxio)
    BY DEF WaitInv, PageFlushInv
  <2> SUFFICES ASSUME NEW t \in data, NEW d \in Outcomes
               PROVE  \E n \in Chain(d) : n.tran = t /\ n.type = "update"
    BY DEF WalRule
  <2>2. Logged(recs, t, "update", nxio)
    BY <2>1
  <2>3. InChain(d, t, "update")
    BY <2>2, LoggedSurvives
  <2> QED BY <2>3 DEF InChain
<1>2. ASSUME NEW t, Logged(recs, t, "commit", nxio) PROVE CommitSurvives(t)
  <2>1. \A d \in Outcomes : InChain(d, t, "commit")
    BY <1>2, LoggedSurvives
  <2> QED BY <2>1 DEF CommitSurvives, InChain
<1>3. DirectSurvives
  BY <1>2 DEF WaitInv, CommitInv, DirectSurvives, AckedSurvives, LftAvailable
<1>4. ASSUME NEW t \in Trans, ~GroupCommit, up, pc[t] = "acked"
      PROVE  CommitSurvives(t) \/ CommitRec(t).start = nxio
  <2>1. config \in {"normal", "direct"} /\ t \in acked
    BY <1>4, ConfigsAssumption DEF WaitInv, CommitInv, TranInv, GroupCommit
  <2>2. CASE config = "direct"
    BY <1>2, <2>1, <2>2 DEF WaitInv, CommitInv
  <2>3. CASE config = "normal"
    <3>1. PICK n \in recs : n.tran = t /\ n.type = "commit" /\ n.start < nxio + 1
      BY <1>4, <2>3 DEF WaitInv, CommitInv, TranInv, Logged
    <3>2. CommitRec(t) = n
      <4>1. pc[t] \in Committing
        BY <1>4 DEF Committing
      <4> QED BY <3>1, <4>1, CommitRecIs DEF WaitInv, CommitInv, CommitRecsInv
    <3>3. nxio \in Slot /\ n.start \in Nat
      BY NodeFields DEF IInv, LogInv, Tiles
    <3>4. n.start < nxio \/ n.start = nxio
      BY <3>1, <3>3, BoundAssumption, SMT DEF Slot
    <3>5. CASE n.start < nxio
      <4>1. Logged(recs, t, "commit", nxio)
        BY <3>1, <3>5 DEF Logged
      <4> QED BY <1>2, <4>1
    <3> QED BY <3>2, <3>4, <3>5
  <2> QED BY <2>1, <2>2, <2>3
<1>5. AckedOrNext
  BY <1>4 DEF AckedOrNext
<1> QED BY <1>1, <1>3, <1>5

-----------------------------------------------------------------------------
(* What holds of the append, and the type invariant *)

\* While the server is down nothing happens but that it goes down.
LEMMA DownStep ==
  ASSUME [Next]_vars, ~up'
  PROVE  Crash \/ UNCHANGED vars
<1>1. ASSUME NEW t \in Trans, \/ Update(t) \/ Commit(t) \/ CommitStep(t) \/ CommitTimeout(t)
                              \/ DirectEnter(t) \/ PageCopy(t)
      PROVE  up /\ UNCHANGED runVars
  BY <1>1 DEF Update, Commit, CommitStep, CommitTest, CommitWait, CommitTimeout, DirectEnter,
     PageCopy
<1>2. ASSUME \/ LftCheck \/ LftTimeout \/ LftContinue \/ LftEnter \/ LftBroadcast
             \/ PageEnter \/ PageWrite
      PROVE  up /\ UNCHANGED runVars
  BY <1>2 DEF LftCheck, LftTimeout, LftContinue, LftEnter, LftBroadcast, PageEnter, PageWrite
<1>3. ASSUME LogCsStep PROVE up /\ UNCHANGED runVars
  BY <1>3 DEF LogCsStep, Drain, AppendSlot, CreatePage, EndAppend, FlushStart, WriteRest,
     SyncRest, WriteFirst, SyncFirst, FlushEnd, ExitLogCs, ownerFrame
<1>4. ~Recover
  BY DEF Recover
<1>5. ASSUME up, UNCHANGED runVars PROVE FALSE
  <2>1. up' = up
    BY <1>5 DEF runVars
  <2> QED BY <1>5, <2>1, SMT
<1> QED BY <1>1, <1>2, <1>3, <1>4, <1>5 DEF Next

\* While the server is up a record goes where its address says.
LEMMA AppendUp == IInv /\ up => AppendIsConsistent
<1> SUFFICES ASSUME IInv, up PROVE AppendIsConsistent
  OBVIOUS
<1>1. ASSUME fpc = "append", done = 0 PROVE Head(list).start = append
  <2>1. Where = "append"
    BY <1>1 DEF Where, FlushPcs
  <2>2. list # <<>>
    BY <2>1, UpParts DEF PlaceInv
  <2> QED BY <1>1, <2>2, HeadFacts, BaseFacts
<1>2. ASSUME fpc = "end"
      PROVE  /\ Head(list).start + Head(list).len = append
             /\ delayed # Null => delayed \in dirty /\ delayed = PageOf(prev)
  <2>1. Where = "end"
    BY <1>2 DEF Where, FlushPcs
  <2>2. list # <<>> /\ done = list[1].len
    BY <2>1, UpParts DEF PlaceInv
  <2>3. Head(list) = list[1] /\ list[1].start = append - done
    BY <2>2, HeadFacts DEF Base
  <2>4. Head(list).start + Head(list).len = append
    BY <2>2, <2>3, UpFacts, SMT
  <2> QED BY <2>4, UpParts DEF PageInv
<1>3. ASSUME fpc = "flush" PROVE delayed # Null \/ pg # Null
  <2>1. (IF delayed # Null THEN delayed ELSE pg) = PageOf(Base)
    BY <1>3, MarkPage DEF FlushPcs
  <2>2. PageOf(Base) # Null
    BY BaseFacts, PageType
  <2> QED BY <2>1, <2>2
<1> QED BY <1>1, <1>2, <1>3 DEF AppendIsConsistent

\* Every step keeps to it.
LEMMA AppendStep ==
  ASSUME IInv', AppendIsConsistent, [Next]_vars
  PROVE  AppendIsConsistent'
<1>1. CASE up'
  <2>1. (IInv /\ up => AppendIsConsistent)'
    BY AppendUp, PTL
  <2> QED BY <1>1, <2>1
<1>2. CASE ~up'
  <2>1. UNCHANGED <<list, done, append, prev, pg, delayed, dirty, fpc>>
    BY <1>2, DownStep DEF Crash, vars, bufVars, csVars
  <2> QED BY <2>1 DEF AppendIsConsistent
<1> QED BY <1>1, <1>2

\* The types of the variables that the invariants above say nothing of.
RestType ==
  /\ prev \in Slot \cup {Null}
  /\ lft \in {"top", "waiting", "enter", "in", "broadcast"} /\ nreq \in BOOLEAN
  /\ up \in BOOLEAN /\ crashes \in 0 .. MaxCrash

\* The last record of a log that is not empty.
LEMMA LastRecord ==
  ASSUME NEW R, NEW top, Tiles(R, top), top # 0
  PROVE  \E l \in {n.start : n \in R} : \A m \in R : m.start <= l
<1>1. PICK n \in R : End(n) = top
  BY DEF Tiles
<1>2. ASSUME NEW m \in R PROVE m.start <= n.start
  <2>1. n \in Node /\ m \in Node /\ End(m) <= top /\ (n.start < m.start => End(n) <= m.start)
    BY DEF Tiles
  <2>2. m.start \in Nat /\ m.len \in Nat /\ m.len > 0 /\ n.start \in Nat /\ n.len \in Nat
    BY <2>1, NodeFields
  <2> QED BY <1>1, <2>1, <2>2, SMT DEF End
<1> QED BY <1>2

\* They keep to them.
LEMMA RestStep ==
  ASSUME IInv, IInv', RestType, [Next]_vars
  PROVE  RestType'
<1>1. prev' \in Slot \cup {Null}
  <2>1. CASE AppendSlot
    <3>1. append \in Slot /\ prev' = PrevLsa
      BY <2>1, UpFacts DEF AppendSlot
    <3> QED BY <3>1 DEF PrevLsa, RestType
  <2>2. CASE Recover
    <3>1. PICK e \in Slot :
            /\ priorLsa' = e
            /\ prev' = IF e = 0 THEN Null
                       ELSE CHOOSE l \in {n.start : n \in Chain(disk)} :
                              \A n \in Chain(disk) : n.start <= l
      BY <2>2 DEF Recover
    <3>2. recs' = Chain(disk) /\ Tiles(recs', e)
      BY <2>2, <3>1 DEF Recover, IInv, LogInv
    <3> DEFINE Starts == {n.start : n \in recs'}
    <3>3. \A n \in recs' : n.start \in Slot
      BY <3>2, NodeFields DEF Tiles
    <3>4. CASE e # 0
      <4>1. \E l \in Starts : \A n \in recs' : n.start <= l
        BY <3>2, <3>4, LastRecord
      <4>2. prev' = CHOOSE l \in Starts : \A n \in recs' : n.start <= l
        BY <3>1, <3>2, <3>4
      <4> HIDE DEF Starts
      <4>3. prev' \in Starts
        BY <4>1, <4>2
      <4> USE DEF Starts
      <4>4. PICK n \in recs' : prev' = n.start
        BY <4>3
      <4> QED BY <3>3, <4>4
    <3> QED BY <3>1, <3>4
  <2>3. CASE ~AppendSlot /\ ~Recover
    <3>1. prev' = prev
      <4>1. CASE LogCsStep
        BY <2>3, <4>1 DEF LogCsStep, Drain, CreatePage, EndAppend, FlushStart, WriteRest,
           SyncRest, WriteFirst, SyncFirst, FlushEnd, ExitLogCs, bufVars
      <4>2. CASE ~LogCsStep
        BY <2>3, <4>2 DEF Next, Update, Commit, CommitStep, CommitTest, CommitWait, CommitTimeout,
           DirectEnter, PageCopy, LftCheck, LftTimeout, LftContinue, LftEnter, LftBroadcast,
           PageEnter, PageWrite, Crash, bufVars, vars
      <4> QED BY <4>1, <4>2
    <3> QED BY <3>1 DEF RestType
  <2> QED BY <2>1, <2>2, <2>3
<1>2. lft' \in {"top", "waiting", "enter", "in", "broadcast"} /\ nreq' \in BOOLEAN
  <2>1. CASE LogCsStep
    BY <2>1 DEF RestType, LogCsStep, Drain, AppendSlot, CreatePage, EndAppend, FlushStart,
       WriteRest, SyncRest, WriteFirst, SyncFirst, FlushEnd, ExitLogCs, ownerFrame, lftVars
  <2>2. CASE ~LogCsStep /\ \E t \in Trans : Update(t) \/ Commit(t)
    BY <2>2 DEF RestType, Update, Commit, NextRecord, WakeupLft, lftVars
  <2>3. CASE \E t \in Trans : CommitStep(t) \/ CommitTimeout(t) \/ DirectEnter(t) \/ PageCopy(t)
    BY <2>3 DEF RestType, WakeupLft, CommitStep, CommitTest, CommitWait, CommitTimeout,
       DirectEnter, PageCopy, lftVars
  <2>4. CASE LftCheck \/ LftTimeout \/ LftContinue \/ LftEnter \/ LftBroadcast
    BY <2>4 DEF RestType, LftCheck, LftTimeout, LftContinue, LftEnter, LftBroadcast
  <2>5. CASE PageEnter \/ PageWrite \/ Crash \/ Recover \/ UNCHANGED vars
    BY <2>5 DEF RestType, PageEnter, PageWrite, Crash, Recover, lftVars, vars
  <2> QED BY <2>1, <2>2, <2>3, <2>4, <2>5 DEF Next
<1>3. up' \in BOOLEAN /\ crashes' \in 0 .. MaxCrash
  <2>1. CASE Crash
    <3>1. crashes \in 0 .. MaxCrash /\ crashes < MaxCrash /\ crashes' = crashes + 1
      BY <2>1 DEF Crash, RestType
    <3>2. crashes' \in 0 .. MaxCrash
      BY <3>1, BoundAssumption, SMT
    <3>3. up' \in BOOLEAN
      BY <2>1 DEF Crash
    <3> QED BY <3>2, <3>3, SMT
  <2>2. CASE Recover
    BY <2>2 DEF Recover, RestType
  <2>3. CASE ~Crash /\ ~Recover
    <3>1. CASE LogCsStep
      BY <3>1 DEF RestType, LogCsStep, Drain, AppendSlot, CreatePage, EndAppend, FlushStart,
         WriteRest, SyncRest, WriteFirst, SyncFirst, FlushEnd, ExitLogCs, ownerFrame, runVars
    <3>2. CASE ~LogCsStep
      BY <2>3, <3>2 DEF RestType, Next, Update, Commit, CommitStep, CommitTest, CommitWait,
         CommitTimeout, DirectEnter, PageCopy, LftCheck, LftTimeout, LftContinue, LftEnter,
         LftBroadcast, PageEnter, PageWrite, runVars, vars
    <3> QED BY <3>1, <3>2
  <2> QED BY <2>1, <2>2, <2>3
<1> QED BY <1>1, <1>2, <1>3 DEF RestType

\* While the server is up the types follow from the invariants.
LEMMA TypeUp == IInv /\ WaitInv /\ RestType /\ up => TypeOK
<1> SUFFICES ASSUME IInv, WaitInv, RestType, up PROVE TypeOK
  OBVIOUS
<1>1. /\ pc \in [Trans -> {"begin", "updated", "test", "lock", "wait", "direct", "in", "acked", "gone"}]
      /\ cs \in Trans \cup {LFT, PB, Null}
      /\ pb \in [state : {"idle", "enter", "in", "write"}, tran : Trans \cup {Null}]
      /\ data \subseteq Trans /\ acked \subseteq Trans /\ config \in Configs
  <2>1. {"begin", "updated", "gone"} \cup Committing
          = {"begin", "updated", "test", "lock", "wait", "direct", "in", "acked", "gone"}
    BY DEF Committing
  <2> QED BY <2>1 DEF WaitInv, OwnerInv, PageFlushInv, CommitInv
<1>2. recs \subseteq Node /\ prior \in Seq(Node) /\ list \in Seq(Node)
  <2>1. recs \subseteq Node /\ prior \in Seq(recs) /\ list \in Seq(recs)
    BY UpParts DEF LogInv, Tiles, QueueInv
  <2> QED BY <2>1, SeqWidens
<1>3. {priorLsa, append, nxio} \subseteq Lsa /\ done \in Lsa
  <2>1. priorLsa \in Lsa /\ append \in Lsa /\ nxio \in Lsa /\ done \in Lsa
    BY UpFacts, BoundAssumption, SMT DEF Slot, Lsa
  <2> QED BY <2>1
<1>4. pg \in Page \cup {Null} /\ delayed \in Page \cup {Null}
  <2>1. append \in Slot /\ Base \in Slot /\ (done = 0 => delayed = Null) /\ (done > 0 => prev = Base)
    BY UpFacts, BaseFacts
  <2>2. done = 0 \/ done > 0
    BY UpFacts, SMT
  <2>3. /\ pg = IF Where = "create" THEN Null ELSE PageOf(append)
        /\ delayed # Null => delayed = PageOf(prev)
    BY UpParts DEF PageInv
  <2> QED BY <2>1, <2>2, <2>3, PageType
<1>5. /\ toflush \in Seq(Page) /\ Len(toflush) <= MaxToflush /\ dirty \subseteq Page
      /\ pending \subseteq Page
  <2>1. toflush \in Seq(Page) /\ Len(toflush) <= MaxToflush /\ dirty \subseteq Range(toflush)
    BY UpParts DEF PageInv
  <2>2. \A i \in 1 .. Len(toflush) : toflush[i] \in Page
    BY <2>1, SMT
  <2>3. dirty \subseteq Page
    <3> SUFFICES ASSUME NEW p \in Range(toflush) PROVE p \in Page
      BY <2>1
    <3>1. \E i \in 1 .. Len(toflush) : toflush[i] = p
      BY <2>1, SeqFacts
    <3> QED BY <2>2, <3>1
  <2>4. PageOf(nxio) \in Page
    BY UpFacts, PageType
  <2>5. pending = CASE fpc = "sync" -> dirty \ {PageOf(nxio)}
                    [] fpc = "syncFirst" -> {PageOf(nxio)}
                    [] OTHER -> {}
    BY UpParts DEF DiskInv
  <2> QED BY <2>1, <2>3, <2>4, <2>5
<1>6. /\ fpc \in {"free", "drain", "append", "create", "end", "flush", "write", "sync",
                  "writeFirst", "syncFirst", "clean", "exit"}
      /\ ret \in {"exit", "create", "append", "end"}
  BY UpParts DEF PlaceInv, Where, FlushPcs
<1>7. mem \in [Slot -> Cell] /\ save \in Cell /\ disk \in [Slot -> Cell]
  BY UpParts DEF LogInv
<1> QED BY <1>1, <1>2, <1>3, <1>4, <1>5, <1>6, <1>7 DEF TypeOK, RestType

\* They survive a crash.
LEMMA TypeStep ==
  ASSUME IInv', WaitInv', RestType', TypeOK, [Next]_vars
  PROVE  TypeOK'
<1>1. CASE up'
  <2>1. (IInv /\ WaitInv /\ RestType /\ up => TypeOK)'
    BY TypeUp, PTL
  <2> QED BY <1>1, <2>1
<1>2. CASE ~up'
  <2>1. /\ UNCHANGED <<pc, recs, priorLsa, prior, acked, list, done, append, prev>>
        /\ UNCHANGED <<pg, delayed, toflush, dirty, mem, save, nxio>>
        /\ UNCHANGED <<cs, fpc, ret, lft, nreq, pb, data, config>>
    <3>1. CASE Crash
      BY <3>1 DEF Crash, tranVars, bufVars, csVars, lftVars, pbVars
    <3>2. CASE UNCHANGED vars
      BY <3>2 DEF vars
    <3> QED BY <1>2, <3>1, <3>2, DownStep
  <2>2. disk' \in [Slot -> Cell] /\ pending' \subseteq Page
    <3>1. pending' = {}
      BY <1>2 DEF IInv, DownInv
    <3> QED BY <3>1 DEF IInv, LogInv
  <2>3. up' \in BOOLEAN /\ crashes' \in 0 .. MaxCrash
    BY DEF RestType
  <2> QED BY <2>1, <2>2, <2>3, SMTT(30) DEF TypeOK
<1> QED BY <1>1, <1>2

-----------------------------------------------------------------------------
(* The theorems *)

\* All of it, in one invariant.
LogFlushInv == IInv /\ WaitInv /\ RestType /\ TypeOK /\ AppendIsConsistent

\* Initially.
LEMMA InvInit == Init => LogFlushInv
<1> SUFFICES ASSUME Init PROVE LogFlushInv
  OBVIOUS
<1>1. IInv /\ WaitInv
  BY LogInit, WaitInit
<1>2. RestType
  <2>1. crashes = 0 /\ prev = Null /\ lft = "top" /\ nreq = FALSE /\ up = TRUE
    BY DEF Init
  <2>2. 0 \in 0 .. MaxCrash
    BY BoundAssumption, SMT
  <2> QED BY <2>1, <2>2 DEF RestType
<1>3. up
  BY DEF Init
<1> QED BY <1>1, <1>2, <1>3, TypeUp, AppendUp DEF LogFlushInv

\* Every step keeps it.
LEMMA InvStep == LogFlushInv /\ [Next]_vars => LogFlushInv'
<1> SUFFICES ASSUME LogFlushInv, [Next]_vars PROVE LogFlushInv'
  OBVIOUS
<1>1. IInv /\ WaitInv /\ RestType /\ TypeOK /\ AppendIsConsistent
  BY DEF LogFlushInv
<1>2. IInv'
  BY <1>1, LogStep
<1>3. WaitInv' /\ RestType'
  BY <1>1, <1>2, WaitStep, RestStep
<1>4. TypeOK' /\ AppendIsConsistent'
  BY <1>1, <1>2, <1>3, TypeStep, AppendStep
<1> QED BY <1>2, <1>3, <1>4 DEF LogFlushInv

\* So it always holds.
THEOREM LogFlushInvariant == Spec => []LogFlushInv
BY InvInit, InvStep, PTL DEF Spec

\* Every variable keeps to its type, in memory and on disk, also while the server
\* is down.
THEOREM TypeCorrect == Spec => []TypeOK
<1>1. LogFlushInv => TypeOK
  BY DEF LogFlushInv
<1> QED BY <1>1, LogFlushInvariant, PTL

\* What the code asserts or treats as fatal while it appends.
THEOREM AppendsAreConsistent == Spec => []AppendIsConsistent
<1>1. LogFlushInv => AppendIsConsistent
  BY DEF LogFlushInv
<1> QED BY <1>1, LogFlushInvariant, PTL

\* Wherever a crash hits, also between the two syncs of a flush that stopped in the
\* middle of a record, log_recovery_analysis reads a prefix of the log.
THEOREM RestartReadsPrefix == Spec => []RecoveryReadsPrefix
<1>1. LogFlushInv => RecoveryReadsPrefix
  BY LogSafe DEF LogFlushInv
<1> QED BY <1>1, LogFlushInvariant, PTL

\* No crash loses a record before nxio_lsa.
THEOREM NothingFlushedIsLost == Spec => []FlushedSurvives
<1>1. LogFlushInv => FlushedSurvives
  BY LogSafe DEF LogFlushInv
<1> QED BY <1>1, LogFlushInvariant, PTL

\* Write-ahead: the data page that pgbuf_flush_page_with_wal writes never has an
\* update whose log record a crash can lose.
THEOREM LogIsAhead == Spec => []WalRule
<1>1. LogFlushInv => WalRule
  BY WaitSafe DEF LogFlushInv
<1> QED BY <1>1, LogFlushInvariant, PTL

\* A commit that flushed the log itself survives.
THEOREM DirectCommitsSurvive == Spec => []DirectSurvives
<1>1. LogFlushInv => DirectSurvives
  BY WaitSafe DEF LogFlushInv
<1> QED BY <1>1, LogFlushInvariant, PTL

\* A commit that logpb_flush_pages reported survives unless its record is the first
\* that is not flushed.
THEOREM ReportedCommits == Spec => []AckedOrNext
<1>1. LogFlushInv => AckedOrNext
  BY WaitSafe DEF LogFlushInv
<1> QED BY <1>1, LogFlushInvariant, PTL

\* nxio_lsa moves forward in every step but a restart.
LEMMA NxioStep == LogFlushInv /\ [Next]_vars => [up => nxio' >= nxio]_vars
<1> SUFFICES ASSUME LogFlushInv, [Next]_vars, up PROVE nxio' >= nxio
  OBVIOUS
<1>1. IInv
  BY DEF LogFlushInv
<1>2. ~Recover
  BY DEF Recover
<1>3. Grows
  BY <1>1, <1>2, AppendGrows, OwnerGrows, OtherGrows DEF Next
<1> QED BY <1>3 DEF Grows

\* nxio_lsa never moves back while the server is up (logpb_set_nxio_lsa at the end
\* of logpb_flush_all_append_pages), so a stale copy of it errs on the safe side.
THEOREM NxioNeverMovesBack == Spec => NxioAdvances
BY LogFlushInvariant, NxioStep, PTL DEF Spec, NxioAdvances

-----------------------------------------------------------------------------
(* The log implements DurableLog *)

\* A restart would read the records up to address e.
StableUpTo(e) == Chain(disk) = {n \in recs : n.start < e}

\* What is synced reaches to nxio_lsa, or further at the end of a flush.
LEMMA StableIs ==
  IInv => /\ \E e \in Slot : e >= nxio /\ StableUpTo(e)
          /\ up /\ fpc # "clean" => StableUpTo(nxio)
<1> SUFFICES ASSUME IInv
             PROVE  /\ \E e \in Slot : e >= nxio /\ StableUpTo(e)
                    /\ up /\ fpc # "clean" => StableUpTo(nxio)
  OBVIOUS
<1>1. Tiles(recs, priorLsa) /\ disk \in [Slot -> Cell] /\ Placed(disk)
  BY DEF IInv, LogInv
<1>2. disk \in Outcomes
  <2>1. Survives({}) = [l \in Slot |-> disk[l]]
    BY DEF Survives
  <2>2. Survives({}) = disk
    BY <1>1, <2>1, SMT
  <2>3. {} \in SUBSET pending
    OBVIOUS
  <2> QED BY <2>2, <2>3 DEF Outcomes
<1>3. \E e \in Slot : e >= nxio /\ StableUpTo(e)
  BY <1>2, OutcomeChain DEF StableUpTo
<1>4. ASSUME up, fpc # "clean" PROVE StableUpTo(nxio)
  <2>1. Reads(disk, nxio, recs, priorLsa)
    BY <1>4, UpParts DEF DiskInv
  <2> QED BY <1>1, <2>1, ChainReads DEF StableUpTo
<1> QED BY <1>3, <1>4

\* The records up to an address are a prefix of the log, and of those up to a
\* later one.
LEMMA PrefixIs ==
  ASSUME NEW R, R \subseteq Node, NEW a \in Slot, NEW e \in Slot, e >= a
  PROVE  /\ {n \in R : n.start < a} \subseteq {n \in R : n.start < e}
         /\ Durable!IsPrefix({n \in R : n.start < e}, R)
<1>1. \A n \in R : n.start \in Nat
  BY NodeFields
<1>2. a \in Nat /\ e \in Nat
  BY BoundAssumption, SMT DEF Slot
<1>3. \A n \in R : n.start < a => n.start < e
  BY <1>1, <1>2, SMT
<1>4. \A m, n \in R : m.start < e /\ ~(n.start < e) => m.start < n.start
  BY <1>1, <1>2, SMT
<1>5. {n \in R : n.start < a} \subseteq {n \in R : n.start < e}
  BY <1>3
<1>6. Durable!IsPrefix({n \in R : n.start < e}, R)
  BY <1>4 DEF Durable!IsPrefix
<1> QED BY <1>5, <1>6

\* A record is added at the end of the log.
LEMMA DurableAppends ==
  ASSUME IInv, NEW t \in Trans, Update(t) \/ Commit(t)
  PROVE  Durable!Add
<1>1. PICK k \in UpdateLens \cup {CommitLen}, type \in {"update", "commit"} :
        NextRecord([tran |-> t, type |-> type, start |-> priorLsa, len |-> k])
  BY DEF Update, Commit
<1> DEFINE n == [tran |-> t, type |-> type, start |-> priorLsa, len |-> k]
<1>2. n.start = priorLsa /\ n.len = k /\ recs' = recs \cup {n}
  BY <1>1 DEF NextRecord
<1> HIDE DEF n
<1>3. \A m \in recs : m.start + m.len <= n.start
  BY <1>2 DEF IInv, LogInv, Tiles, End
<1>4. n \notin recs
  <2>1. priorLsa \in Slot
    BY DEF IInv, LogInv, Tiles
  <2>2. ~(n.start + n.len <= n.start)
    BY <1>2, <2>1, LengthAssumption, BoundAssumption, SMT DEF Slot
  <2> QED BY <1>3, <2>2
<1>5. up /\ up' = up /\ disk' = disk
  BY DEF Update, Commit, diskVars, runVars
<1>6. Chain(disk)' = Chain(disk)
  BY <1>5
<1> QED BY <1>2, <1>3, <1>4, <1>5, <1>6 DEF Durable!Add

\* The first sync of a flush changes nothing of what a restart reads, the second
\* makes the records before the mark stable.
LEMMA DurableSync ==
  ASSUME IInv, IInv', SyncRest \/ SyncFirst
  PROVE  Durable!Harden
<1>1. up /\ fpc # "clean" /\ UNCHANGED <<recs, nxio, up>>
  BY DEF SyncRest, SyncFirst, ownerFrame, runVars
<1>2. (IInv => \E e \in Slot : e >= nxio /\ StableUpTo(e))'
  BY StableIs, PTL
<1>3. PICK e \in Slot : e >= nxio' /\ Chain(disk)' = {n \in recs' : n.start < e}
  BY <1>2 DEF StableUpTo
<1>4. Chain(disk) = {n \in recs : n.start < nxio}
  BY <1>1, StableIs DEF StableUpTo
<1>5. recs \subseteq Node /\ nxio \in Slot /\ e >= nxio
  BY <1>1, <1>3 DEF IInv, LogInv, Tiles
<1>6. Chain(disk) \subseteq Chain(disk)' /\ Durable!IsPrefix(Chain(disk)', recs)
  BY <1>1, <1>3, <1>4, <1>5, PrefixIs
<1> QED BY <1>1, <1>6 DEF Durable!Harden

\* A crash loses nothing that was stable.
LEMMA DurableCrash ==
  ASSUME IInv, IInv', Crash
  PROVE  Durable!Crash
<1>1. up /\ up' = FALSE /\ UNCHANGED <<recs, nxio>>
  BY DEF Crash, tranVars
<1>2. (IInv => \E e \in Slot : e >= nxio /\ StableUpTo(e))'
  BY StableIs, PTL
<1>3. PICK e \in Slot : e >= nxio' /\ Chain(disk)' = {n \in recs' : n.start < e}
  BY <1>2 DEF StableUpTo
<1>4. recs \subseteq Node /\ nxio \in Slot /\ e >= nxio
  BY <1>1, <1>3 DEF IInv, LogInv, Tiles
<1>5. Durable!IsPrefix(Chain(disk)', recs)
  <2>1. /\ {n \in recs : n.start < nxio} \subseteq {n \in recs : n.start < e}
        /\ Durable!IsPrefix({n \in recs : n.start < e}, recs)
    BY <1>4, PrefixIs
  <2> QED BY <1>1, <1>3, <2>1
<1>6. Chain(disk) \subseteq Chain(disk)'
  <2>1. CASE fpc # "clean"
    <3>1. Chain(disk) = {n \in recs : n.start < nxio}
      BY <1>1, <2>1, StableIs DEF StableUpTo
    <3> QED BY <1>1, <1>3, <1>4, <3>1, PrefixIs
  <2>2. CASE fpc = "clean"
    <3>1. pending = {} /\ disk \in [Slot -> Cell]
      BY <1>1, <2>2, UpParts, NothingPending DEF LogInv
    <3>2. PICK S \in SUBSET pending : disk' = Survives(S)
      BY DEF Crash
    <3>3. disk' = [l \in Slot |-> disk[l]]
      BY <3>1, <3>2 DEF Survives
    <3>4. disk' = disk
      BY <3>1, <3>3, SMT
    <3> QED BY <3>4
  <2> QED BY <2>1, <2>2
<1> QED BY <1>1, <1>5, <1>6 DEF Durable!Crash

\* Every step of the log is a step of DurableLog, or none.
LEMMA DurableStep == LogFlushInv /\ LogFlushInv' /\ [Next]_vars => [Durable!Next]_Durable!vars
<1> SUFFICES ASSUME LogFlushInv, LogFlushInv', [Next]_vars
             PROVE  Durable!Next \/ UNCHANGED Durable!vars
  OBVIOUS
<1>1. IInv /\ IInv'
  BY DEF LogFlushInv
<1>2. ASSUME UNCHANGED <<recs, disk, up>> PROVE UNCHANGED Durable!vars
  BY <1>2 DEF Durable!vars
<1>3. ASSUME \/ \E t \in Trans : CommitStep(t) \/ CommitTimeout(t) \/ PageCopy(t)
             \/ LftCheck \/ LftTimeout \/ LftContinue \/ LftBroadcast \/ PageWrite
             \/ UNCHANGED vars
      PROVE  UNCHANGED <<recs, disk, up>>
  BY <1>3, LogUnused DEF logState
<1>4. ASSUME (\E t \in Trans : DirectEnter(t)) \/ LftEnter \/ PageEnter
      PROVE  UNCHANGED <<recs, disk, up>>
  BY <1>4 DEF DirectEnter, LftEnter, PageEnter, tranVars, diskVars, runVars
<1>5. ASSUME LogCsStep, ~SyncRest, ~SyncFirst
      PROVE  UNCHANGED <<recs, disk, up>>
  BY <1>5 DEF LogCsStep, Drain, AppendSlot, CreatePage, EndAppend, FlushStart, WriteRest,
     WriteFirst, FlushEnd, ExitLogCs, ownerFrame, diskVars, runVars
<1>6. ASSUME Recover PROVE Durable!Recover
  BY <1>6 DEF Recover, diskVars, Durable!Recover
<1>7. ASSUME NEW t \in Trans, Update(t) \/ Commit(t) PROVE Durable!Next
  BY <1>1, <1>7, DurableAppends DEF Durable!Next
<1>8. ASSUME SyncRest \/ SyncFirst \/ Crash \/ Recover PROVE Durable!Next
  BY <1>1, <1>6, <1>8, DurableSync, DurableCrash DEF Durable!Next
<1> QED BY <1>2, <1>3, <1>4, <1>5, <1>7, <1>8 DEF Next

\* Initially nothing is stable.
LEMMA DurableInit == Init => Durable!Init
<1> SUFFICES ASSUME Init PROVE Durable!Init
  OBVIOUS
<1>1. recs = {} /\ up = TRUE
  BY DEF Init
<1>2. \E e \in Slot : StableUpTo(e)
  BY LogInit, StableIs
<1>3. Chain(disk) = {}
  BY <1>1, <1>2 DEF StableUpTo
<1> QED BY <1>1, <1>3 DEF Durable!Init

\* The log in its pages, flushed in two rounds and read back after a crash,
\* implements the log of which a growing prefix is stable.
THEOREM LogIsDurable == Spec => ImplementsDurableLog
BY LogFlushInvariant, DurableInit, DurableStep, PTL DEF Spec, ImplementsDurableLog, Durable!Spec
=============================================================================
