----------------------------- MODULE BookProofs -----------------------------
(***************************************************************************)
(* Proof that the books of the market stream are the exchange's.  The      *)
(* exchange's book of an asset has a history, change by change; the frames *)
(* that wait in the ingress queue tell the part of it that the books do    *)
(* not know yet (Chain), a loaded book is a moment of it (View), and where *)
(* nothing is subscribed nothing is known (ControlInv, QuietInv,           *)
(* BlankInv).                                                              *)
(***************************************************************************)
EXTENDS FeedsProofs

-----------------------------------------------------------------------------
(* The books of the exchange, change by change: h[k] is what the k-th       *)
(* change did, when, and the book it left.                                  *)

Changes == [at : 1..MaxTime, truth : SUBSET Prices, price : Prices, rests : BOOLEAN]
Histories == [Nat -> Changes]
Stepped(levels, c) == IF c.rests THEN levels \cup {c.price} ELSE levels \ {c.price}

\* At s no transaction is half done: what its changes say of a price is so.
Whole(h, s) ==
    \A j \in 1..s : h[j].at = h[s].at => (h[j].rests <=> h[j].price \in h[s].truth)

History(v, h) ==
    /\ v.nth \in Nat /\ h[v.nth].truth = v.levels /\ h[v.nth].at = v.clock /\ Whole(h, v.nth)
    /\ \A k \in 1..v.nth : h[k].truth = Stepped(h[k - 1].truth, h[k])
    /\ \A j, k \in 0..v.nth : j <= k => h[j].at <= h[k].at

\* A delta says what its change did, and the exchange owes the last ones.
IsChange(h, k, d) ==
    /\ d.nth = k /\ d.at = h[k].at /\ d.price = h[k].price
    /\ d.rests = h[k].rests /\ d.truth = h[k].truth
SentUpTo(v) == v.nth - Len(v.owed)
Owes(v, h) ==
    /\ SentUpTo(v) \in Nat
    /\ \A i \in 1..Len(v.owed) : IsChange(h, SentUpTo(v) + i, v.owed[i])

\* The market frames of an asset that change its book.
IsDelta(q, i, a) ==
    q[i].kind = "market" /\ q[i].asset = a /\ q[i].message.event_type = "price_change"
IsSnapshot(q, i, a) ==
    q[i].kind = "market" /\ q[i].asset = a /\ q[i].message.event_type = "book"

\* Behind the i-th frame wait the deltas after the n-th that have been sent.
Follows(q, a, i, n, last1) ==
    \A k \in (n + 1)..last1 :
        \E j \in (i + 1)..Len(q) : IsDelta(q, j, a) /\ q[j].message.nth = k

DeltaFits(d, v, h) == d.nth \in 1..SentUpTo(v) /\ IsChange(h, d.nth, d)
SnapshotFits(m, v, h) ==
    /\ m.nth \in 0..v.nth /\ m.at = h[m.nth].at
    /\ m.levels = h[m.nth].truth /\ m.truth = h[m.nth].truth /\ Whole(h, m.nth)

\* The frames of an asset tell its history in order; a snapshot may overtake
\* deltas, and none that is not in it is missing behind it.
Chain(q, v, h, a) ==
    /\ \A i \in 1..Len(q) : IsDelta(q, i, a) => DeltaFits(q[i].message, v, h)
    /\ \A i \in 1..Len(q) : IsSnapshot(q, i, a) =>
          /\ SnapshotFits(q[i].message, v, h)
          /\ Follows(q, a, i, q[i].message.nth, SentUpTo(v))
    /\ \A i, j \in 1..Len(q) : i < j /\ IsDelta(q, i, a) /\ IsDelta(q, j, a)
                                 => q[i].message.nth < q[j].message.nth
    /\ \A i, j \in 1..Len(q) : i < j /\ (IsDelta(q, i, a) \/ IsSnapshot(q, i, a)) /\ IsSnapshot(q, j, a)
                                 => q[i].message.nth <= q[j].message.nth

\* A loaded book is the exchange's as of the change last read about, the
\* changes since are on their way, and a change that comes late is in it.
View(b, hd, q, v, h, a) ==
    IF b.snapshot_loaded
    THEN /\ hd.nth \in 0..v.nth /\ hd.truth = h[hd.nth].truth
         /\ b.levels = h[hd.nth].truth /\ b.last = h[hd.nth].at
         /\ Follows(q, a, 0, hd.nth, SentUpTo(v))
         /\ \A i \in 1..Len(q) : IsSnapshot(q, i, a) => hd.nth <= q[i].message.nth
         /\ \/ SentUpTo(v) < hd.nth
            \/ \E i \in 1..Len(q) : IsDelta(q, i, a) /\ q[i].message.nth <= hd.nth
            => Whole(h, hd.nth)
         /\ b.reason \in {"READY", "BEST_PRICE_PENDING_DEPTH"}
         /\ b.ready <=> b.reason = "READY"
    ELSE ~b.ready /\ b.last = 0 /\ hd = Stream!Unheard

\* Histories that agree on what has happened.
LEMMA SameHistory ==
  ASSUME NEW q, NEW a, NEW b, NEW hd, NEW v, NEW w, NEW h, NEW g,
         v.nth \in Nat, w.nth \in Nat, v.nth <= w.nth,
         SentUpTo(v) \in Nat, SentUpTo(v) <= v.nth, SentUpTo(w) = SentUpTo(v),
         \A k \in 0..v.nth : g[k] = h[k]
  PROVE  /\ Chain(q, v, h, a) => Chain(q, w, g, a)
         /\ View(b, hd, q, v, h, a) => View(b, hd, q, w, g, a)
<1>1. ASSUME NEW s \in 0..v.nth PROVE Whole(h, s) <=> Whole(g, s)
  <2>1. \A j \in 1..s : g[j] = h[j]
    OBVIOUS
  <2>2. g[s] = h[s]
    OBVIOUS
  <2> QED
    BY <2>1, <2>2 DEF Whole
<1>2. ASSUME NEW d, DeltaFits(d, v, h) PROVE DeltaFits(d, w, g)
  <2>1. d.nth \in 0..v.nth
    BY <1>2 DEF DeltaFits
  <2> QED
    BY <1>2, <2>1 DEF DeltaFits, IsChange
<1>3. ASSUME NEW m, SnapshotFits(m, v, h) PROVE SnapshotFits(m, w, g)
  <2>1. m.nth \in 0..v.nth /\ m.nth \in 0..w.nth
    BY <1>3 DEF SnapshotFits
  <2> QED
    BY <1>1, <1>3, <2>1 DEF SnapshotFits
<1>4. Chain(q, v, h, a) => Chain(q, w, g, a)
  BY <1>2, <1>3 DEF Chain
<1>5. View(b, hd, q, v, h, a) => View(b, hd, q, w, g, a)
  <2>1. CASE ~b.snapshot_loaded
    BY <2>1 DEF View
  <2>2. ASSUME b.snapshot_loaded, View(b, hd, q, v, h, a) PROVE View(b, hd, q, w, g, a)
    <3>1. hd.nth \in 0..v.nth /\ hd.nth \in 0..w.nth /\ g[hd.nth] = h[hd.nth]
      BY <2>2 DEF View
    <3>2. Whole(h, hd.nth) <=> Whole(g, hd.nth)
      BY <1>1, <3>1
    <3> QED
      BY <2>2, <3>1, <3>2 DEF View
  <2> QED
    BY <2>1, <2>2
<1> QED
  BY <1>4, <1>5

\* A transaction adds its changes to the history.
LEMMA TradeHistory ==
  ASSUME exchange \in [Assets -> Venues], NEW a \in Assets, Stream!Trade(a), NEW h \in Histories,
         History(exchange[a], h), Owes(exchange[a], h)
  PROVE  /\ \E g \in Histories : /\ History(exchange'[a], g) /\ Owes(exchange'[a], g)
                                 /\ \A k \in 0..exchange[a].nth : g[k] = h[k]
         /\ exchange'[a].nth \in Nat /\ exchange[a].nth <= exchange'[a].nth
         /\ SentUpTo(exchange'[a]) = SentUpTo(exchange[a])
<1> DEFINE v == exchange[a]
<1> v \in Venues /\ v.clock < MaxTime /\ History(v, h) /\ Owes(v, h)
  BY DEF Stream!Trade
<1>a. PICK levels \in (SUBSET Prices) \ {v.levels} :
        \E order \in Stream!SetToSeqs(Stream!Difference(v.levels, levels)) :
        LET done(n) == {order[m] : m \in 1..n}
            after(n) == (levels \cap done(n)) \cup (v.levels \ done(n))
            deltas == [n \in 1..Len(order) |->
                [at |-> v.clock + 1, nth |-> v.nth + n, price |-> order[n],
                 rests |-> order[n] \in levels, best |-> Stream!TopOf(levels), truth |-> after(n)]]
        IN exchange' = [exchange EXCEPT ![a] = [v EXCEPT
               !.levels = levels, !.clock = @ + 1, !.nth = @ + Len(order),
               !.owed = @ \o deltas]]
  BY DEF Stream!Trade
<1>b. PICK order \in Stream!SetToSeqs(Stream!Difference(v.levels, levels)) :
        LET done(n) == {order[m] : m \in 1..n}
            after(n) == (levels \cap done(n)) \cup (v.levels \ done(n))
            deltas == [n \in 1..Len(order) |->
                [at |-> v.clock + 1, nth |-> v.nth + n, price |-> order[n],
                 rests |-> order[n] \in levels, best |-> Stream!TopOf(levels), truth |-> after(n)]]
        IN exchange' = [exchange EXCEPT ![a] = [v EXCEPT
               !.levels = levels, !.clock = @ + 1, !.nth = @ + Len(order),
               !.owed = @ \o deltas]]
  BY <1>a
<1> levels \in SUBSET Prices /\ levels # v.levels
  OBVIOUS
<1> DEFINE D == Stream!Difference(v.levels, levels)
           L == Len(order)
           done(n) == {order[m] : m \in 1..n}
           after(n) == (levels \cap done(n)) \cup (v.levels \ done(n))
           deltas == [n \in 1..Len(order) |->
                [at |-> v.clock + 1, nth |-> v.nth + n, price |-> order[n],
                 rests |-> order[n] \in levels, best |-> Stream!TopOf(levels), truth |-> after(n)]]
           w == [v EXCEPT !.levels = levels, !.clock = v.clock + 1, !.nth = v.nth + Len(order),
                          !.owed = v.owed \o deltas]
           g == [k \in Nat |-> IF k \in (v.nth + 1)..(v.nth + L)
                               THEN [at |-> v.clock + 1, truth |-> after(k - v.nth),
                                     price |-> order[k - v.nth], rests |-> order[k - v.nth] \in levels]
                               ELSE h[k]]
<1>c. exchange'[a] = w
  BY <1>b
<1> SUFFICES /\ \E p \in Histories : /\ History(w, p) /\ Owes(w, p)
                                     /\ \A k \in 0..v.nth : p[k] = h[k]
             /\ w.nth \in Nat /\ v.nth <= w.nth /\ SentUpTo(w) = SentUpTo(v)
  BY <1>c
<1> HIDE DEF v
<1>1. /\ v.levels \in SUBSET Prices /\ v.clock \in 1..MaxTime /\ v.nth \in Nat
      /\ v.owed \in Seq(Deltas) /\ Len(v.owed) \in Nat
  BY VenueFields, LenProperties DEF History
<1>2. v.clock + 1 \in 1..MaxTime
  BY <1>1, StreamConstants
<1>3. /\ deltas \in Seq(Deltas) /\ Len(deltas) = L /\ L \in Nat /\ order \in Seq(D)
  BY TradeEffect
<1>4. \A n \in 1..L : order[n] \in D
  BY <1>3, ElementOfSeq
<1>5. D \subseteq Prices /\ IsFiniteSet(D)
  <2>1. D \subseteq Prices
    BY <1>1 DEF Stream!Difference
  <2> QED
    BY <2>1, StreamConstants, FS_Subset
<1>6. done(L) = D
  <2>1. Stream!Cardinality(D) = Cardinality(D) /\ Cardinality(D) \in Nat
    BY <1>5, FS_CardinalityType DEF Stream!Cardinality, Cardinality
  <2>2. /\ order \in [1..Cardinality(D) -> D]
        /\ \A i, j \in 1..Cardinality(D) : i # j => order[i] # order[j]
    <3> HIDE DEF D
    <3>1. order \in [1..Stream!Cardinality(D) -> D]
          /\ \A i, j \in 1..Stream!Cardinality(D) : i # j => order[i] # order[j]
      BY DEF Stream!SetToSeqs, D
    <3> QED
      BY <2>1, <3>1
  <2>3. L = Cardinality(D)
    BY <2>1, <2>2
  <2> HIDE DEF D
  <2>4. order \in Bijection(1..L, done(L))
    <3>1. order \in [1..L -> done(L)]
      BY <2>2, <2>3
    <3>2. \A x, y \in 1..L : order[x] = order[y] => x = y
      BY <2>2, <2>3
    <3>3. \A t \in done(L) : \E x \in 1..L : order[x] = t
      OBVIOUS
    <3> QED
      BY <3>1, <3>2, <3>3 DEF Bijection, Injection, Surjection, IsInjective
  <2>5. Cardinality(done(L)) = L
    <3>1. IsFiniteSet(1..L) /\ Cardinality(1..L) = L
      <4>1. 1 \in Int /\ L \in Int
        BY <1>3
      <4>2. IsFiniteSet(1..L) /\ Cardinality(1..L) = IF 1 > L THEN 0 ELSE L - 1 + 1
        BY <4>1, FS_Interval
      <4> QED
        BY <1>3, <4>2
    <3>2. ExistsBijection(1..L, done(L))
      BY <2>4 DEF ExistsBijection
    <3> HIDE DEF done
    <3> QED
      BY <3>1, <3>2, FS_Bijection
  <2>6. done(L) \subseteq D
    BY <1>4
  <2> HIDE DEF done
  <2> QED
    BY <1>5, <2>3, <2>5, <2>6, FS_Subset
<1>7. after(0) = v.levels /\ after(L) = levels /\ L >= 1
  <2>1. done(0) = {}
    OBVIOUS
  <2>2. after(0) = v.levels
    BY <2>1
  <2>3. after(L) = (levels \cap D) \cup (v.levels \ D)
    BY <1>6
  <2>4. (levels \cap D) \cup (v.levels \ D) = levels
    BY DEF Stream!Difference
  <2>5. D # {}
    BY DEF Stream!Difference
  <2>6. L # 0
    <3>1. L = 0 => done(L) = {}
      BY <2>1
    <3> HIDE DEF done, D
    <3> QED
      BY <1>6, <2>5, <3>1
  <2> QED
    BY <1>3, <2>2, <2>3, <2>4, <2>6
<1>8. ASSUME NEW n \in 1..L
      PROVE  after(n) = Stepped(after(n - 1), [price |-> order[n], rests |-> order[n] \in levels])
  <2>1. done(n) = done(n - 1) \cup {order[n]}
    <3>1. \A m \in 1..n : m \in 1..(n - 1) \/ m = n
      BY <1>3
    <3>2. \A m \in 1..(n - 1) : m \in 1..n
      BY <1>3
    <3>3. n \in 1..n
      BY <1>3
    <3> QED
      BY <3>1, <3>2, <3>3
  <2>2. order[n] \in Stream!Difference(v.levels, levels)
    BY <1>4
  <2> DEFINE old == done(n - 1)
  <2>3. after(n) = (levels \cap (old \cup {order[n]})) \cup (v.levels \ (old \cup {order[n]}))
    BY <2>1
  <2>4. after(n - 1) = (levels \cap old) \cup (v.levels \ old)
    OBVIOUS
  <2> HIDE DEF old, after, done
  <2>5. CASE order[n] \in levels
    BY <2>3, <2>4, <2>5 DEF Stepped
  <2>6. CASE order[n] \notin levels
    BY <2>3, <2>4, <2>6 DEF Stepped
  <2> QED
    BY <2>5, <2>6
<1>9. \A n \in 1..L : after(n) \in SUBSET Prices /\ order[n] \in Prices
  BY <1>1, <1>4, <1>5
<1> HIDE DEF D, done, after
<1>10. g \in Histories
  <2>1. ASSUME NEW k \in Nat PROVE g[k] \in Changes
    <3>1. CASE k \in (v.nth + 1)..(v.nth + L)
      <4>1. k - v.nth \in 1..L
        BY <1>1, <1>3, <3>1
      <4>2. (order[k - v.nth] \in levels) \in BOOLEAN
        OBVIOUS
      <4>3. g[k] = [at |-> v.clock + 1, truth |-> after(k - v.nth),
                    price |-> order[k - v.nth], rests |-> order[k - v.nth] \in levels]
        BY <3>1
      <4> HIDE DEF g
      <4> QED
        BY <1>2, <1>9, <4>1, <4>2, <4>3 DEF Changes
    <3>2. CASE k \notin (v.nth + 1)..(v.nth + L)
      <4>1. g[k] = h[k]
        BY <3>2
      <4> QED
        BY <4>1 DEF Histories
    <3> QED
      BY <3>1, <3>2
  <2>2. g = [k \in Nat |-> g[k]]
    OBVIOUS
  <2> HIDE DEF g
  <2> QED
    BY <2>1, <2>2 DEF Histories
<1>11. \A k \in 0..v.nth : g[k] = h[k]
  BY <1>1
<1>12. ASSUME NEW n \in 1..L
       PROVE  /\ v.nth + n \in Nat /\ g[v.nth + n].at = v.clock + 1
              /\ g[v.nth + n].truth = after(n) /\ g[v.nth + n].price = order[n]
              /\ g[v.nth + n].rests = (order[n] \in levels)
  <2>1. v.nth + n \in (v.nth + 1)..(v.nth + L) /\ v.nth + n \in Nat /\ v.nth + n - v.nth = n
    BY <1>1, <1>3
  <2> DEFINE k == v.nth + n
  <2>2. k \in (v.nth + 1)..(v.nth + L) /\ k \in Nat /\ k - v.nth = n
    BY <1>1, <1>3
  <2> HIDE DEF k
  <2>3. g[k] = [at |-> v.clock + 1, truth |-> after(k - v.nth), price |-> order[k - v.nth],
                rests |-> order[k - v.nth] \in levels]
    BY <2>2
  <2> HIDE DEF g
  <2>4. /\ g[k].at = v.clock + 1 /\ g[k].truth = after(n) /\ g[k].price = order[n]
        /\ g[k].rests = (order[n] \in levels)
    BY <2>2, <2>3
  <2> QED
    BY <2>1, <2>4 DEF k
<1>13. /\ w \in Venues /\ w.levels = levels /\ w.clock = v.clock + 1 /\ w.nth = v.nth + L
       /\ w.owed = v.owed \o deltas
  <2>1. v.owed \o deltas \in Seq(Deltas) /\ v.nth + L \in Int
    <3> HIDE DEF deltas
    <3> QED
      BY <1>1, <1>3, ConcatProperties
  <2> HIDE DEF deltas
  <2> QED
    BY <1>1, <1>2, <2>1 DEF Venues
<1>14. /\ Len(w.owed) = Len(v.owed) + L
       /\ \A i \in 1..Len(v.owed) : w.owed[i] = v.owed[i]
       /\ \A i \in (Len(v.owed) + 1)..(Len(v.owed) + L) : w.owed[i] = deltas[i - Len(v.owed)]
  <2> HIDE DEF deltas, w
  <2> DEFINE old == v.owed
  <2>0. old \in Seq(Deltas) /\ deltas \in Seq(Deltas)
    BY <1>1, <1>3
  <2> HIDE DEF old
  <2>1. /\ Len(old \o deltas) = Len(old) + Len(deltas)
        /\ \A i \in 1..(Len(old) + Len(deltas)) :
              (old \o deltas)[i] = IF i <= Len(old) THEN old[i] ELSE deltas[i - Len(old)]
    BY <2>0, ConcatProperties
  <2> USE DEF old
  <2>2. /\ Len(v.owed \o deltas) = Len(v.owed) + Len(deltas)
        /\ \A i \in 1..(Len(v.owed) + Len(deltas)) :
              (v.owed \o deltas)[i] = IF i <= Len(v.owed) THEN v.owed[i] ELSE deltas[i - Len(v.owed)]
    BY <2>1
  <2> HIDE DEF old
  <2> QED
    BY <1>1, <1>3, <1>13, <2>2
<1>15. \A n \in 1..L : /\ deltas[n].at = v.clock + 1 /\ deltas[n].nth = v.nth + n
                        /\ deltas[n].price = order[n] /\ deltas[n].rests = (order[n] \in levels)
                        /\ deltas[n].truth = after(n)
  OBVIOUS
<1> HIDE DEF g, w, deltas
<1>16. SentUpTo(w) = SentUpTo(v) /\ SentUpTo(v) \in Nat /\ w.nth \in Nat /\ v.nth <= w.nth
  <2>1. SentUpTo(v) \in Nat
    BY DEF Owes
  <2>2. (v.nth + L) - (Len(v.owed) + L) = v.nth - Len(v.owed)
    <3>1. \A x, y, z \in Nat : (x + z) - (y + z) = x - y
      OBVIOUS
    <3> QED
      BY ONLY <1>1, <1>3, <3>1
  <2>3. SentUpTo(w) = SentUpTo(v)
    <3>1. SentUpTo(w) = w.nth - Len(w.owed) /\ SentUpTo(v) = v.nth - Len(v.owed)
      BY DEF SentUpTo
    <3>2. w.nth = v.nth + L /\ Len(w.owed) = Len(v.owed) + L
      BY <1>13, <1>14
    <3> QED
      BY <2>2, <3>1, <3>2
  <2>4. v.nth + L \in Nat /\ v.nth <= v.nth + L
    BY <1>1, <1>3
  <2> QED
    BY <1>13, <2>1, <2>3, <2>4
<1>17. \A k \in 0..w.nth : k \in 0..v.nth \/ \E n \in 1..L : k = v.nth + n
  <2>1. ASSUME NEW k \in 0..w.nth, ~(k \in 0..v.nth) PROVE k - v.nth \in 1..L /\ k = v.nth + (k - v.nth)
    BY <1>1, <1>3, <1>13, <2>1
  <2> QED
    BY <2>1
<1>18. History(w, g)
  <2>1. L \in 1..L /\ w.nth = v.nth + L
    BY <1>3, <1>7, <1>13
  <2>2. g[w.nth].truth = w.levels /\ g[w.nth].at = w.clock
    BY <1>7, <1>12, <1>13, <2>1
  <2>3. \A j \in 0..v.nth : g[j].at <= v.clock /\ g[j].at \in Nat
    <3>1. \A j \in 0..v.nth : h[j].at \in Nat /\ h[j].at <= h[v.nth].at
      <4>1. \A j \in 0..v.nth : j \in Nat /\ j <= v.nth /\ v.nth \in 0..v.nth
        BY <1>1
      <4>2. \A j \in Nat : h[j].at \in Nat
        BY DEF Histories, Changes
      <4> QED
        BY <4>1, <4>2 DEF History
    <3> QED
      BY <1>11, <3>1 DEF History
  <2>4. Whole(g, w.nth)
    <3> SUFFICES ASSUME NEW j \in 1..w.nth, g[j].at = g[w.nth].at
                 PROVE  g[j].rests <=> g[j].price \in g[w.nth].truth
      BY DEF Whole
    <3>1. j \in 0..w.nth /\ g[j].at = v.clock + 1 /\ g[w.nth].truth = levels
      BY <1>13, <1>16, <2>2
    <3>2. j \notin 0..v.nth
      BY <1>1, <2>3, <3>1
    <3>3. PICK n \in 1..L : j = v.nth + n
      BY <1>17, <3>1, <3>2
    <3>4. g[j].price = order[n] /\ g[j].rests = (order[n] \in levels)
      BY <1>12, <3>3
    <3> QED
      BY <3>1, <3>4
  <2>5. ASSUME NEW k \in 1..w.nth PROVE g[k].truth = Stepped(g[k - 1].truth, g[k])
    <3>1. CASE k \in 0..v.nth
      <4>1. k \in 1..v.nth /\ k - 1 \in 0..v.nth
        BY <1>1, <3>1
      <4> QED
        BY <1>11, <3>1, <4>1 DEF History
    <3>2. CASE k \notin 0..v.nth
      <4>1. PICK n \in 1..L : k = v.nth + n
        BY <1>16, <1>17, <3>2
      <4>2. g[k - 1].truth = after(n - 1)
        <5>1. CASE n = 1
          <6>1. k - 1 = v.nth /\ v.nth \in 0..v.nth /\ n - 1 = 0
            BY <1>1, <4>1, <5>1
          <6> QED
            BY <1>7, <1>11, <6>1 DEF History
        <5>2. CASE n # 1
          <6>1. n - 1 \in 1..L /\ k - 1 = v.nth + (n - 1)
            BY <1>1, <1>3, <4>1, <5>2
          <6> QED
            BY <1>12, <6>1
        <5> QED
          BY <5>1, <5>2
      <4>3. /\ g[k].truth = after(n) /\ g[k].price = order[n] /\ g[k].rests = (order[n] \in levels)
        BY <1>12, <4>1
      <4> QED
        BY <1>8, <4>2, <4>3 DEF Stepped
    <3> QED
      BY <3>1, <3>2
  <2>6. ASSUME NEW j \in 0..w.nth, NEW k \in 0..w.nth, j <= k PROVE g[j].at <= g[k].at
    <3>1. CASE k \in 0..v.nth
      <4>1. j \in 0..v.nth
        BY <1>1, <2>6, <3>1
      <4> QED
        BY <1>11, <2>6, <3>1, <4>1 DEF History
    <3>2. CASE k \notin 0..v.nth
      <4>1. g[k].at = v.clock + 1
        BY <1>12, <1>17, <3>2
      <4>2. CASE j \in 0..v.nth
        BY <1>1, <2>3, <4>1, <4>2
      <4>3. CASE j \notin 0..v.nth
        <5>1. g[j].at = v.clock + 1
          BY <1>12, <1>17, <4>3
        <5> QED
          BY <1>1, <4>1, <5>1
      <4> QED
        BY <4>2, <4>3
    <3> QED
      BY <3>1, <3>2
  <2> QED
    BY <1>16, <2>2, <2>4, <2>5, <2>6 DEF History
<1>19. Owes(w, g)
  <2> SUFFICES ASSUME NEW i \in 1..Len(w.owed) PROVE IsChange(g, SentUpTo(v) + i, w.owed[i])
    BY <1>16 DEF Owes
  <2>1. CASE i <= Len(v.owed)
    <3>1. i \in 1..Len(v.owed) /\ SentUpTo(v) + i \in 0..v.nth
      BY <1>1, <1>3, <1>14, <1>16, <2>1 DEF SentUpTo
    <3> QED
      BY <1>11, <1>14, <3>1 DEF Owes, IsChange
  <2>2. CASE ~(i <= Len(v.owed))
    <3> DEFINE n == i - Len(v.owed)
    <3>1. /\ i \in (Len(v.owed) + 1)..(Len(v.owed) + L) /\ n \in 1..L
          /\ SentUpTo(v) + i = v.nth + n
      BY <1>1, <1>3, <1>14, <1>16, <2>2 DEF SentUpTo
    <3>2. w.owed[i] = deltas[n]
      BY <1>14, <3>1
    <3> HIDE DEF n
    <3> QED
      BY <1>12, <1>15, <3>1, <3>2 DEF IsChange
  <2> QED
    BY <2>1, <2>2
<1> QED
  BY <1>10, <1>11, <1>16, <1>18, <1>19


-----------------------------------------------------------------------------
(* A frame is queued, or taken from the queue *)

Longer(q, r) ==
    Len(q) \in Nat /\ Len(r) = Len(q) + 1 /\ \A j \in 1..Len(q) : r[j] = q[j]
Shorter(q, r) ==
    Len(q) \in Nat \ {0} /\ Len(r) = Len(q) - 1 /\ \A j \in 1..Len(r) : r[j] = q[j + 1]
\* the last frame of r changes the book of a
Tells(r, a) == IsDelta(r, Len(r), a) \/ IsSnapshot(r, Len(r), a)

LEMMA LongerIndices ==
  ASSUME NEW q, NEW r, Longer(q, r)
  PROVE  /\ Len(q) \in Nat /\ Len(r) \in Nat /\ Len(r) = Len(q) + 1 /\ Len(r) \in 1..Len(r)
         /\ \A i \in 1..Len(r) : i \in 1..Len(q) \/ i = Len(r)
         /\ \A i \in 1..Len(q) : i \in 1..Len(r) /\ i < Len(r)
         /\ \A a, i : i \in 1..Len(q) =>
               /\ r[i] = q[i]
               /\ IsDelta(r, i, a) <=> IsDelta(q, i, a)
               /\ IsSnapshot(r, i, a) <=> IsSnapshot(q, i, a)
<1>1. Len(q) \in Nat /\ Len(r) = Len(q) + 1 /\ \A j \in 1..Len(q) : r[j] = q[j]
  BY DEF Longer
<1>2. \A a, i : i \in 1..Len(q) => /\ r[i] = q[i]
                                   /\ IsDelta(r, i, a) <=> IsDelta(q, i, a)
                                   /\ IsSnapshot(r, i, a) <=> IsSnapshot(q, i, a)
  BY <1>1 DEF IsDelta, IsSnapshot
<1> QED
  BY <1>1, <1>2

LEMMA ShorterIndices ==
  ASSUME NEW q, NEW r, Shorter(q, r)
  PROVE  /\ Len(q) \in Nat /\ Len(r) \in Nat /\ Len(q) = Len(r) + 1 /\ 1 \in 1..Len(q)
         /\ \A i \in 1..Len(q) : i = 1 \/ (i - 1 \in 1..Len(r) /\ (i - 1) + 1 = i)
         /\ \A a, i : i \in 1..Len(r) =>
               /\ i + 1 \in 1..Len(q) /\ r[i] = q[i + 1]
               /\ IsDelta(r, i, a) <=> IsDelta(q, i + 1, a)
               /\ IsSnapshot(r, i, a) <=> IsSnapshot(q, i + 1, a)
<1>1. Len(q) \in Nat \ {0} /\ Len(r) = Len(q) - 1 /\ \A j \in 1..Len(r) : r[j] = q[j + 1]
  BY DEF Shorter
<1>2. \A i \in 1..Len(r) : i + 1 \in 1..Len(q)
  BY <1>1
<1>3. \A a, i : i \in 1..Len(r) => /\ r[i] = q[i + 1]
                                   /\ IsDelta(r, i, a) <=> IsDelta(q, i + 1, a)
                                   /\ IsSnapshot(r, i, a) <=> IsSnapshot(q, i + 1, a)
  BY <1>1 DEF IsDelta, IsSnapshot
<1> QED
  BY <1>1, <1>2, <1>3

LEMMA LongerFollows ==
  ASSUME NEW q, NEW r, Longer(q, r), NEW a, NEW i \in Nat, NEW n, NEW s, Follows(q, a, i, n, s)
  PROVE  Follows(r, a, i, n, s)
<1> SUFFICES ASSUME NEW k \in (n + 1)..s
             PROVE  \E j \in (i + 1)..Len(r) : IsDelta(r, j, a) /\ r[j].message.nth = k
  BY DEF Follows
<1>1. PICK j \in (i + 1)..Len(q) : IsDelta(q, j, a) /\ q[j].message.nth = k
  BY DEF Follows
<1>2. j \in 1..Len(q) /\ j \in (i + 1)..Len(r)
  BY LongerIndices
<1> QED
  BY <1>1, <1>2, LongerIndices

\* A frame that says nothing of the book of a.
LEMMA AppendOther ==
  ASSUME NEW q, NEW r, Longer(q, r), NEW a, ~Tells(r, a), NEW b, NEW hd, NEW v, NEW h
  PROVE  /\ Chain(q, v, h, a) => Chain(r, v, h, a)
         /\ View(b, hd, q, v, h, a) => View(b, hd, r, v, h, a)
<1>1. ~IsDelta(r, Len(r), a) /\ ~IsSnapshot(r, Len(r), a)
  BY DEF Tells
<1>2. \A i \in 1..Len(r) : IsDelta(r, i, a) => /\ i \in 1..Len(q) /\ r[i] = q[i] /\ IsDelta(q, i, a)
  BY <1>1, LongerIndices
<1>3. \A i \in 1..Len(r) : IsSnapshot(r, i, a) => /\ i \in 1..Len(q) /\ r[i] = q[i] /\ IsSnapshot(q, i, a)
  BY <1>1, LongerIndices
<1>4. ASSUME Chain(q, v, h, a) PROVE Chain(r, v, h, a)
  <2>1. ASSUME NEW i \in 1..Len(r), IsSnapshot(r, i, a)
        PROVE  SnapshotFits(r[i].message, v, h) /\ Follows(r, a, i, r[i].message.nth, SentUpTo(v))
    <3>1. i \in 1..Len(q) /\ r[i] = q[i] /\ IsSnapshot(q, i, a) /\ i \in Nat
      BY <1>3, <2>1
    <3>2. SnapshotFits(q[i].message, v, h) /\ Follows(q, a, i, q[i].message.nth, SentUpTo(v))
      BY <1>4, <3>1 DEF Chain
    <3>3. Follows(r, a, i, q[i].message.nth, SentUpTo(v))
      BY <3>1, <3>2, LongerFollows
    <3> QED
      BY <3>1, <3>2, <3>3
  <2>2. \A i \in 1..Len(r) : IsDelta(r, i, a) => DeltaFits(r[i].message, v, h)
    BY <1>2, <1>4 DEF Chain
  <2>3. \A i, j \in 1..Len(r) : i < j /\ IsDelta(r, i, a) /\ IsDelta(r, j, a)
                                  => r[i].message.nth < r[j].message.nth
    BY <1>2, <1>4 DEF Chain
  <2>4. \A i, j \in 1..Len(r) : i < j /\ (IsDelta(r, i, a) \/ IsSnapshot(r, i, a)) /\ IsSnapshot(r, j, a)
                                  => r[i].message.nth <= r[j].message.nth
    BY <1>2, <1>3, <1>4 DEF Chain
  <2> QED
    BY <2>1, <2>2, <2>3, <2>4 DEF Chain
<1>5. ASSUME View(b, hd, q, v, h, a) PROVE View(b, hd, r, v, h, a)
  <2>1. CASE ~b.snapshot_loaded
    BY <1>5, <2>1 DEF View
  <2>2. CASE b.snapshot_loaded
    <3>1. Follows(q, a, 0, hd.nth, SentUpTo(v))
      BY <1>5, <2>2 DEF View
    <3>2. Follows(r, a, 0, hd.nth, SentUpTo(v))
      BY <3>1, LongerFollows
    <3>3. \A i \in 1..Len(r) : IsSnapshot(r, i, a) => hd.nth <= r[i].message.nth
      BY <1>3, <1>5, <2>2 DEF View
    <3>4. (\E i \in 1..Len(r) : IsDelta(r, i, a) /\ r[i].message.nth <= hd.nth)
             => \E i \in 1..Len(q) : IsDelta(q, i, a) /\ q[i].message.nth <= hd.nth
      BY <1>2
    <3> QED
      BY <1>5, <2>2, <3>2, <3>3, <3>4 DEF View
  <2> QED
    BY <2>1, <2>2
<1> QED
  BY <1>4, <1>5

\* The next delta the exchange owes.
LEMMA AppendDelta ==
  ASSUME NEW q, NEW r, Longer(q, r), NEW a, NEW b, NEW hd, NEW v, NEW w, NEW h,
         IsDelta(r, Len(r), a), DeltaFits(r[Len(r)].message, w, h),
         r[Len(r)].message.nth = SentUpTo(v) + 1,
         SentUpTo(v) \in Nat, v.nth \in Nat, w.nth = v.nth, SentUpTo(w) = SentUpTo(v) + 1
  PROVE  /\ Chain(q, v, h, a) => Chain(r, w, h, a)
         /\ View(b, hd, q, v, h, a) => View(b, hd, r, w, h, a)
<1> DEFINE L == Len(r)
           s == SentUpTo(v)
<1>1. ~IsSnapshot(r, L, a)
  BY DEF IsDelta, IsSnapshot
<1>2. \A i \in 1..L : IsDelta(r, i, a) =>
         \/ i \in 1..Len(q) /\ r[i] = q[i] /\ IsDelta(q, i, a)
         \/ i = L
  BY LongerIndices
<1>3. \A i \in 1..L : IsSnapshot(r, i, a) => i \in 1..Len(q) /\ r[i] = q[i] /\ IsSnapshot(q, i, a)
  BY <1>1, LongerIndices
<1>4. ASSUME NEW i \in Nat, NEW n \in Int, i <= Len(q), Follows(q, a, i, n, s) PROVE Follows(r, a, i, n, s + 1)
  <2> SUFFICES ASSUME NEW k \in (n + 1)..(s + 1)
               PROVE  \E j \in (i + 1)..Len(r) : IsDelta(r, j, a) /\ r[j].message.nth = k
    BY DEF Follows
  <2>1. CASE k = s + 1
    <3>1. L \in (i + 1)..L
      BY <1>4, LongerIndices
    <3> QED
      BY <2>1, <3>1
  <2>2. CASE k # s + 1
    <3>1. Follows(r, a, i, n, s)
      BY <1>4, LongerFollows
    <3>2. k \in (n + 1)..s
      BY <2>2
    <3> QED
      BY <3>1, <3>2 DEF Follows
  <2> QED
    BY <2>1, <2>2
<1>5. \A d : DeltaFits(d, v, h) => DeltaFits(d, w, h) /\ d.nth < s + 1 /\ d.nth \in Nat
  BY DEF DeltaFits
<1>6. \A m : SnapshotFits(m, v, h) => SnapshotFits(m, w, h) /\ m.nth \in Int
  BY DEF SnapshotFits
<1>7. ASSUME Chain(q, v, h, a) PROVE Chain(r, w, h, a)
  <2>1. ASSUME NEW i \in 1..L, IsSnapshot(r, i, a)
        PROVE  SnapshotFits(r[i].message, w, h) /\ Follows(r, a, i, r[i].message.nth, SentUpTo(w))
    <3>1. i \in 1..Len(q) /\ r[i] = q[i] /\ IsSnapshot(q, i, a) /\ i \in Nat /\ i <= Len(q)
      BY <1>3, <2>1, LongerIndices
    <3>2. SnapshotFits(q[i].message, v, h) /\ Follows(q, a, i, q[i].message.nth, s)
      BY <1>7, <3>1 DEF Chain
    <3>3. SnapshotFits(q[i].message, w, h) /\ q[i].message.nth \in Int
      BY <1>6, <3>2
    <3>4. Follows(r, a, i, q[i].message.nth, s + 1)
      BY <1>4, <3>1, <3>2, <3>3
    <3> QED
      BY <3>1, <3>3, <3>4
  <2>2. \A i \in 1..Len(q) : IsDelta(q, i, a) => DeltaFits(q[i].message, v, h)
    BY <1>7 DEF Chain
  <2>3. \A i \in 1..L : IsDelta(r, i, a) => DeltaFits(r[i].message, w, h)
    BY <1>2, <1>5, <2>2
  <2>4. ASSUME NEW i \in 1..L, NEW j \in 1..L, i < j, IsDelta(r, i, a), IsDelta(r, j, a)
        PROVE  r[i].message.nth < r[j].message.nth
    <3>1. i \in 1..Len(q) /\ r[i] = q[i] /\ IsDelta(q, i, a)
      BY <1>2, <2>4, LongerIndices
    <3>2. CASE j = L
      BY <1>5, <2>2, <3>1, <3>2
    <3>3. CASE j # L
      BY <1>2, <1>7, <2>4, <3>1, <3>3 DEF Chain
    <3> QED
      BY <3>2, <3>3
  <2>5. ASSUME NEW i \in 1..L, NEW j \in 1..L, i < j, IsDelta(r, i, a) \/ IsSnapshot(r, i, a),
               IsSnapshot(r, j, a)
        PROVE  r[i].message.nth <= r[j].message.nth
    <3>1. j \in 1..Len(q) /\ r[j] = q[j] /\ IsSnapshot(q, j, a)
      BY <1>3, <2>5
    <3>2. i # L
      BY <2>5, <3>1, LongerIndices
    <3>3. i \in 1..Len(q) /\ r[i] = q[i] /\ (IsDelta(q, i, a) \/ IsSnapshot(q, i, a))
      BY <1>2, <1>3, <2>5, <3>2
    <3> QED
      BY <1>7, <2>5, <3>1, <3>3 DEF Chain
  <2> QED
    BY <2>1, <2>3, <2>4, <2>5 DEF Chain
<1>8. ASSUME View(b, hd, q, v, h, a) PROVE View(b, hd, r, w, h, a)
  <2>1. CASE ~b.snapshot_loaded
    BY <1>8, <2>1 DEF View
  <2>2. CASE b.snapshot_loaded
    <3>1. /\ hd.nth \in 0..v.nth /\ hd.nth \in Int /\ hd.nth \in 0..w.nth
          /\ Follows(q, a, 0, hd.nth, s)
      BY <1>8, <2>2 DEF View
    <3>2. Follows(r, a, 0, hd.nth, SentUpTo(w))
      BY <1>4, <3>1, LongerIndices
    <3>3. \A i \in 1..L : IsSnapshot(r, i, a) => hd.nth <= r[i].message.nth
      BY <1>3, <1>8, <2>2 DEF View
    <3>4. ASSUME \/ SentUpTo(w) < hd.nth
                 \/ \E i \in 1..L : IsDelta(r, i, a) /\ r[i].message.nth <= hd.nth
          PROVE  Whole(h, hd.nth)
      <4>1. CASE s < hd.nth
        BY <1>8, <2>2, <4>1 DEF View
      <4>2. CASE ~(s < hd.nth)
        <5>1. \E i \in 1..Len(q) : IsDelta(q, i, a) /\ q[i].message.nth <= hd.nth
          <6>1. ~(SentUpTo(w) < hd.nth) /\ ~(s + 1 <= hd.nth)
            BY <3>1, <4>2
          <6> QED
            BY <1>2, <3>4, <6>1
        <5> QED
          BY <1>8, <2>2, <5>1 DEF View
      <4> QED
        BY <4>1, <4>2
    <3> QED
      BY <1>8, <2>2, <3>1, <3>2, <3>3, <3>4 DEF View
  <2> QED
    BY <2>1, <2>2
<1> QED
  BY <1>7, <1>8

\* A snapshot of all that has happened.
LEMMA AppendSnapshot ==
  ASSUME NEW q, NEW r, Longer(q, r), NEW a, NEW b, NEW hd, NEW v, NEW h,
         IsSnapshot(r, Len(r), a), SnapshotFits(r[Len(r)].message, v, h),
         r[Len(r)].message.nth = v.nth,
         v.nth \in Nat, SentUpTo(v) \in Nat, SentUpTo(v) <= v.nth
  PROVE  /\ Chain(q, v, h, a) => Chain(r, v, h, a)
         /\ View(b, hd, q, v, h, a) => View(b, hd, r, v, h, a)
<1> DEFINE L == Len(r)
<1>1. ~IsDelta(r, L, a)
  BY DEF IsDelta, IsSnapshot
<1>2. \A i \in 1..L : IsDelta(r, i, a) => i \in 1..Len(q) /\ r[i] = q[i] /\ IsDelta(q, i, a)
  BY <1>1, LongerIndices
<1>3. \A i \in 1..L : IsSnapshot(r, i, a) =>
         \/ i \in 1..Len(q) /\ r[i] = q[i] /\ IsSnapshot(q, i, a)
         \/ i = L
  BY LongerIndices
<1>4. Follows(r, a, L, v.nth, SentUpTo(v))
  <2>1. \A k \in (v.nth + 1)..SentUpTo(v) : FALSE
    OBVIOUS
  <2> QED
    BY <2>1 DEF Follows
<1>5. ASSUME Chain(q, v, h, a) PROVE Chain(r, v, h, a)
  <2>1. ASSUME NEW i \in 1..L, IsSnapshot(r, i, a)
        PROVE  SnapshotFits(r[i].message, v, h) /\ Follows(r, a, i, r[i].message.nth, SentUpTo(v))
    <3>1. CASE i = L
      BY <1>4, <3>1
    <3>2. CASE i # L
      <4>1. i \in 1..Len(q) /\ r[i] = q[i] /\ IsSnapshot(q, i, a) /\ i \in Nat
        BY <1>3, <2>1, <3>2
      <4>2. SnapshotFits(q[i].message, v, h) /\ Follows(q, a, i, q[i].message.nth, SentUpTo(v))
        BY <1>5, <4>1 DEF Chain
      <4>3. Follows(r, a, i, q[i].message.nth, SentUpTo(v))
        BY <4>1, <4>2, LongerFollows
      <4> QED
        BY <4>1, <4>2, <4>3
    <3> QED
      BY <3>1, <3>2
  <2>2. \A i \in 1..L : IsDelta(r, i, a) => DeltaFits(r[i].message, v, h)
    BY <1>2, <1>5 DEF Chain
  <2>3. \A i, j \in 1..L : i < j /\ IsDelta(r, i, a) /\ IsDelta(r, j, a)
                                  => r[i].message.nth < r[j].message.nth
    BY <1>2, <1>5 DEF Chain
  <2>4. ASSUME NEW i \in 1..L, NEW j \in 1..L, i < j, IsDelta(r, i, a) \/ IsSnapshot(r, i, a),
               IsSnapshot(r, j, a)
        PROVE  r[i].message.nth <= r[j].message.nth
    <3>1. i # L
      BY <2>4, LongerIndices
    <3>2. i \in 1..Len(q) /\ r[i] = q[i] /\ (IsDelta(q, i, a) \/ IsSnapshot(q, i, a))
      BY <1>2, <1>3, <2>4, <3>1
    <3>3. r[i].message.nth <= v.nth
      <4>1. DeltaFits(q[i].message, v, h) \/ SnapshotFits(q[i].message, v, h)
        BY <1>5, <3>2 DEF Chain
      <4>2. q[i].message.nth \in 0..v.nth
        BY <4>1 DEF DeltaFits, SnapshotFits
      <4> QED
        BY <3>2, <4>2
    <3>4. CASE j = L
      BY <3>3, <3>4
    <3>5. CASE j # L
      BY <1>3, <1>5, <2>4, <3>2, <3>5 DEF Chain
    <3> QED
      BY <3>4, <3>5
  <2> QED
    BY <2>1, <2>2, <2>3, <2>4 DEF Chain
<1>6. ASSUME View(b, hd, q, v, h, a) PROVE View(b, hd, r, v, h, a)
  <2>1. CASE ~b.snapshot_loaded
    BY <1>6, <2>1 DEF View
  <2>2. CASE b.snapshot_loaded
    <3>1. Follows(q, a, 0, hd.nth, SentUpTo(v)) /\ hd.nth \in 0..v.nth
      BY <1>6, <2>2 DEF View
    <3>2. Follows(r, a, 0, hd.nth, SentUpTo(v))
      BY <3>1, LongerFollows
    <3>3. \A i \in 1..L : IsSnapshot(r, i, a) => hd.nth <= r[i].message.nth
      <4>1. hd.nth <= v.nth
        BY <3>1
      <4> QED
        BY <1>3, <1>6, <2>2, <4>1 DEF View
    <3>4. (\E i \in 1..L : IsDelta(r, i, a) /\ r[i].message.nth <= hd.nth)
             => \E i \in 1..Len(q) : IsDelta(q, i, a) /\ q[i].message.nth <= hd.nth
      BY <1>2
    <3> QED
      BY <1>6, <2>2, <3>2, <3>3, <3>4 DEF View
  <2> QED
    BY <2>1, <2>2
<1> QED
  BY <1>5, <1>6


-----------------------------------------------------------------------------
(* What a fresh message does to a book *)

\* What a reason says of the book.
SameDepth(after, b) ==
    after.levels = b.levels /\ after.last = b.last /\ after.snapshot_loaded = b.snapshot_loaded

LEMMA MarkEffect ==
  ASSUME NEW b \in Stream!OrderBookState, NEW reason \in Stream!Reasons
  PROVE  /\ SameDepth(Stream!Unready(b, reason), b)
         /\ Stream!Unready(b, reason).ready = FALSE /\ Stream!Unready(b, reason).reason = reason
         /\ SameDepth(Stream!Ready(b), b)
         /\ Stream!Ready(b).ready = TRUE /\ Stream!Ready(b).reason = "READY"
  BY DEF Stream!Unready, Stream!Ready, Stream!OrderBookState, SameDepth

LEMMA RememberEffect ==
  ASSUME NEW b \in Stream!OrderBookState, NEW message
  PROVE  SameDepth(Stream!RememberAdvertised(b, message), b)
<1> DEFINE pending1 == message.best # Stream!TopOf(b.levels)
<1>1. Stream!RememberAdvertised(b, message) =
        [b EXCEPT !.advertised = message.best, !.advertised_at = message.at,
                  !.alignment_pending = pending1]
  BY DEF Stream!RememberAdvertised
<1> HIDE DEF pending1
<1> QED
  BY <1>1 DEF Stream!OrderBookState, SameDepth

LEMMA ResolveEffect ==
  ASSUME NEW b \in Stream!OrderBookState, NEW message, Sound(message)
  PROVE  LET after == Stream!ResolveAfterDepth(b, message)
         IN /\ SameDepth(after, b)
            /\ after.reason \in {"READY", "BEST_PRICE_PENDING_DEPTH", "BEST_PRICE_MISMATCH"}
            /\ after.ready <=> after.reason = "READY"
<1> DEFINE asked == IF message.event_type = "price_change" /\ message.best # Stream!NotAdvertised
                    THEN Stream!RememberAdvertised(b, message) ELSE b
           aligned == [b EXCEPT !.alignment_pending = FALSE]
           after == Stream!ResolveAfterDepth(b, message)
<1>1. asked \in Stream!OrderBookState /\ SameDepth(asked, b)
  BY SoundFields, RememberType, RememberEffect DEF SameDepth
<1>2. aligned \in Stream!OrderBookState /\ SameDepth(aligned, b)
  BY DEF Stream!OrderBookState, SameDepth
<1>3. {"BEST_PRICE_MISMATCH", "BEST_PRICE_PENDING_DEPTH"} \subseteq Stream!Reasons
  BY DEF Stream!Reasons
<1>4. \/ after = Stream!Ready(aligned) \/ after = Stream!Ready(asked)
      \/ after = Stream!Unready(b, "BEST_PRICE_MISMATCH")
      \/ after = Stream!Unready(b, "BEST_PRICE_PENDING_DEPTH")
      \/ after = Stream!Unready(asked, "BEST_PRICE_PENDING_DEPTH")
  BY DEF Stream!ResolveAfterDepth
<1> HIDE DEF asked, aligned, after
<1> DEFINE Fine(f) == /\ SameDepth(f, b)
                      /\ f.reason \in {"READY", "BEST_PRICE_PENDING_DEPTH", "BEST_PRICE_MISMATCH"}
                      /\ f.ready <=> f.reason = "READY"
<1>5. ASSUME NEW c \in Stream!OrderBookState, SameDepth(c, b) PROVE Fine(Stream!Ready(c))
  <2>1. /\ SameDepth(Stream!Ready(c), c)
        /\ Stream!Ready(c).ready = TRUE /\ Stream!Ready(c).reason = "READY"
    BY <1>3, MarkEffect
  <2>2. SameDepth(Stream!Ready(c), b)
    BY <1>5, <2>1 DEF SameDepth
  <2> QED
    BY <2>1, <2>2
<1>6. ASSUME NEW c \in Stream!OrderBookState, SameDepth(c, b),
             NEW r \in {"BEST_PRICE_PENDING_DEPTH", "BEST_PRICE_MISMATCH"}
      PROVE  Fine(Stream!Unready(c, r))
  <2>1. /\ SameDepth(Stream!Unready(c, r), c)
        /\ Stream!Unready(c, r).ready = FALSE /\ Stream!Unready(c, r).reason = r
    BY <1>3, MarkEffect
  <2>2. SameDepth(Stream!Unready(c, r), b)
    BY <1>6, <2>1 DEF SameDepth
  <2>3. r # "READY"
    OBVIOUS
  <2> QED
    BY <2>1, <2>2, <2>3
<1>7. SameDepth(b, b)
  BY DEF SameDepth
<1> HIDE DEF Fine
<1>8. Fine(after)
  BY <1>1, <1>2, <1>4, <1>5, <1>6, <1>7
<1> QED
  BY <1>8 DEF Fine, after

LEMMA BookEffect ==
  ASSUME NEW b \in Stream!OrderBookState, NEW message, Sound(message), message.event_type = "book",
         ~(message.at < b.last)
  PROVE  LET after == Stream!Apply(b, message, "fresh")
         IN /\ ~Stream!Rejected(b, message, "fresh")
            /\ after.levels = message.levels /\ after.last = message.at /\ after.snapshot_loaded
            /\ after.reason \in {"READY", "BEST_PRICE_PENDING_DEPTH", "BEST_PRICE_MISMATCH"}
            /\ after.ready <=> after.reason = "READY"
<1> DEFINE laid == [b EXCEPT !.levels = message.levels, !.snapshot_loaded = TRUE,
                             !.last = message.at]
<1>1. message.levels \in SUBSET Prices /\ message.at \in 0..MaxTime
  BY SoundFields
<1>2. /\ laid \in Stream!OrderBookState /\ laid.levels = message.levels /\ laid.snapshot_loaded = TRUE
      /\ laid.last = message.at
  BY <1>1 DEF Stream!OrderBookState
<1>3. Stream!Apply(b, message, "fresh") = Stream!ResolveAfterDepth(laid, message)
  BY DEF Stream!Apply, Stream!Applied, Stream!ApplyBook, Stream!IsOutOfOrder
<1>4. ~Stream!Rejected(b, message, "fresh")
  BY DEF Stream!Rejected, Stream!IsOutOfOrder
<1> DEFINE after == Stream!ResolveAfterDepth(laid, message)
<1> HIDE DEF laid, after
<1>5. /\ SameDepth(after, laid)
      /\ after.reason \in {"READY", "BEST_PRICE_PENDING_DEPTH", "BEST_PRICE_MISMATCH"}
      /\ after.ready <=> after.reason = "READY"
  BY <1>2, ResolveEffect DEF after
<1>6. after.levels = message.levels /\ after.last = message.at /\ after.snapshot_loaded
  BY <1>2, <1>5 DEF SameDepth
<1> QED
  BY <1>3, <1>4, <1>5, <1>6 DEF after

LEMMA BestEffect ==
  ASSUME NEW b \in Stream!OrderBookState, NEW message, Sound(message),
         message.event_type = "best_bid_ask"
  PROVE  LET after == Stream!Apply(b, message, "fresh")
         IN /\ ~Stream!Rejected(b, message, "fresh") /\ SameDepth(after, b)
            /\ after.reason \in {"READY", "BEST_PRICE_PENDING_DEPTH"}
            /\ after.ready <=> after.reason = "READY"
            /\ after.ready => b.snapshot_loaded
<1> DEFINE asked == Stream!RememberAdvertised(b, message)
           after == Stream!Apply(b, message, "fresh")
<1>1. asked \in Stream!OrderBookState /\ SameDepth(asked, b)
  BY SoundFields, RememberType, RememberEffect
<1>2. after = IF asked.snapshot_loaded /\ ~asked.alignment_pending THEN Stream!Ready(asked)
              ELSE Stream!Unready(asked, "BEST_PRICE_PENDING_DEPTH")
  BY DEF Stream!Apply, Stream!Applied, Stream!ApplyBest
<1>3. ~Stream!Rejected(b, message, "fresh")
  BY DEF Stream!Rejected
<1>4. "BEST_PRICE_PENDING_DEPTH" \in Stream!Reasons
  BY DEF Stream!Reasons
<1> HIDE DEF asked, after
<1>5. CASE asked.snapshot_loaded /\ ~asked.alignment_pending
  <2>1. after = Stream!Ready(asked)
    BY <1>2, <1>5
  <2>2. /\ SameDepth(Stream!Ready(asked), asked)
        /\ Stream!Ready(asked).ready = TRUE /\ Stream!Ready(asked).reason = "READY"
    BY <1>1, <1>4, MarkEffect
  <2>3. SameDepth(after, b) /\ b.snapshot_loaded
    BY <1>1, <1>5, <2>1, <2>2 DEF SameDepth
  <2>4. after.ready /\ after.reason = "READY"
    BY <2>1, <2>2
  <2> QED
    BY <1>3, <2>3, <2>4 DEF after
<1>6. CASE ~(asked.snapshot_loaded /\ ~asked.alignment_pending)
  <2>1. after = Stream!Unready(asked, "BEST_PRICE_PENDING_DEPTH")
    BY <1>2, <1>6
  <2>2. /\ SameDepth(Stream!Unready(asked, "BEST_PRICE_PENDING_DEPTH"), asked)
        /\ Stream!Unready(asked, "BEST_PRICE_PENDING_DEPTH").ready = FALSE
        /\ Stream!Unready(asked, "BEST_PRICE_PENDING_DEPTH").reason = "BEST_PRICE_PENDING_DEPTH"
    BY <1>1, <1>4, MarkEffect
  <2>3. SameDepth(after, b)
    BY <1>1, <2>1, <2>2 DEF SameDepth
  <2>4. ~after.ready /\ after.reason = "BEST_PRICE_PENDING_DEPTH"
    BY <2>1, <2>2
  <2> QED
    BY <1>3, <2>3, <2>4 DEF after
<1> QED
  BY <1>5, <1>6

\* A delta is out of order, lacks its snapshot or cannot be read, or its change
\* is made.
LEMMA DeltaEffect ==
  ASSUME NEW b \in Stream!OrderBookState, NEW message, Sound(message),
         message.event_type = "price_change",
         b.snapshot_loaded => /\ b.reason \in {"READY", "BEST_PRICE_PENDING_DEPTH"}
                              /\ b.ready <=> b.reason = "READY"
  PROVE  LET after == Stream!Apply(b, message, "fresh")
             hidden == Stream!Rejected(b, message, "fresh")
         IN /\ hidden <=> message.at < b.last
            /\ hidden => after = b
            /\ ~hidden /\ ~b.snapshot_loaded => after.reason \in Stream!IntegrityReasons
            /\ ~hidden /\ b.snapshot_loaded =>
                  \/ after.reason \in Stream!IntegrityReasons
                  \/ /\ after.levels = Stream!ApplyLevel(b.levels, message)
                     /\ after.last = message.at /\ after.snapshot_loaded
                     /\ after.reason \in {"READY", "BEST_PRICE_PENDING_DEPTH"}
                     /\ after.ready <=> after.reason = "READY"
<1> DEFINE after == Stream!Apply(b, message, "fresh")
           hidden == Stream!Rejected(b, message, "fresh")
           taken == [b EXCEPT !.levels = Stream!ApplyLevel(b.levels, message), !.last = message.at]
<1>1. hidden <=> message.at < b.last
  BY DEF Stream!Rejected, Stream!IsOutOfOrder
<1>2. CASE message.at < b.last
  <2>1. after = b
    BY <1>2 DEF Stream!Apply, Stream!IsOutOfOrder
  <2> QED
    BY <1>1, <1>2, <2>1
<1>3. CASE ~(message.at < b.last)
  <2>1. after = Stream!ApplyDelta(b, message)
    BY <1>3 DEF Stream!Apply, Stream!Applied, Stream!IsOutOfOrder
  <2>2. CASE ~b.snapshot_loaded
    <3>1. after = [b EXCEPT !.reason = "DELTA_BEFORE_SNAPSHOT"]
      BY <2>1, <2>2 DEF Stream!ApplyDelta
    <3>2. after.reason = "DELTA_BEFORE_SNAPSHOT"
      BY <3>1 DEF Stream!OrderBookState
    <3>3. after.reason \in Stream!IntegrityReasons
      BY <3>2 DEF Stream!IntegrityReasons
    <3> QED
      BY <1>1, <1>3, <2>2, <3>3
  <2>3. CASE b.snapshot_loaded
    <3>1. after = Stream!Changed(b, message)
      BY <2>1, <2>3 DEF Stream!ApplyDelta
    <3>2. CASE message.malformed
      <4>1. after = Stream!Unready(b, "MALFORMED_DELTA") /\ "MALFORMED_DELTA" \in Stream!Reasons
        BY <3>1, <3>2 DEF Stream!Changed, Stream!Reasons
      <4>2. after.reason = "MALFORMED_DELTA"
        BY <4>1, MarkEffect
      <4>3. after.reason \in Stream!IntegrityReasons
        BY <4>2 DEF Stream!IntegrityReasons
      <4> QED
        BY <1>1, <1>3, <2>3, <4>3
    <3>3. CASE ~message.malformed
      <4>1. after = Stream!ResolveAfterDepth(taken, message)
        BY <3>1, <3>3 DEF Stream!Changed
      <4>2. message.price \in Prices /\ message.at \in 0..MaxTime
        BY SoundFields
      <4>3. Stream!ApplyLevel(b.levels, message) \in SUBSET Prices
        BY <4>2 DEF Stream!OrderBookState, Stream!ApplyLevel
      <4>4. /\ taken \in Stream!OrderBookState /\ taken.snapshot_loaded = b.snapshot_loaded
            /\ taken.levels = Stream!ApplyLevel(b.levels, message) /\ taken.last = message.at
        BY <4>2, <4>3 DEF Stream!OrderBookState
      <4> HIDE DEF taken, after
      <4>5. /\ SameDepth(after, taken)
            /\ after.reason \in {"READY", "BEST_PRICE_PENDING_DEPTH", "BEST_PRICE_MISMATCH"}
            /\ after.ready <=> after.reason = "READY"
        BY <4>1, <4>4, ResolveEffect
      <4>6. after.reason = "BEST_PRICE_MISMATCH" => after.reason \in Stream!IntegrityReasons
        BY DEF Stream!IntegrityReasons
      <4>7. /\ after.levels = Stream!ApplyLevel(b.levels, message)
            /\ after.last = message.at /\ after.snapshot_loaded
        BY <2>3, <4>4, <4>5 DEF SameDepth
      <4> QED
        BY <1>1, <1>3, <2>3, <4>5, <4>6, <4>7 DEF after
    <3> QED
      BY <3>2, <3>3
  <2> QED
    BY <2>2, <2>3
<1> QED
  BY <1>2, <1>3


-----------------------------------------------------------------------------
(* A message is taken from the queue *)

LEMMA ShorterFollows ==
  ASSUME NEW q, NEW r, Shorter(q, r), NEW a, NEW i \in Nat, NEW n, NEW s,
         Follows(q, a, i + 1, n, s)
  PROVE  Follows(r, a, i, n, s)
<1> SUFFICES ASSUME NEW k \in (n + 1)..s
             PROVE  \E j \in (i + 1)..Len(r) : IsDelta(r, j, a) /\ r[j].message.nth = k
  BY DEF Follows
<1>1. PICK j \in (i + 1 + 1)..Len(q) : IsDelta(q, j, a) /\ q[j].message.nth = k
  BY DEF Follows
<1>2. j - 1 \in 1..Len(r) /\ j - 1 \in (i + 1)..Len(r) /\ (j - 1) + 1 = j
  BY ShorterIndices
<1>3. IsDelta(r, j - 1, a) /\ r[j - 1] = q[j]
  BY <1>1, <1>2, ShorterIndices
<1> QED
  BY <1>1, <1>2, <1>3

\* What follows the head, or comes before it, follows the queue without it.
LEMMA HeadFollows ==
  ASSUME NEW q, NEW r, Shorter(q, r), NEW a, NEW n \in Int, NEW s, NEW m \in Int, n <= m,
         Follows(q, a, 0, n, s), IsDelta(q, 1, a) => q[1].message.nth <= m
  PROVE  Follows(r, a, 0, m, s)
<1>1. Follows(q, a, 0 + 1, m, s)
  <2> SUFFICES ASSUME NEW k \in (m + 1)..s
               PROVE  \E j \in (0 + 1 + 1)..Len(q) : IsDelta(q, j, a) /\ q[j].message.nth = k
    BY DEF Follows
  <2>1. k \in (n + 1)..s
    OBVIOUS
  <2>2. PICK j \in (0 + 1)..Len(q) : IsDelta(q, j, a) /\ q[j].message.nth = k
    BY <2>1 DEF Follows
  <2>3. j # 1
    BY <2>2
  <2>4. j \in (0 + 1 + 1)..Len(q)
    BY <2>2, <2>3, ShorterIndices
  <2> QED
    BY <2>2, <2>4
<1> QED
  BY <1>1, ShorterFollows

LEMMA TailChain ==
  ASSUME NEW q, NEW r, Shorter(q, r), NEW a, NEW v, NEW h, Chain(q, v, h, a)
  PROVE  Chain(r, v, h, a)
<1>1. ASSUME NEW i \in 1..Len(r), IsSnapshot(r, i, a)
      PROVE  SnapshotFits(r[i].message, v, h) /\ Follows(r, a, i, r[i].message.nth, SentUpTo(v))
  <2>1. i + 1 \in 1..Len(q) /\ r[i] = q[i + 1] /\ IsSnapshot(q, i + 1, a) /\ i \in Nat
    BY <1>1, ShorterIndices
  <2>2. /\ SnapshotFits(q[i + 1].message, v, h)
        /\ Follows(q, a, i + 1, q[i + 1].message.nth, SentUpTo(v))
    BY <2>1 DEF Chain
  <2>3. Follows(r, a, i, q[i + 1].message.nth, SentUpTo(v))
    BY <2>1, <2>2, ShorterFollows
  <2> QED
    BY <2>1, <2>2, <2>3
<1>2. \A i \in 1..Len(r) : IsDelta(r, i, a) => DeltaFits(r[i].message, v, h)
  BY ShorterIndices DEF Chain
<1>3. /\ \A i \in 1..Len(r) : /\ i + 1 \in 1..Len(q) /\ r[i] = q[i + 1]
                              /\ IsDelta(r, i, a) <=> IsDelta(q, i + 1, a)
                              /\ IsSnapshot(r, i, a) <=> IsSnapshot(q, i + 1, a)
      /\ \A i, j \in 1..Len(r) : i < j => i + 1 < j + 1
  BY ShorterIndices
<1>4. ASSUME NEW i \in 1..Len(r), NEW j \in 1..Len(r), i < j, IsDelta(r, i, a), IsDelta(r, j, a)
      PROVE  r[i].message.nth < r[j].message.nth
  <2>1. i + 1 \in 1..Len(q) /\ j + 1 \in 1..Len(q) /\ i + 1 < j + 1
    BY <1>3, <1>4
  <2>2. IsDelta(q, i + 1, a) /\ IsDelta(q, j + 1, a) /\ r[i] = q[i + 1] /\ r[j] = q[j + 1]
    BY <1>3, <1>4
  <2>3. q[i + 1].message.nth < q[j + 1].message.nth
    BY <2>1, <2>2 DEF Chain
  <2> QED
    BY <2>2, <2>3
<1>5. ASSUME NEW i \in 1..Len(r), NEW j \in 1..Len(r), i < j, IsDelta(r, i, a) \/ IsSnapshot(r, i, a),
             IsSnapshot(r, j, a)
      PROVE  r[i].message.nth <= r[j].message.nth
  <2>1. i + 1 \in 1..Len(q) /\ j + 1 \in 1..Len(q) /\ i + 1 < j + 1
    BY <1>3, <1>5
  <2>2. /\ IsDelta(q, i + 1, a) \/ IsSnapshot(q, i + 1, a)
        /\ IsSnapshot(q, j + 1, a) /\ r[i] = q[i + 1] /\ r[j] = q[j + 1]
    BY <1>3, <1>5
  <2>3. q[i + 1].message.nth <= q[j + 1].message.nth
    BY <2>1, <2>2 DEF Chain
  <2> QED
    BY <2>2, <2>3
<1> QED
  BY <1>1, <1>2, <1>4, <1>5 DEF Chain

\* What is taken does not bring the book on.
LEMMA TailView ==
  ASSUME NEW q, NEW r, Shorter(q, r), NEW a, NEW b, NEW c, NEW hd, NEW v, NEW h,
         View(b, hd, q, v, h, a), SameDepth(c, b),
         IF b.snapshot_loaded
         THEN /\ c.reason \in {"READY", "BEST_PRICE_PENDING_DEPTH"}
              /\ c.ready <=> c.reason = "READY"
              /\ IsDelta(q, 1, a) => q[1].message.nth <= hd.nth
         ELSE ~c.ready
  PROVE  View(c, hd, r, v, h, a)
<1>1. c.levels = b.levels /\ c.last = b.last /\ c.snapshot_loaded = b.snapshot_loaded
  BY DEF SameDepth
<1>2. CASE ~b.snapshot_loaded
  BY <1>1, <1>2 DEF View
<1>3. CASE b.snapshot_loaded
  <2>1. /\ hd.nth \in 0..v.nth /\ hd.nth \in Int /\ hd.truth = h[hd.nth].truth
        /\ b.levels = h[hd.nth].truth /\ b.last = h[hd.nth].at
        /\ Follows(q, a, 0, hd.nth, SentUpTo(v))
    BY <1>3 DEF View
  <2>2. Follows(r, a, 0, hd.nth, SentUpTo(v))
    BY <1>3, <2>1, HeadFollows
  <2>3. \A i \in 1..Len(r) : IsSnapshot(r, i, a) => hd.nth <= r[i].message.nth
    BY <1>3, ShorterIndices DEF View
  <2>4. (\E i \in 1..Len(r) : IsDelta(r, i, a) /\ r[i].message.nth <= hd.nth)
           => \E i \in 1..Len(q) : IsDelta(q, i, a) /\ q[i].message.nth <= hd.nth
    BY ShorterIndices
  <2> QED
    BY <1>1, <1>3, <2>1, <2>2, <2>3, <2>4 DEF View
<1> QED
  BY <1>2, <1>3

\* What a fresh message makes of the view of its asset.
LEMMA ProcessView ==
  ASSUME NEW q, NEW r, Shorter(q, r), NEW a, NEW b \in Stream!OrderBookState, NEW hd, NEW v,
         NEW h \in Histories, History(v, h), SentUpTo(v) \in Nat, SentUpTo(v) <= v.nth,
         Chain(q, v, h, a), View(b, hd, q, v, h, a),
         NEW m, Sound(m), q[1].kind = "market", q[1].asset = a, q[1].message = m,
         m.event_type = "best_bid_ask" => m.nth = -1,
         NEW g,
         m.nth > hd.nth /\ ~(Stream!Rejected(b, m, "fresh") /\ m.event_type = "book" /\ b.snapshot_loaded)
            => g.nth = m.nth /\ g.truth = m.truth,
         ~(m.nth > hd.nth) => g = hd
  PROVE  \/ /\ ~Stream!Rejected(b, m, "fresh")
            /\ Stream!Apply(b, m, "fresh").reason \in Stream!IntegrityReasons
         \/ View(Stream!Apply(b, m, "fresh"), g, r, v, h, a)
<1> DEFINE after == Stream!Apply(b, m, "fresh")
           hidden == Stream!Rejected(b, m, "fresh")
           bad == ~hidden /\ after.reason \in Stream!IntegrityReasons
           s == SentUpTo(v)
<1> SUFFICES bad \/ View(after, g, r, v, h, a)
  OBVIOUS
<1>1. /\ 1 \in 1..Len(q) /\ Len(q) \in Nat /\ Len(r) \in Nat
      /\ IsDelta(q, 1, a) <=> m.event_type = "price_change"
      /\ IsSnapshot(q, 1, a) <=> m.event_type = "book"
      /\ m.event_type \in {"book", "price_change", "best_bid_ask"}
      /\ m.at \in Nat /\ m.at >= 1 /\ m.nth \in Int
  BY ShorterIndices, SoundFields, StreamConstants DEF IsDelta, IsSnapshot
<1>2. /\ v.nth \in Nat /\ \A j, k \in 0..v.nth : j <= k => h[j].at <= h[k].at
      /\ \A j \in 0..v.nth : h[j].at \in Nat /\ j \in Nat
      /\ \A k \in 1..v.nth : h[k].truth = Stepped(h[k - 1].truth, h[k])
  <2>1. v.nth \in Nat
    BY DEF History
  <2>2. \A j \in Nat : h[j].at \in Nat
    BY DEF Histories, Changes
  <2> QED
    BY <2>1, <2>2 DEF History
<1>3. /\ m.nth > hd.nth /\ ~(hidden /\ m.event_type = "book" /\ b.snapshot_loaded)
            => g.nth = m.nth /\ g.truth = m.truth
      /\ ~(m.nth > hd.nth) => g = hd
      /\ ~hidden /\ after.reason \in Stream!IntegrityReasons => bad
  OBVIOUS
<1>4. ASSUME m.event_type = "best_bid_ask"
      PROVE  /\ ~hidden /\ SameDepth(after, b)
             /\ after.reason \in {"READY", "BEST_PRICE_PENDING_DEPTH"}
             /\ after.ready <=> after.reason = "READY"
             /\ after.ready => b.snapshot_loaded
  BY <1>4, BestEffect
<1>5. ASSUME m.event_type = "book", ~(m.at < b.last)
      PROVE  /\ ~hidden /\ after.levels = m.levels /\ after.last = m.at /\ after.snapshot_loaded
             /\ after.reason \in {"READY", "BEST_PRICE_PENDING_DEPTH", "BEST_PRICE_MISMATCH"}
             /\ after.ready <=> after.reason = "READY"
  BY <1>5, BookEffect
<1>6. ASSUME m.event_type = "price_change",
             b.snapshot_loaded => /\ b.reason \in {"READY", "BEST_PRICE_PENDING_DEPTH"}
                                  /\ b.ready <=> b.reason = "READY"
      PROVE  /\ hidden <=> m.at < b.last
             /\ hidden => after = b
             /\ ~hidden /\ ~b.snapshot_loaded => after.reason \in Stream!IntegrityReasons
             /\ ~hidden /\ b.snapshot_loaded =>
                   \/ after.reason \in Stream!IntegrityReasons
                   \/ /\ after.levels = Stream!ApplyLevel(b.levels, m)
                      /\ after.last = m.at /\ after.snapshot_loaded
                      /\ after.reason \in {"READY", "BEST_PRICE_PENDING_DEPTH"}
                      /\ after.ready <=> after.reason = "READY"
  BY <1>6, DeltaEffect
<1> HIDE DEF after, hidden, bad
<1>7. CASE m.event_type = "best_bid_ask"
  <2>1. g = hd
    <3>1. hd.nth >= -1 /\ hd.nth \in Int
      BY <1>2 DEF View, Stream!Unheard
    <3> QED
      BY <1>1, <1>3, <1>7, <3>1
  <2>2. ~IsDelta(q, 1, a)
    BY <1>1, <1>7
  <2> QED
    BY <1>4, <1>7, <2>1, <2>2, TailView
<1>8. CASE m.event_type = "book"
  <2>1. /\ SnapshotFits(m, v, h) /\ Follows(q, a, 1, m.nth, s)
        /\ \A i \in 1..Len(q) : 1 < i /\ IsSnapshot(q, i, a) => m.nth <= q[i].message.nth
    BY <1>1, <1>8 DEF Chain
  <2>2. /\ m.nth \in 0..v.nth /\ m.at = h[m.nth].at /\ m.levels = h[m.nth].truth
        /\ m.truth = h[m.nth].truth /\ Whole(h, m.nth)
    BY <2>1 DEF SnapshotFits
  <2>3. IF b.snapshot_loaded
        THEN hd.nth \in 0..v.nth /\ hd.nth <= m.nth /\ b.last = h[hd.nth].at /\ hd.truth = h[hd.nth].truth
        ELSE b.last = 0 /\ hd.nth = -1
    BY <1>1, <1>8 DEF View, Stream!Unheard
  <2>4. ~(m.at < b.last)
    <3>1. CASE b.snapshot_loaded
      <4>1. h[hd.nth].at <= h[m.nth].at
        BY <1>2, <2>2, <2>3, <3>1
      <4>2. h[hd.nth].at \in Nat /\ h[m.nth].at \in Nat
        BY <1>2, <2>2, <2>3, <3>1
      <4> QED
        BY <2>2, <2>3, <3>1, <4>1, <4>2
    <3>2. CASE ~b.snapshot_loaded
      BY <1>1, <2>3, <3>2
    <3> QED
      BY <3>1, <3>2
  <2>5. g.nth = m.nth /\ g.truth = h[m.nth].truth
    <3>1. CASE m.nth > hd.nth
      BY <1>3, <1>5, <1>8, <2>2, <2>4, <3>1
    <3>2. CASE ~(m.nth > hd.nth)
      <4>1. b.snapshot_loaded /\ hd.nth = m.nth
        BY <2>2, <2>3, <3>2
      <4> QED
        BY <1>3, <2>3, <3>2, <4>1
    <3> QED
      BY <3>1, <3>2
  <2>6. Follows(r, a, 0, m.nth, s)
    <3>1. Follows(q, a, 0 + 1, m.nth, s)
      BY <2>1
    <3> QED
      BY <3>1, ShorterFollows
  <2>7. \A i \in 1..Len(r) : IsSnapshot(r, i, a) => m.nth <= r[i].message.nth
    <3>1. \A i \in 1..Len(r) : 1 < i + 1
      OBVIOUS
    <3> QED
      BY <2>1, <3>1, ShorterIndices
  <2>8. CASE after.reason = "BEST_PRICE_MISMATCH"
    BY <1>3, <1>5, <1>8, <2>4, <2>8 DEF Stream!IntegrityReasons
  <2>9. CASE after.reason # "BEST_PRICE_MISMATCH"
    BY <1>5, <1>8, <2>2, <2>4, <2>5, <2>6, <2>7, <2>9 DEF View
  <2> QED
    BY <2>8, <2>9
<1>9. CASE m.event_type = "price_change"
  <2>1. /\ m.nth \in 1..v.nth /\ m.nth \in 1..s /\ m.at = h[m.nth].at /\ m.price = h[m.nth].price
        /\ m.rests = h[m.nth].rests /\ m.truth = h[m.nth].truth
    <3>1. DeltaFits(m, v, h)
      BY <1>1, <1>9 DEF Chain
    <3>2. m.nth \in 1..s
      BY <3>1 DEF DeltaFits
    <3>3. m.nth \in 1..v.nth
      BY <1>2, <3>2
    <3> QED
      BY <3>1, <3>2, <3>3 DEF DeltaFits, IsChange
  <2>2. CASE ~b.snapshot_loaded
    <3>1. b.last = 0
      BY <2>2 DEF View
    <3>2. ~(m.at < b.last)
      BY <1>1, <3>1
    <3> QED
      BY <1>3, <1>6, <1>9, <2>2, <3>2
  <2>3. CASE b.snapshot_loaded
    <3>1. /\ hd.nth \in 0..v.nth /\ hd.nth \in Int /\ hd.truth = h[hd.nth].truth
          /\ b.levels = h[hd.nth].truth /\ b.last = h[hd.nth].at
          /\ Follows(q, a, 0, hd.nth, s)
          /\ b.reason \in {"READY", "BEST_PRICE_PENDING_DEPTH"} /\ (b.ready <=> b.reason = "READY")
      BY <1>2, <2>3 DEF View
    <3>2. /\ hidden <=> m.at < b.last
          /\ hidden => after = b
          /\ ~hidden =>
                   \/ after.reason \in Stream!IntegrityReasons
                   \/ /\ after.levels = Stream!ApplyLevel(b.levels, m)
                      /\ after.last = m.at /\ after.snapshot_loaded
                      /\ after.reason \in {"READY", "BEST_PRICE_PENDING_DEPTH"}
                      /\ after.ready <=> after.reason = "READY"
      BY <1>6, <1>9, <2>3, <3>1
    <3>3. /\ h[m.nth].at \in Nat /\ h[hd.nth].at \in Nat
          /\ m.nth <= hd.nth => h[m.nth].at <= h[hd.nth].at
          /\ hd.nth <= m.nth => h[hd.nth].at <= h[m.nth].at
      BY <1>2, <2>1, <3>1
    <3>4. CASE hidden
      <4>1. m.nth <= hd.nth
        BY <2>1, <3>1, <3>2, <3>3, <3>4
      <4>2. g = hd /\ SameDepth(after, b) /\ after = b
        BY <1>3, <2>1, <3>1, <3>2, <3>4, <4>1 DEF SameDepth
      <4> QED
        BY <2>3, <3>1, <4>1, <4>2, TailView
    <3>5. CASE ~hidden /\ after.reason \in Stream!IntegrityReasons
      BY <1>3, <3>5
    <3>6. CASE ~hidden /\ after.reason \notin Stream!IntegrityReasons /\ m.nth <= hd.nth
      <4>1. m.at = b.last
        BY <1>1, <2>1, <3>1, <3>2, <3>3, <3>6
      <4>2. h[m.nth].rests <=> h[m.nth].price \in h[hd.nth].truth
        <5>1. Whole(h, hd.nth)
          BY <1>1, <1>9, <2>3, <3>6 DEF View
        <5>2. m.nth \in 1..hd.nth
          BY <2>1, <3>1, <3>6
        <5> QED
          BY <2>1, <3>1, <4>1, <5>1, <5>2 DEF Whole
      <4>3. Stream!ApplyLevel(b.levels, m) = b.levels
        BY <2>1, <3>1, <4>2 DEF Stream!ApplyLevel
      <4>4. g = hd
        BY <1>3, <2>1, <3>1, <3>6
      <4>5. SameDepth(after, b)
        BY <2>3, <3>2, <3>6, <4>1, <4>3 DEF SameDepth
      <4> QED
        BY <2>3, <3>2, <3>6, <4>4, <4>5, TailView
    <3>7. CASE ~hidden /\ after.reason \notin Stream!IntegrityReasons /\ ~(m.nth <= hd.nth)
      <4>1. m.nth > hd.nth
        BY <1>1, <3>1, <3>7
      <4>2. m.nth = hd.nth + 1
        <5>1. hd.nth + 1 \in (hd.nth + 1)..s
          BY <2>1, <3>1, <4>1
        <5>2. PICK j \in (0 + 1)..Len(q) : IsDelta(q, j, a) /\ q[j].message.nth = hd.nth + 1
          BY <3>1, <5>1 DEF Follows
        <5>3. CASE j = 1
          BY <5>2, <5>3
        <5>4. CASE j # 1
          <6>1. j \in 1..Len(q) /\ 1 < j
            BY <1>1, <5>2, <5>4
          <6>2. m.nth < hd.nth + 1
            BY <1>1, <1>9, <5>2, <6>1 DEF Chain
          <6> QED
            BY <1>1, <3>1, <4>1, <6>2
        <5> QED
          BY <5>3, <5>4
      <4>3. g.nth = m.nth /\ g.truth = h[m.nth].truth
        BY <1>3, <1>9, <2>1, <4>1
      <4>4. after.levels = h[m.nth].truth
        <5>1. m.nth - 1 = hd.nth
          BY <3>1, <4>2
        <5>2. h[m.nth].truth = Stepped(h[hd.nth].truth, h[m.nth])
          BY <1>2, <2>1, <5>1
        <5> QED
          BY <2>1, <3>1, <3>2, <3>7, <5>2 DEF Stepped, Stream!ApplyLevel
      <4>5. Follows(r, a, 0, m.nth, s)
        <5>1. hd.nth <= m.nth
          BY <1>1, <3>1, <4>1
        <5> QED
          BY <1>1, <3>1, <5>1, HeadFollows
      <4>6. \A i \in 1..Len(r) : IsSnapshot(r, i, a) => m.nth <= r[i].message.nth
        <5>1. \A i \in 1..Len(r) : 1 < i + 1
          OBVIOUS
        <5>2. \A i \in 1..Len(q) : 1 < i /\ IsSnapshot(q, i, a) => m.nth <= q[i].message.nth
          BY <1>1, <1>9 DEF Chain
        <5> QED
          BY <5>1, <5>2, ShorterIndices
      <4>7. ~(s < m.nth) /\ m.nth \in 0..v.nth
        BY <1>2, <2>1
      <4>8. \A i \in 1..Len(r) : ~(IsDelta(r, i, a) /\ r[i].message.nth <= m.nth)
        <5> SUFFICES ASSUME NEW i \in 1..Len(r), IsDelta(r, i, a) PROVE ~(r[i].message.nth <= m.nth)
          OBVIOUS
        <5>1. i + 1 \in 1..Len(q) /\ 1 < i + 1 /\ IsDelta(q, i + 1, a) /\ r[i] = q[i + 1]
          BY ShorterIndices
        <5>2. m.nth < q[i + 1].message.nth /\ DeltaFits(q[i + 1].message, v, h)
          BY <1>1, <1>9, <5>1 DEF Chain
        <5>3. q[i + 1].message.nth \in Int
          BY <5>2 DEF DeltaFits
        <5> QED
          BY <1>1, <5>1, <5>2, <5>3
      <4> QED
        BY <2>1, <3>2, <3>7, <4>3, <4>4, <4>5, <4>6, <4>7, <4>8 DEF View
    <3> QED
      BY <3>4, <3>5, <3>6, <3>7
  <2> QED
    BY <2>2, <2>3
<1> QED
  BY <1>1, <1>7, <1>8, <1>9


-----------------------------------------------------------------------------
(* The connection, its subscriptions and its loop *)

Rest == Assets \ Stream!Current

\* The wanted assets change twice at most.  A connection is subscribed to the
\* first market until the loop has dropped it, and never again.
ControlInv ==
    /\ wanted \in {Stream!Current, Assets, Rest} /\ wanted # {}
    /\ wanted = Stream!Current => conn.subscribed \subseteq Stream!Current /\ loop.pc = "sleep"
    /\ conn.at # "down" => /\ conn.subscribed # {}
                           /\ \/ Stream!Current \subseteq conn.subscribed
                              \/ wanted = Rest /\ conn.subscribed = Rest
    /\ loop.pc # "sleep" =>
          /\ conn.at = "up" /\ Stream!Current \subseteq conn.subscribed
          /\ loop.add \cap Stream!Current = {}
          /\ loop.wanted \in {Assets, Rest} /\ loop.wanted # {}
          /\ loop.wanted = Rest => wanted = Rest
    /\ loop.pc = "refresh" => loop.add \cap conn.subscribed = {}

About(i, a) == queue[i].kind = "market" /\ queue[i].asset = a

\* The exchange speaks of what it was asked for, and only on a connection.
QuietInv ==
    /\ conn.at # "up" => \A a \in Assets : ~exchange[a].listens
    /\ \A a \in Rest : exchange[a].listens => \/ a \in conn.subscribed
                                              \/ loop.pc = "sent" /\ a \in loop.add
    /\ \A a \in Rest : ~exchange[a].listens => \A i \in 1..Len(queue) : ~About(i, a)
    /\ \A i \in 1..Len(queue) :
          queue[i].kind = "market" /\ queue[i].message.event_type = "best_bid_ask"
             => queue[i].message.nth = -1

Blank(a) == books[a] = Stream!Cleared /\ heard[a] = Stream!Unheard

\* Nothing is known of an asset that is not subscribed, nor of any asset while
\* there is no connection or it is to be resynchronised.
BlankInv ==
    /\ conn.at # "up" \/ conn.resync => \A a \in Assets : Blank(a)
    /\ \A a \in Assets \ conn.subscribed : Blank(a)
    /\ conn.resync => ~conn.reading

ReaderInv == StreamInv /\ ControlInv /\ QuietInv /\ BlankInv

-----------------------------------------------------------------------------
(* What the steps do to the connection *)

SameSubscription ==
    UNCHANGED <<wanted, loop, world>> /\ conn'.at = conn.at /\ conn'.subscribed = conn.subscribed

LEMMA EnqueueKinds ==
  ASSUME StreamInv, NEW frame, Stream!Enqueue(frame)
  PROVE  /\ conn.reading /\ conn.at = "up" /\ SameSubscription
         /\ \/ /\ queue' = Append(queue, frame)
               /\ UNCHANGED <<conn, books, heard, advertised>>
            \/ /\ queue' = Stream!Saturated(frame) /\ Stream!MarkNotReady
               /\ conn'.resync = TRUE /\ conn'.reading = FALSE
<1>1. conn \in Connections /\ conn.reading /\ conn.at = "up" /\ UNCHANGED <<wanted, loop, world>>
  BY DEF StreamInv, VenueTypes, QueueTypes, Stream!Enqueue
<1>2. \/ queue' = Append(queue, frame) /\ UNCHANGED <<conn, books, heard, advertised>>
      \/ /\ queue' = Stream!Saturated(frame) /\ Stream!MarkNotReady
         /\ conn' = [conn EXCEPT !.resync = TRUE, !.reading = FALSE]
  BY DEF Stream!Enqueue, Stream!data
<1>3. CASE queue' = Append(queue, frame) /\ UNCHANGED <<conn, books, heard, advertised>>
  BY <1>1, <1>3 DEF SameSubscription
<1>4. CASE /\ queue' = Stream!Saturated(frame) /\ Stream!MarkNotReady
           /\ conn' = [conn EXCEPT !.resync = TRUE, !.reading = FALSE]
  <2>1. /\ conn'.resync = TRUE /\ conn'.reading = FALSE /\ conn'.at = conn.at
        /\ conn'.subscribed = conn.subscribed
    BY <1>1, <1>4 DEF Connections
  <2> QED
    BY <1>1, <1>4, <2>1 DEF SameSubscription
<1> QED
  BY <1>2, <1>3, <1>4

LEMMA DialKinds ==
  ASSUME StreamInv, Stream!Dial
  PROVE  /\ conn.at = "down" /\ conn'.at = "dialing" /\ conn'.subscribed = wanted
         /\ conn'.reading = conn.reading /\ conn'.resync = conn.resync
         /\ UNCHANGED <<exchange, wanted, queue, loop, books, heard, advertised, world>>
<1>1. conn \in Connections
  BY DEF StreamInv, VenueTypes
<1>2. conn.at = "down" /\ conn' = [conn EXCEPT !.at = "dialing", !.subscribed = wanted]
  BY DEF Stream!Dial
<1>3. /\ conn'.at = "dialing" /\ conn'.subscribed = wanted
      /\ conn'.reading = conn.reading /\ conn'.resync = conn.resync
  BY <1>1, <1>2 DEF Connections
<1>4. UNCHANGED <<exchange, wanted, queue, loop, books, heard, advertised, world>>
  BY DEF Stream!Dial, Stream!data
<1> QED
  BY <1>2, <1>3, <1>4

LEMMA ConnectKinds ==
  ASSUME StreamInv, Stream!Connect
  PROVE  /\ conn.at = "dialing" /\ conn'.at = "up" /\ conn'.subscribed = conn.subscribed
         /\ conn'.resync = FALSE /\ Stream!MarkNotReady
         /\ exchange' = Stream!Listening(conn.subscribed)
         /\ queue = <<>> /\ UNCHANGED <<wanted, queue, loop, world>>
<1>1. conn \in Connections
  BY DEF StreamInv, VenueTypes
<1>2. /\ conn.at = "dialing" /\ Stream!MarkNotReady /\ exchange' = Stream!Listening(conn.subscribed)
      /\ UNCHANGED <<wanted, queue, loop, world>>
  BY DEF Stream!Connect
<1>3. conn'.at = "up" /\ conn'.subscribed = conn.subscribed /\ conn'.resync = FALSE
  <2> DEFINE gated == "gated" \in world
  <2>1. conn' = [conn EXCEPT !.at = "up", !.reading = TRUE, !.resync = FALSE, !.gate = gated]
    BY DEF Stream!Connect
  <2> HIDE DEF gated
  <2> QED
    BY <1>1, <2>1 DEF Connections
<1>4. queue = <<>>
  BY <1>2 DEF StreamInv, QueueTypes
<1> QED
  BY <1>2, <1>3, <1>4

LEMMA DisconnectKinds ==
  ASSUME Stream!Disconnect
  PROVE  /\ conn'.at = "down" /\ conn'.subscribed = {} /\ conn'.resync = FALSE /\ conn'.reading = FALSE
         /\ loop'.pc = "sleep" /\ queue' = <<>> /\ exchange' = Stream!Deaf(Assets)
         /\ Stream!MarkNotReady /\ UNCHANGED <<wanted, world>>
  BY DEF Stream!Disconnect, Stream!Down, Stream!Resting

\* The connection ends, its gate opens or its wait is over.
LEMMA GateKinds ==
  ASSUME StreamInv, Stream!Cut \/ Stream!ReconciliationEnds \/ Stream!LoopTimesOut
  PROVE  /\ SameSubscription /\ conn'.resync = conn.resync
         /\ conn'.reading => conn.reading
         /\ UNCHANGED <<exchange, queue, books, heard, advertised>>
<1>1. conn \in Connections
  BY DEF StreamInv, VenueTypes
<1>2. \/ conn' = [conn EXCEPT !.reading = FALSE] \/ conn' = [conn EXCEPT !.gate = FALSE]
  BY DEF Stream!Cut, Stream!ReconciliationEnds, Stream!LoopTimesOut
<1>3. /\ conn'.at = conn.at /\ conn'.subscribed = conn.subscribed /\ conn'.resync = conn.resync
      /\ conn'.reading => conn.reading
  BY <1>1, <1>2 DEF Connections
<1>4. UNCHANGED <<exchange, wanted, queue, loop, books, heard, advertised, world>>
  BY DEF Stream!Cut, Stream!ReconciliationEnds, Stream!LoopTimesOut, Stream!data
<1> QED
  BY <1>3, <1>4 DEF SameSubscription


LEMMA BlankAfter == Stream!MarkNotReady => \A a \in Assets : Blank(a)'
  BY DEF Stream!MarkNotReady, Blank

\* A message is skipped, or it fails, or it makes one book.
LEMMA ProcessKinds ==
  ASSUME StreamInv, Stream!Process
  PROVE  /\ queue # <<>> /\ queue' = Tail(queue) /\ queue[1] = Head(queue)
         /\ queue[1].kind = "market" /\ queue[1].asset \in Assets /\ Sound(queue[1].message)
         /\ conn.at = "up" /\ SameSubscription /\ exchange' = exchange
         /\ \/ /\ conn.resync \/ queue[1].asset \notin conn.subscribed
               /\ UNCHANGED <<conn, books, heard>>
            \/ /\ ~conn.resync /\ queue[1].asset \in conn.subscribed
               /\ \E verdict \in Stream!Verdicts \cap (world \cup {"fresh"}) :
                     Stream!ProcessMessage(queue[1].asset, queue[1].message, verdict)
               /\ \/ conn'.resync = TRUE /\ conn'.reading = FALSE /\ Stream!MarkNotReady
                  \/ /\ conn' = conn
                     /\ \A c \in Assets : c # queue[1].asset =>
                           /\ books'[c] = Stream!Ensured(conn.subscribed)[c]
                           /\ heard'[c] = heard[c]
<1> DEFINE f == Head(queue)
<1>1. /\ conn.at = "up" /\ queue # <<>> /\ f.kind = "market" /\ queue' = Tail(queue)
      /\ UNCHANGED <<exchange, wanted, loop, world>>
      /\ \/ (conn.resync \/ f.asset \notin conn.subscribed) /\ UNCHANGED <<conn, books, heard>>
         \/ /\ ~conn.resync /\ f.asset \in conn.subscribed
            /\ \E verdict \in Stream!Verdicts \cap (world \cup {"fresh"}) :
                  Stream!ProcessMessage(f.asset, f.message, verdict)
  BY DEF Stream!Process, Stream!data
<1>2. /\ conn \in Connections /\ books \in [Assets -> Stream!OrderBookState]
      /\ heard \in [Assets -> Heard] /\ queue \in Seq(StreamFrames)
  BY DEF StreamInv, VenueTypes, ViewTypes, QueueTypes
<1>3. f \in StreamFrames /\ f = queue[1]
  BY <1>1, <1>2, HeadTailProperties
<1>4. f.asset \in Assets /\ Sound(f.message)
  BY <1>1, <1>3, FrameKinds
<1> HIDE DEF f
<1>5. CASE (conn.resync \/ f.asset \notin conn.subscribed) /\ UNCHANGED <<conn, books, heard>>
  BY <1>1, <1>3, <1>4, <1>5 DEF f, SameSubscription
<1>6. ASSUME ~conn.resync, f.asset \in conn.subscribed,
             NEW verdict \in Stream!Verdicts \cap (world \cup {"fresh"}),
             Stream!ProcessMessage(f.asset, f.message, verdict)
      PROVE  /\ conn'.at = conn.at /\ conn'.subscribed = conn.subscribed
             /\ \/ conn'.resync = TRUE /\ conn'.reading = FALSE /\ Stream!MarkNotReady
                \/ /\ conn' = conn
                   /\ \A c \in Assets : c # f.asset =>
                         /\ books'[c] = Stream!Ensured(conn.subscribed)[c]
                         /\ heard'[c] = heard[c]
  <2> DEFINE before == Stream!Ensured(conn.subscribed)
  <2>1. before \in [Assets -> Stream!OrderBookState]
    BY <1>2, ClearedType DEF Stream!Ensured
  <2>2. \/ conn' = [conn EXCEPT !.resync = TRUE, !.reading = FALSE] /\ Stream!MarkNotReady
        \/ /\ conn' = conn /\ \E after : books' = [before EXCEPT ![f.asset] = after]
           /\ \E g : heard' = [heard EXCEPT ![f.asset] = g]
    BY <1>6 DEF Stream!ProcessMessage
  <2> HIDE DEF before
  <2>3. CASE conn' = [conn EXCEPT !.resync = TRUE, !.reading = FALSE] /\ Stream!MarkNotReady
    <3>1. /\ conn'.resync = TRUE /\ conn'.reading = FALSE /\ conn'.at = conn.at
          /\ conn'.subscribed = conn.subscribed
      BY <1>2, <2>3 DEF Connections
    <3> QED
      BY <2>3, <3>1
  <2>4. CASE /\ conn' = conn /\ \E after : books' = [before EXCEPT ![f.asset] = after]
             /\ \E g : heard' = [heard EXCEPT ![f.asset] = g]
    <3>1. \A c \in Assets : c # f.asset => books'[c] = before[c]
      BY <2>1, <2>4
    <3>2. \A c \in Assets : c # f.asset => heard'[c] = heard[c]
      BY <1>2, <2>4
    <3> QED
      BY <2>4, <3>1, <3>2 DEF before
  <2> QED
    BY <2>2, <2>3, <2>4
<1> QED
  BY <1>1, <1>3, <1>4, <1>5, <1>6 DEF f, SameSubscription

\* The steps of the loop.
LEMMA LoopKinds ==
  ASSUME StreamInv
  PROVE  /\ Stream!LoopWakes =>
               /\ conn.reading /\ conn.at = "up" /\ loop.pc = "sleep" /\ wanted # conn.subscribed
               /\ loop'.pc \in {"refresh", "drop"} /\ loop'.add = wanted \ conn.subscribed
               /\ loop'.wanted = wanted
               /\ books' = Stream!Ensured(conn.subscribed \cup (wanted \ conn.subscribed))
               /\ UNCHANGED <<exchange, wanted, conn, queue, heard, world>>
         /\ Stream!LoopSubscribes =>
               /\ conn.reading /\ conn.at = "up" /\ loop.pc = "refresh" /\ loop'.pc = "sent"
               /\ loop'.add = loop.add /\ loop'.wanted = loop.wanted
               /\ exchange' = Stream!Listening(loop.add)
               /\ UNCHANGED <<wanted, conn, queue, books, heard, world>>
         /\ Stream!LoopNotes =>
               /\ conn.reading /\ conn.at = "up" /\ loop.pc = "sent" /\ loop'.pc = "wait"
               /\ loop'.add = loop.add /\ loop'.wanted = loop.wanted
               /\ conn'.subscribed = conn.subscribed \cup loop.add /\ conn'.at = conn.at
               /\ conn'.resync = conn.resync /\ conn'.reading = conn.reading
               /\ UNCHANGED <<exchange, wanted, queue, books, heard, world>>
         /\ Stream!LoopReady =>
               /\ loop.pc = "wait" /\ loop'.pc = "drop" /\ conn.at = "up"
               /\ loop'.add = loop.add /\ loop'.wanted = loop.wanted
               /\ UNCHANGED <<exchange, wanted, conn, queue, books, heard, world>>
         /\ Stream!LoopFinishes =>
               /\ conn.reading /\ conn.at = "up" /\ loop.pc = "drop" /\ loop'.pc = "sleep"
               /\ conn'.subscribed = loop.wanted /\ conn'.at = conn.at
               /\ conn'.resync = conn.resync /\ conn'.reading = conn.reading
               /\ exchange' = Stream!Deaf(conn.subscribed \ loop.wanted)
               /\ books' = Stream!Ensured(loop.wanted)
               /\ heard' = [a \in Assets |-> IF a \in loop.wanted THEN heard[a] ELSE Stream!Unheard]
               /\ UNCHANGED <<wanted, queue, world>>
<1>1. conn \in Connections /\ loop \in Loops /\ (conn.reading => conn.at = "up")
  BY DEF StreamInv, VenueTypes, QueueTypes
<1>2. ASSUME Stream!LoopWakes
      PROVE  /\ loop'.pc \in {"refresh", "drop"} /\ loop'.add = wanted \ conn.subscribed
             /\ loop'.wanted = wanted
  BY <1>2 DEF Stream!LoopWakes
<1>3. ASSUME Stream!LoopSubscribes
      PROVE  loop'.pc = "sent" /\ loop'.add = loop.add /\ loop'.wanted = loop.wanted
  BY <1>1, <1>3 DEF Stream!LoopSubscribes, Loops
<1>4. ASSUME Stream!LoopNotes
      PROVE  /\ loop'.pc = "wait" /\ loop'.add = loop.add /\ loop'.wanted = loop.wanted
             /\ conn'.subscribed = conn.subscribed \cup loop.add /\ conn'.at = conn.at
             /\ conn'.resync = conn.resync /\ conn'.reading = conn.reading
  <2>1. loop'.pc = "wait" /\ loop'.add = loop.add /\ loop'.wanted = loop.wanted
    BY <1>1, <1>4 DEF Stream!LoopNotes, Loops
  <2>2. conn' = [conn EXCEPT !.subscribed = conn.subscribed \cup loop.add]
    BY <1>4 DEF Stream!LoopNotes
  <2>3. /\ conn'.subscribed = conn.subscribed \cup loop.add /\ conn'.at = conn.at
        /\ conn'.resync = conn.resync /\ conn'.reading = conn.reading
    BY <1>1, <2>2 DEF Connections
  <2> QED
    BY <2>1, <2>3
<1>5. ASSUME Stream!LoopReady
      PROVE  loop'.pc = "drop" /\ loop'.add = loop.add /\ loop'.wanted = loop.wanted
  BY <1>1, <1>5 DEF Stream!LoopReady, Loops
<1>6. ASSUME Stream!LoopFinishes
      PROVE  /\ loop'.pc = "sleep" /\ conn'.subscribed = loop.wanted /\ conn'.at = conn.at
             /\ conn'.resync = conn.resync /\ conn'.reading = conn.reading
  <2>1. loop'.pc = "sleep"
    BY <1>6 DEF Stream!LoopFinishes, Stream!Resting
  <2>2. conn' = [conn EXCEPT !.subscribed = loop.wanted]
    BY <1>6 DEF Stream!LoopFinishes
  <2>3. /\ conn'.subscribed = loop.wanted /\ conn'.at = conn.at
        /\ conn'.resync = conn.resync /\ conn'.reading = conn.reading
    BY <1>1, <2>2 DEF Connections
  <2> QED
    BY <2>1, <2>3
<1>7. Stream!LoopWakes => /\ conn.reading /\ loop.pc = "sleep" /\ wanted # conn.subscribed
         /\ books' = Stream!Ensured(conn.subscribed \cup (wanted \ conn.subscribed))
         /\ UNCHANGED <<exchange, wanted, conn, queue, heard, world>>
  BY DEF Stream!LoopWakes
<1>8. Stream!LoopSubscribes =>
         /\ conn.reading /\ loop.pc = "refresh" /\ exchange' = Stream!Listening(loop.add)
         /\ UNCHANGED <<wanted, conn, queue, books, heard, world>>
  BY DEF Stream!LoopSubscribes, Stream!data
<1>9. Stream!LoopNotes => /\ conn.reading /\ loop.pc = "sent"
                          /\ UNCHANGED <<exchange, wanted, queue, books, heard, world>>
  BY DEF Stream!LoopNotes, Stream!data
<1>10. Stream!LoopReady => /\ conn.reading /\ loop.pc = "wait"
                           /\ UNCHANGED <<exchange, wanted, conn, queue, books, heard, world>>
  BY DEF Stream!LoopReady, Stream!data
<1>11. Stream!LoopFinishes =>
         /\ conn.reading /\ loop.pc = "drop"
         /\ exchange' = Stream!Deaf(conn.subscribed \ loop.wanted)
         /\ books' = Stream!Ensured(loop.wanted)
         /\ heard' = [a \in Assets |-> IF a \in loop.wanted THEN heard[a] ELSE Stream!Unheard]
         /\ UNCHANGED <<wanted, queue, world>>
  BY DEF Stream!LoopFinishes
<1> QED
  BY <1>1, <1>2, <1>3, <1>4, <1>5, <1>6, <1>7, <1>8, <1>9, <1>10, <1>11


\* The exchange sends of what is subscribed.
LEMMA SendKinds ==
  ASSUME StreamInv, NEW a \in Assets,
         \/ Stream!SendBook(a) \/ Stream!SendBookAgain(a) \/ Stream!SendDelta(a)
         \/ Stream!SendBest(a)
  PROVE  /\ exchange[a].listens /\ \A b \in Assets : exchange'[b].listens = exchange[b].listens
         /\ \E m : /\ Stream!Enqueue(Stream!Frame(a, m)) /\ Sound(m)
                   /\ m.event_type = "best_bid_ask" => m.nth = -1
<1>1. exchange \in [Assets -> Venues] /\ exchange[a] \in Venues
  BY DEF StreamInv, VenueTypes
<1>2. CASE Stream!SendBook(a)
  <2>1. /\ Stream!Enqueue(Stream!Frame(a, Stream!SnapshotOf(exchange[a]))) /\ exchange[a].listens
        /\ exchange' = [exchange EXCEPT ![a] = [exchange[a] EXCEPT !.snapshot = TRUE]]
    BY <1>2 DEF Stream!SendBook
  <2>2. [exchange[a] EXCEPT !.snapshot = TRUE].listens = exchange[a].listens
    BY <1>1 DEF Venues
  <2>3. \A b \in Assets : exchange'[b].listens = exchange[b].listens
    BY <1>1, <2>1, <2>2
  <2>4. Stream!SnapshotOf(exchange[a]).event_type # "best_bid_ask"
    BY DEF Stream!SnapshotOf
  <2> QED
    BY <1>1, <2>1, <2>3, <2>4, SnapshotSound
<1>3. CASE Stream!SendBookAgain(a)
  <2>1. /\ Stream!Enqueue(Stream!Frame(a, Stream!SnapshotOf(exchange[a]))) /\ exchange[a].listens
        /\ exchange' = exchange
    BY <1>3 DEF Stream!SendBookAgain
  <2>2. Stream!SnapshotOf(exchange[a]).event_type # "best_bid_ask"
    BY DEF Stream!SnapshotOf
  <2> QED
    BY <1>1, <2>1, <2>2, SnapshotSound
<1>4. CASE Stream!SendDelta(a)
  <2> DEFINE c == Head(exchange[a].owed)
  <2>1. c \in Deltas
    <3>1. exchange[a].owed \in Seq(Deltas) /\ exchange[a].owed # <<>>
      BY <1>1, <1>4, VenueFields DEF Stream!SendDelta
    <3> QED
      BY <3>1, HeadTailProperties
  <2>2. PICK best \in {c.best, Stream!NotAdvertised}, bad \in {FALSE, "malformed" \in world} :
          Stream!Enqueue(Stream!Frame(a, Stream!DeltaOf(c, best, bad)))
    BY <1>4 DEF Stream!SendDelta
  <2>3. /\ exchange' = [exchange EXCEPT ![a] = [exchange[a] EXCEPT !.owed = Tail(exchange[a].owed)]]
        /\ exchange[a].listens
    BY <1>4 DEF Stream!SendDelta
  <2>4. [exchange[a] EXCEPT !.owed = Tail(exchange[a].owed)].listens = exchange[a].listens
    BY <1>1 DEF Venues
  <2>5. \A b \in Assets : exchange'[b].listens = exchange[b].listens
    BY <1>1, <2>3, <2>4
  <2>6. bad \in BOOLEAN
    <3>1. ("malformed" \in world) \in BOOLEAN
      OBVIOUS
    <3> QED
      BY <3>1
  <2>7. Stream!DeltaOf(c, best, bad).event_type # "best_bid_ask"
    BY DEF Stream!DeltaOf
  <2> HIDE DEF c
  <2>8. Sound(Stream!DeltaOf(c, best, bad))
    BY <2>1, <2>2, <2>6, DeltaSound
  <2> QED
    BY <2>2, <2>3, <2>5, <2>7, <2>8
<1>5. CASE Stream!SendBest(a)
  <2>1. /\ Stream!Enqueue(Stream!Frame(a, Stream!BestOf(exchange[a]))) /\ exchange[a].listens
        /\ exchange' = exchange
    BY <1>5 DEF Stream!SendBest
  <2>2. Stream!BestOf(exchange[a]).nth = -1
    BY DEF Stream!BestOf
  <2> QED
    BY <1>1, <2>1, <2>2, BestSound
<1> QED
  BY <1>2, <1>3, <1>4, <1>5

\* The market changes, or what is wanted of it.
LEMMA MarketKinds ==
  ASSUME StreamInv, (\E a \in Assets : Stream!Trade(a) \/ Stream!Omit(a)) \/ Stream!Rotate
  PROVE  /\ UNCHANGED <<conn, queue, loop, books, heard, world>>
         /\ \A b \in Assets : exchange'[b].listens = exchange[b].listens
         /\ Stream!Rotate \/ wanted' = wanted
<1>1. exchange \in [Assets -> Venues]
  BY DEF StreamInv, VenueTypes
<1>2. CASE Stream!Rotate
  BY <1>2 DEF Stream!Rotate, Stream!data
<1>3. ASSUME NEW a \in Assets, Stream!Omit(a)
      PROVE  /\ UNCHANGED <<conn, queue, loop, books, heard, world, wanted>>
             /\ \A b \in Assets : exchange'[b].listens = exchange[b].listens
  <2>1. /\ exchange' = [exchange EXCEPT ![a] = [exchange[a] EXCEPT !.owed = Tail(exchange[a].owed)]]
        /\ UNCHANGED <<conn, queue, loop, books, heard, world, wanted>>
    BY <1>3 DEF Stream!Omit, Stream!data
  <2>2. [exchange[a] EXCEPT !.owed = Tail(exchange[a].owed)].listens = exchange[a].listens
    BY <1>1 DEF Venues
  <2> QED
    BY <1>1, <2>1, <2>2
<1>4. ASSUME NEW a \in Assets, Stream!Trade(a)
      PROVE  /\ UNCHANGED <<conn, queue, loop, books, heard, world, wanted>>
             /\ \A b \in Assets : exchange'[b].listens = exchange[b].listens
  <2>1. PICK l, k, n, o : exchange' = [exchange EXCEPT ![a] =
          [exchange[a] EXCEPT !.levels = l, !.clock = k, !.nth = n, !.owed = o]]
    BY <1>4 DEF Stream!Trade
  <2>2. [exchange[a] EXCEPT !.levels = l, !.clock = k, !.nth = n, !.owed = o].listens = exchange[a].listens
    BY <1>1 DEF Venues
  <2>3. UNCHANGED <<conn, queue, loop, books, heard, world, wanted>>
    BY <1>4 DEF Stream!Trade, Stream!data
  <2> QED
    BY <1>1, <2>1, <2>2, <2>3
<1> QED
  BY <1>2, <1>3, <1>4

LEMMA ResolutionKinds ==
  ASSUME StreamInv, Stream!SendResolution
  PROVE  Stream!Enqueue(ResolutionFrame) /\ exchange' = exchange
  BY DEF Stream!SendResolution, ResolutionFrame

LEMMA StoreKinds ==
  ASSUME StreamInv, Stream!ProcessResolution
  PROVE  /\ queue # <<>> /\ queue' = Tail(queue) /\ queue[1] = Head(queue)
         /\ queue[1].kind # "market"
         /\ UNCHANGED <<exchange, wanted, conn, loop, books, heard, world>>
<1>1. /\ queue # <<>> /\ queue' = Tail(queue) /\ Head(queue).kind = Stream!Resolved
      /\ UNCHANGED <<exchange, wanted, conn, loop, books, heard, world>>
  BY DEF Stream!ProcessResolution, Stream!data
<1>2. queue[1] = Head(queue)
  BY <1>1, HeadTailProperties DEF StreamInv, QueueTypes
<1> QED
  BY <1>1, <1>2 DEF Stream!Resolved

-----------------------------------------------------------------------------
LEMMA SubscribedAssets ==
  ASSUME StreamInv
  PROVE  /\ conn.subscribed \in SUBSET Assets /\ loop.add \in SUBSET Assets
         /\ loop.wanted \in SUBSET Assets /\ conn.at \in {"down", "dialing", "up"}
         /\ loop.pc \in {"sleep", "refresh", "sent", "wait", "drop"} /\ wanted \in SUBSET Assets
         /\ conn.reading => conn.at = "up"
         /\ Stream!Current \subseteq Assets /\ Stream!Current # {}
<1>1. Stream!Min(Assets) \in Assets
  <2>1. PICK m \in Assets : \A n \in Assets : m <= n
    BY StreamConstants, LeastNatural
  <2> QED
    BY <2>1 DEF Stream!Min
<1> QED
  BY <1>1 DEF StreamInv, VenueTypes, QueueTypes, Connections, Loops, Stream!Current

LEMMA SameControl ==
  ASSUME ControlInv, SameSubscription
  PROVE  ControlInv'
  BY DEF ControlInv, SameSubscription, Rest, Stream!Current

LEMMA ControlNext ==
  ASSUME StreamInv, ControlInv, Stream!Next
  PROVE  ControlInv'
<1>1. /\ conn.subscribed \in SUBSET Assets /\ loop.add \in SUBSET Assets
      /\ wanted \in SUBSET Assets /\ conn.at \in {"down", "dialing", "up"}
      /\ Stream!Current \subseteq Assets /\ Stream!Current # {}
  BY SubscribedAssets
<1>2. CASE \E a \in Assets : Stream!SendBook(a) \/ Stream!SendBookAgain(a) \/ Stream!SendDelta(a)
                                \/ Stream!SendBest(a)
  BY <1>2, SendKinds, EnqueueKinds, SameControl
<1>3. CASE Stream!SendResolution
  BY <1>3, ResolutionKinds, EnqueueKinds, SameControl
<1>4. CASE Stream!Rotate
  <2>1. UNCHANGED <<conn, loop>>
    BY <1>4, MarketKinds
  <2>2. /\ wanted \in {Stream!Current, Assets} /\ wanted' # {}
        /\ wanted' = IF wanted = Stream!Current /\ wanted # Assets THEN Assets ELSE Rest
    BY <1>4 DEF Stream!Rotate, Rest
  <2>3. wanted # Rest /\ wanted' # Stream!Current
    BY <1>1, <2>2 DEF Rest
  <2> QED
    BY <1>1, <2>1, <2>2, <2>3 DEF ControlInv, Rest, Stream!Current
<1>5. CASE \E a \in Assets : Stream!Trade(a) \/ Stream!Omit(a)
  <2>1. CASE Stream!Rotate
    BY <1>4, <2>1
  <2>2. CASE ~Stream!Rotate
    BY <1>5, <2>2, MarketKinds, SameControl DEF SameSubscription
  <2> QED
    BY <2>1, <2>2
<1>6. CASE Stream!Dial
  BY <1>1, <1>6, DialKinds DEF ControlInv, Rest, Stream!Current
<1>7. CASE Stream!Connect
  BY <1>1, <1>7, ConnectKinds DEF ControlInv, Rest, Stream!Current
<1>8. CASE Stream!Cut \/ Stream!ReconciliationEnds \/ Stream!LoopTimesOut
  BY <1>8, GateKinds, SameControl
<1>9. CASE Stream!ReconciliationRaises \/ Stream!PipelineEnds
  <2>1. Stream!Disconnect
    BY <1>9 DEF Stream!ReconciliationRaises, Stream!PipelineEnds
  <2> QED
    BY <1>1, <2>1, DisconnectKinds DEF ControlInv, Rest, Stream!Current
<1>10. CASE Stream!Process
  BY <1>10, ProcessKinds, SameControl
<1>11. CASE Stream!ProcessResolution
  BY <1>11, StoreKinds, SameControl DEF SameSubscription
<1>12. CASE Stream!LoopWakes
  <2>1. /\ conn.at = "up" /\ loop.pc = "sleep" /\ wanted # conn.subscribed
        /\ loop'.pc \in {"refresh", "drop"} /\ loop'.add = wanted \ conn.subscribed
        /\ loop'.wanted = wanted /\ UNCHANGED <<wanted, conn>>
    BY <1>12, LoopKinds
  <2>2. wanted # Stream!Current /\ Stream!Current \subseteq conn.subscribed
    BY <1>1, <2>1 DEF ControlInv, Rest
  <2> QED
    BY <1>1, <2>1, <2>2 DEF ControlInv, Rest, Stream!Current
<1>13. CASE Stream!LoopSubscribes \/ Stream!LoopReady
  <2>1. /\ loop.pc \in {"refresh", "wait"} /\ loop'.pc \in {"sent", "drop"} /\ conn.at = "up"
        /\ loop'.add = loop.add /\ loop'.wanted = loop.wanted /\ UNCHANGED <<wanted, conn>>
    BY <1>13, LoopKinds
  <2> QED
    BY <1>1, <2>1 DEF ControlInv, Rest, Stream!Current
<1>14. CASE Stream!LoopNotes
  <2>1. /\ loop.pc = "sent" /\ loop'.pc = "wait" /\ conn.at = "up" /\ conn'.at = conn.at
        /\ loop'.add = loop.add /\ loop'.wanted = loop.wanted /\ wanted' = wanted
        /\ conn'.subscribed = conn.subscribed \cup loop.add
    BY <1>14, LoopKinds
  <2> QED
    BY <1>1, <2>1 DEF ControlInv, Rest, Stream!Current
<1>15. CASE Stream!LoopFinishes
  <2>1. /\ loop.pc = "drop" /\ loop'.pc = "sleep" /\ conn.at = "up" /\ conn'.at = conn.at
        /\ wanted' = wanted /\ conn'.subscribed = loop.wanted
    BY <1>15, LoopKinds
  <2> QED
    BY <1>1, <2>1 DEF ControlInv, Rest, Stream!Current
<1> QED
  BY <1>2, <1>3, <1>4, <1>5, <1>6, <1>7, <1>8, <1>9, <1>10, <1>11, <1>12, <1>13, <1>14, <1>15
     DEF Stream!Next


LEMMA BlankNext ==
  ASSUME StreamInv, BlankInv, Stream!Next
  PROVE  BlankInv'
<1>1. /\ conn.subscribed \in SUBSET Assets /\ loop.add \in SUBSET Assets
      /\ wanted \in SUBSET Assets /\ loop.wanted \in SUBSET Assets
      /\ conn.at \in {"down", "dialing", "up"}
  BY SubscribedAssets
<1>2. ASSUME \A a \in Assets : Blank(a)', conn'.resync => ~conn'.reading PROVE BlankInv'
  BY <1>2 DEF BlankInv
<1>3. ASSUME UNCHANGED <<books, heard>>, conn'.at = "up" => conn.at = "up" \/ \A a \in Assets : Blank(a),
             conn'.at # "up" => conn.at # "up", conn.subscribed \subseteq conn'.subscribed \/ conn.at # "up",
             conn'.resync = conn.resync, conn'.reading => conn.reading
      PROVE  BlankInv'
  <2>1. \A a \in Assets : Blank(a)' <=> Blank(a)
    BY <1>3 DEF Blank
  <2> QED
    BY <1>3, <2>1 DEF BlankInv
<1>4. ASSUME NEW frame, Stream!Enqueue(frame) PROVE BlankInv'
  <2>1. CASE UNCHANGED <<conn, books, heard, advertised>>
    BY <2>1, <1>3
  <2>2. CASE Stream!MarkNotReady /\ conn'.resync = TRUE /\ conn'.reading = FALSE
    BY <2>2, <1>2, BlankAfter
  <2> QED
    BY <1>4, <2>1, <2>2, EnqueueKinds
<1>5. CASE \E a \in Assets : Stream!SendBook(a) \/ Stream!SendBookAgain(a) \/ Stream!SendDelta(a)
                                \/ Stream!SendBest(a)
  BY <1>4, <1>5, SendKinds
<1>6. CASE Stream!SendResolution
  BY <1>4, <1>6, ResolutionKinds
<1>7. CASE (\E a \in Assets : Stream!Trade(a) \/ Stream!Omit(a)) \/ Stream!Rotate
  BY <1>3, <1>7, MarketKinds
<1>8. CASE Stream!Dial
  <2>1. /\ conn.at = "down" /\ conn'.at = "dialing" /\ UNCHANGED <<books, heard>>
        /\ conn'.resync = conn.resync /\ conn'.reading = conn.reading
    BY <1>8, DialKinds
  <2> QED
    BY <1>3, <2>1
<1>9. CASE Stream!Connect
  BY <1>2, <1>9, ConnectKinds, BlankAfter
<1>10. CASE Stream!Cut \/ Stream!ReconciliationEnds \/ Stream!LoopTimesOut
  BY <1>3, <1>10, GateKinds DEF SameSubscription
<1>11. CASE Stream!ReconciliationRaises \/ Stream!PipelineEnds
  <2>1. Stream!Disconnect
    BY <1>11 DEF Stream!ReconciliationRaises, Stream!PipelineEnds
  <2> QED
    BY <1>2, <2>1, DisconnectKinds, BlankAfter
<1>12. CASE Stream!Process
  <2>1. /\ SameSubscription /\ conn.at = "up"
        /\ \/ UNCHANGED <<conn, books, heard>>
           \/ conn'.resync = TRUE /\ conn'.reading = FALSE /\ Stream!MarkNotReady
           \/ /\ ~conn.resync /\ queue[1].asset \in conn.subscribed /\ conn' = conn
              /\ \A c \in Assets : c # queue[1].asset =>
                    /\ books'[c] = Stream!Ensured(conn.subscribed)[c] /\ heard'[c] = heard[c]
    BY <1>12, ProcessKinds
  <2>2. CASE UNCHANGED <<conn, books, heard>>
    BY <1>3, <2>2
  <2>3. CASE conn'.resync = TRUE /\ conn'.reading = FALSE /\ Stream!MarkNotReady
    BY <1>2, <2>3, BlankAfter
  <2>4. CASE /\ ~conn.resync /\ queue[1].asset \in conn.subscribed /\ conn' = conn
             /\ \A c \in Assets : c # queue[1].asset =>
                   /\ books'[c] = Stream!Ensured(conn.subscribed)[c] /\ heard'[c] = heard[c]
    <3>1. ASSUME NEW c \in Assets \ conn.subscribed PROVE Blank(c)'
      <4>1. Blank(c)
        BY <3>1 DEF BlankInv
      <4>2. books'[c] = Stream!Cleared /\ heard'[c] = heard[c]
        BY <2>4, <3>1 DEF Stream!Ensured
      <4> QED
        BY <4>1, <4>2 DEF Blank
    <3> QED
      BY <2>1, <2>4, <3>1 DEF BlankInv
  <2> QED
    BY <2>1, <2>2, <2>3, <2>4
<1>13. CASE Stream!ProcessResolution
  BY <1>3, <1>13, StoreKinds
<1>14. CASE Stream!LoopWakes
  <2>1. /\ conn.reading /\ conn.at = "up" /\ UNCHANGED <<conn, heard>>
        /\ books' = Stream!Ensured(conn.subscribed \cup (wanted \ conn.subscribed))
    BY <1>14, LoopKinds
  <2>2. ASSUME NEW c \in Assets \ conn.subscribed PROVE Blank(c)'
    <3>1. Blank(c)
      BY <2>2 DEF BlankInv
    <3> QED
      BY <2>1, <3>1 DEF Blank, Stream!Ensured
  <2> QED
    BY <2>1, <2>2 DEF BlankInv
<1>15. CASE Stream!LoopSubscribes \/ Stream!LoopReady
  BY <1>3, <1>15, LoopKinds
<1>16. CASE Stream!LoopNotes
  <2>1. /\ conn.at = "up" /\ conn'.at = conn.at /\ UNCHANGED <<books, heard>>
        /\ conn'.subscribed = conn.subscribed \cup loop.add
        /\ conn'.resync = conn.resync /\ conn'.reading = conn.reading
    BY <1>16, LoopKinds
  <2> QED
    BY <1>3, <2>1
<1>17. CASE Stream!LoopFinishes
  <2>1. /\ conn.reading /\ conn.at = "up" /\ conn'.at = conn.at
        /\ conn'.subscribed = loop.wanted
        /\ conn'.resync = conn.resync /\ conn'.reading = conn.reading
        /\ books' = Stream!Ensured(loop.wanted)
        /\ heard' = [a \in Assets |-> IF a \in loop.wanted THEN heard[a] ELSE Stream!Unheard]
    BY <1>17, LoopKinds
  <2>2. ASSUME NEW c \in Assets \ loop.wanted PROVE Blank(c)'
    BY <2>1, <2>2 DEF Blank, Stream!Ensured
  <2> QED
    BY <2>1, <2>2 DEF BlankInv
<1> QED
  BY <1>5, <1>6, <1>7, <1>8, <1>9, <1>10, <1>11, <1>12, <1>13, <1>14, <1>15, <1>16, <1>17
     DEF Stream!Next

LEMMA QueueIndices ==
  ASSUME queue \in Seq(StreamFrames), NEW frame \in StreamFrames
  PROVE  Longer(queue, Append(queue, frame)) /\ Append(queue, frame)[Len(Append(queue, frame))] = frame
  BY AppendProperties, LenProperties DEF Longer

LEMMA TailIndices ==
  ASSUME queue \in Seq(StreamFrames), queue # <<>>
  PROVE  Shorter(queue, Tail(queue))
  BY HeadTailProperties, LenProperties, EmptySeq DEF Shorter

\* A saturated queue holds no market frame.
LEMMA SaturatedFrames ==
  ASSUME queue \in Seq(StreamFrames), NEW frame \in StreamFrames, Single(Append(queue, frame))
  PROVE  /\ \A i \in 1..Len(Stream!Saturated(frame)) : Stream!Saturated(frame)[i].kind # "market"
         /\ Len(Stream!Saturated(frame)) \in Nat
<1> DEFINE frames1 == Append(queue, frame)
           stay == {n \in DOMAIN frames1 : frames1[n].kind = Stream!Resolved}
           c == Stream!Cardinality(stay)
           kept == [n \in 1..c |-> ResolutionFrame]
<1>1. Stream!Saturated(frame) = kept
  BY DEF Stream!Saturated, ResolutionFrame
<1>2. kept \in Seq(StreamFrames)
  BY <1>1, SaturatedEffect
<1> HIDE DEF c
<1>3. DOMAIN kept = 1..c /\ \A i \in DOMAIN kept : kept[i] = ResolutionFrame
  OBVIOUS
<1> HIDE DEF kept
<1>4. DOMAIN kept = 1..Len(kept) /\ Len(kept) \in Nat
  BY <1>2, LenProperties
<1>5. ResolutionFrame.kind # "market"
  BY DEF ResolutionFrame, Stream!Resolved
<1> QED
  BY <1>1, <1>3, <1>4, <1>5


\* A frame that is queued joins the others, or none but resolutions stay.
LEMMA QueuedFrames ==
  ASSUME StreamInv, NEW frame \in StreamFrames, Stream!Enqueue(frame),
         IsResolution(frame) => resolution # "received"
  PROVE  \/ /\ Longer(queue, queue') /\ queue'[Len(queue')] = frame
            /\ UNCHANGED <<conn, books, heard>>
         \/ /\ \A i \in 1..Len(queue') : queue'[i].kind # "market"
            /\ Stream!MarkNotReady
<1>1. queue \in Seq(StreamFrames) /\ Single(queue) /\ (IsResolution(frame) => ~Waits(queue))
  BY DEF StreamInv, QueueTypes, ResolutionInv
<1>2. Single(Append(queue, frame))
  BY <1>1, AppendFrame
<1>3. CASE queue' = Append(queue, frame) /\ UNCHANGED <<conn, books, heard, advertised>>
  BY <1>1, <1>3, QueueIndices
<1>4. CASE queue' = Stream!Saturated(frame) /\ Stream!MarkNotReady
  BY <1>1, <1>2, <1>4, SaturatedFrames
<1> QED
  BY <1>3, <1>4, EnqueueKinds

LEMMA QuietFrame ==
  ASSUME QuietInv, \A a \in Assets : exchange'[a].listens => exchange[a].listens,
         \A a \in Rest : exchange'[a].listens = exchange[a].listens,
         SameSubscription,
         \A i \in 1..Len(queue') : queue'[i].kind = "market" =>
            \/ \E j \in 1..Len(queue) : queue'[i] = queue[j]
            \/ /\ exchange[queue'[i].asset].listens
               /\ queue'[i].message.event_type = "best_bid_ask" => queue'[i].message.nth = -1
  PROVE  QuietInv'
<1>1. wanted' = wanted /\ loop' = loop /\ conn'.at = conn.at /\ conn'.subscribed = conn.subscribed
  BY DEF SameSubscription
<1>2. Rest' = Rest /\ Rest \subseteq Assets
  BY DEF Rest, Stream!Current
<1>3. ASSUME NEW a \in Rest, ~exchange'[a].listens, NEW i \in 1..Len(queue'),
             queue'[i].kind = "market", queue'[i].asset = a
      PROVE  FALSE
  <2>1. ~exchange[a].listens
    BY <1>3
  <2>2. PICK j \in 1..Len(queue) : queue'[i] = queue[j]
    BY <1>3, <2>1
  <2> QED
    BY <1>3, <2>1, <2>2 DEF QuietInv, About
<1>4. ASSUME NEW i \in 1..Len(queue'), queue'[i].kind = "market",
             queue'[i].message.event_type = "best_bid_ask"
      PROVE  queue'[i].message.nth = -1
  BY <1>4 DEF QuietInv
<1>5. conn'.at # "up" => \A a \in Assets : ~exchange'[a].listens
  BY <1>1 DEF QuietInv
<1>6. \A a \in Rest : exchange'[a].listens =>
         a \in conn'.subscribed \/ (loop'.pc = "sent" /\ a \in loop'.add)
  <2> SUFFICES ASSUME NEW a \in Rest, exchange'[a].listens
               PROVE  a \in conn'.subscribed \/ (loop'.pc = "sent" /\ a \in loop'.add)
    OBVIOUS
  <2>1. exchange[a].listens
    BY <1>2
  <2>2. a \in conn.subscribed \/ (loop.pc = "sent" /\ a \in loop.add)
    BY <2>1 DEF QuietInv
  <2> QED
    BY <1>1, <2>2
<1> QED
  BY <1>2, <1>3, <1>4, <1>5, <1>6 DEF QuietInv, About

LEMMA QuietNext ==
  ASSUME StreamInv, ControlInv, QuietInv, Stream!Next
  PROVE  QuietInv'
<1>1. /\ conn.subscribed \in SUBSET Assets /\ loop.add \in SUBSET Assets
      /\ wanted \in SUBSET Assets /\ loop.wanted \in SUBSET Assets
      /\ conn.at \in {"down", "dialing", "up"} /\ Stream!Current \subseteq Assets
      /\ exchange \in [Assets -> Venues] /\ queue \in Seq(StreamFrames)
      /\ Rest \subseteq Assets /\ Rest' = Rest
  BY SubscribedAssets DEF StreamInv, VenueTypes, QueueTypes, Rest, Stream!Current
<1>2. ASSUME NEW assets \in SUBSET Assets
      PROVE  \A a \in Assets :
                /\ a \in assets => /\ Stream!Listening(assets)[a].listens
                                   /\ ~Stream!Deaf(assets)[a].listens
                /\ a \notin assets => /\ Stream!Listening(assets)[a] = exchange[a]
                                      /\ Stream!Deaf(assets)[a] = exchange[a]
  <2>1. \A v \in Venues : /\ [v EXCEPT !.listens = TRUE, !.snapshot = FALSE, !.owed = <<>>].listens = TRUE
                          /\ [v EXCEPT !.listens = FALSE, !.snapshot = FALSE, !.owed = <<>>].listens = FALSE
    BY DEF Venues
  <2> QED
    BY <1>1, <2>1 DEF Stream!Listening, Stream!Deaf
<1>3. CASE \E a \in Assets : Stream!SendBook(a) \/ Stream!SendBookAgain(a) \/ Stream!SendDelta(a)
                                \/ Stream!SendBest(a)
  <2>1. PICK a \in Assets : \/ Stream!SendBook(a) \/ Stream!SendBookAgain(a) \/ Stream!SendDelta(a)
                            \/ Stream!SendBest(a)
    BY <1>3
  <2>2. PICK m : /\ Stream!Enqueue(Stream!Frame(a, m)) /\ Sound(m)
                 /\ m.event_type = "best_bid_ask" => m.nth = -1
    BY <2>1, SendKinds
  <2>3. exchange[a].listens /\ \A b \in Assets : exchange'[b].listens = exchange[b].listens
    BY <2>1, SendKinds
  <2> DEFINE f == Stream!Frame(a, m)
  <2>4. f \in StreamFrames /\ ~IsResolution(f) /\ f.asset = a /\ f.message = m
    BY <2>2, MarketFrame DEF Stream!Frame
  <2> HIDE DEF f
  <2>5. \/ Longer(queue, queue') /\ queue'[Len(queue')] = f
        \/ \A i \in 1..Len(queue') : queue'[i].kind # "market"
    BY <2>2, <2>4, QueuedFrames DEF f
  <2>6. \A i \in 1..Len(queue') : queue'[i].kind = "market" =>
            \/ \E j \in 1..Len(queue) : queue'[i] = queue[j]
            \/ queue'[i] = f
    <3>1. CASE Longer(queue, queue') /\ queue'[Len(queue')] = f
      <4>1. /\ \A i \in 1..Len(queue') : i \in 1..Len(queue) \/ i = Len(queue')
            /\ \A i \in 1..Len(queue) : queue'[i] = queue[i]
        BY <3>1, LongerIndices
      <4> QED
        BY <3>1, <4>1
    <3> QED
      BY <2>5, <3>1
  <2> QED
    BY <1>1, <2>2, <2>3, <2>4, <2>6, EnqueueKinds, QuietFrame
<1>4. CASE Stream!SendResolution
  <2>1. Stream!Enqueue(ResolutionFrame) /\ exchange' = exchange /\ resolution # "received"
    BY <1>4, ResolutionKinds DEF Stream!SendResolution
  <2>2. ResolutionFrame \in StreamFrames /\ ResolutionFrame.kind # "market"
    BY DEF StreamFrames, ResolutionFrame, Stream!Resolved
  <2>3. \/ Longer(queue, queue') /\ queue'[Len(queue')] = ResolutionFrame
        \/ \A i \in 1..Len(queue') : queue'[i].kind # "market"
    BY <2>1, <2>2, QueuedFrames
  <2>4. \A i \in 1..Len(queue') : queue'[i].kind = "market" =>
            \E j \in 1..Len(queue) : queue'[i] = queue[j]
    <3>1. CASE Longer(queue, queue') /\ queue'[Len(queue')] = ResolutionFrame
      <4>1. /\ \A i \in 1..Len(queue') : i \in 1..Len(queue) \/ i = Len(queue')
            /\ \A i \in 1..Len(queue) : queue'[i] = queue[i]
        BY <3>1, LongerIndices
      <4> QED
        BY <2>2, <3>1, <4>1
    <3> QED
      BY <2>3, <3>1
  <2> QED
    BY <2>1, <2>4, EnqueueKinds, QuietFrame
<1>5. CASE (\E a \in Assets : Stream!Trade(a) \/ Stream!Omit(a)) \/ Stream!Rotate
  <2>1. /\ UNCHANGED <<conn, queue, loop>>
        /\ \A b \in Assets : exchange'[b].listens = exchange[b].listens
    BY <1>5, MarketKinds
  <2> QED
    BY <1>1, <2>1 DEF QuietInv, About
<1>6. CASE Stream!Dial
  <2>1. conn.at = "down" /\ conn'.at = "dialing" /\ UNCHANGED <<exchange, queue, loop>>
    BY <1>6, DialKinds
  <2> QED
    BY <1>1, <2>1 DEF QuietInv, About
<1>7. CASE Stream!Connect
  <2>1. /\ conn.at = "dialing" /\ conn'.at = "up" /\ conn'.subscribed = conn.subscribed
        /\ exchange' = Stream!Listening(conn.subscribed) /\ queue' = <<>>
    BY <1>7, ConnectKinds
  <2>2. \A i \in 1..Len(queue') : FALSE
    BY <2>1
  <2>3. \A a \in Assets : exchange'[a].listens => a \in conn.subscribed
    BY <1>1, <1>2, <2>1 DEF QuietInv
  <2> QED
    BY <1>1, <2>1, <2>2, <2>3 DEF QuietInv, About
<1>8. CASE Stream!Cut \/ Stream!ReconciliationEnds \/ Stream!LoopTimesOut
  <2>1. SameSubscription /\ UNCHANGED <<exchange, queue>>
    BY <1>8, GateKinds
  <2> QED
    BY <2>1, QuietFrame
<1>9. CASE Stream!ReconciliationRaises \/ Stream!PipelineEnds
  <2>1. Stream!Disconnect
    BY <1>9 DEF Stream!ReconciliationRaises, Stream!PipelineEnds
  <2>2. queue' = <<>> /\ \A a \in Assets : ~exchange'[a].listens
    BY <1>2, <2>1, DisconnectKinds
  <2>3. \A i \in 1..Len(queue') : FALSE
    BY <2>2
  <2> QED
    BY <1>1, <2>2, <2>3 DEF QuietInv, About
<1>10. CASE Stream!Process \/ Stream!ProcessResolution
  <2>1. SameSubscription /\ exchange' = exchange /\ queue # <<>> /\ queue' = Tail(queue)
    BY <1>10, ProcessKinds, StoreKinds DEF SameSubscription
  <2>2. Shorter(queue, queue')
    BY <1>1, <2>1, TailIndices
  <2>3. \A i \in 1..Len(queue') : \E j \in 1..Len(queue) : queue'[i] = queue[j]
    BY <2>2, ShorterIndices
  <2> QED
    BY <2>1, <2>3, QuietFrame
<1>11. CASE Stream!LoopWakes \/ Stream!LoopReady
  <2>1. UNCHANGED <<exchange, conn, queue>> /\ loop.pc # "sent"
    BY <1>11, LoopKinds
  <2> QED
    BY <1>1, <2>1 DEF QuietInv, About
<1>12. CASE Stream!LoopSubscribes
  <2>1. /\ conn.at = "up" /\ loop'.pc = "sent" /\ loop'.add = loop.add /\ loop.pc = "refresh"
        /\ exchange' = Stream!Listening(loop.add) /\ UNCHANGED <<conn, queue>>
    BY <1>12, LoopKinds
  <2> QED
    BY <1>1, <1>2, <2>1 DEF QuietInv, About
<1>13. CASE Stream!LoopNotes
  <2>1. /\ conn'.at = conn.at /\ conn'.subscribed = conn.subscribed \cup loop.add
        /\ UNCHANGED <<exchange, queue>>
    BY <1>13, LoopKinds
  <2> QED
    BY <1>1, <2>1 DEF QuietInv, About
<1>14. CASE Stream!LoopFinishes
  <2>1. /\ loop.pc = "drop" /\ conn.at = "up" /\ conn'.at = conn.at
        /\ conn'.subscribed = loop.wanted /\ queue' = queue
        /\ exchange' = Stream!Deaf(conn.subscribed \ loop.wanted)
    BY <1>14, LoopKinds
  <2>2. Rest \subseteq loop.wanted
    BY <1>1, <2>1 DEF ControlInv
  <2>3. \A a \in Rest : exchange'[a].listens = exchange[a].listens
    BY <1>1, <1>2, <2>1, <2>2
  <2> QED
    BY <1>1, <2>1, <2>2, <2>3 DEF QuietInv, About
<1> QED
  BY <1>3, <1>4, <1>5, <1>6, <1>7, <1>8, <1>9, <1>10, <1>11, <1>12, <1>13, <1>14
     DEF Stream!Next


-----------------------------------------------------------------------------
(* Every book against the history of its asset *)

Book(a, h) ==
    /\ History(exchange[a], h) /\ Owes(exchange[a], h)
    /\ a \in conn.subscribed \cup Rest => Chain(queue, exchange[a], h, a)
    /\ View(books[a], heard[a], queue, exchange[a], h, a)

BookInv == \A a \in Assets : \E h \in Histories : Book(a, h)

\* Omissions and messages that are not fresh are left out.
Plain == world \cap {"lost", "stale", "unusable"} = {}

LEMMA VenueCounts ==
  ASSUME NEW v \in Venues, NEW h, History(v, h), Owes(v, h)
  PROVE  /\ v.nth \in Nat /\ Len(v.owed) \in Nat /\ SentUpTo(v) \in Nat /\ SentUpTo(v) <= v.nth
         /\ v.owed \in Seq(Deltas)
<1>1. v.owed \in Seq(Deltas) /\ Len(v.owed) \in Nat
  BY VenueFields, LenProperties
<1>2. v.nth \in Nat /\ SentUpTo(v) \in Nat
  BY DEF History, Owes
<1> QED
  BY <1>1, <1>2 DEF SentUpTo

LEMMA BlankView ==
  ASSUME NEW q, NEW v, NEW h, NEW a
  PROVE  View(Stream!Cleared, Stream!Unheard, q, v, h, a)
  BY DEF View, Stream!Cleared

\* A queue without a frame of the asset.
LEMMA EmptyChain ==
  ASSUME NEW q, NEW v, NEW h, NEW a,
         \A i \in 1..Len(q) : ~(q[i].kind = "market" /\ q[i].asset = a)
  PROVE  Chain(q, v, h, a)
  BY DEF Chain, IsDelta, IsSnapshot

\* A venue that owes nothing any more, or the same.
LEMMA SettledHistory ==
  ASSUME NEW v \in Venues, NEW h, History(v, h), Owes(v, h), NEW l \in BOOLEAN
  PROVE  LET w == [v EXCEPT !.listens = l, !.snapshot = FALSE, !.owed = <<>>]
         IN History(w, h) /\ Owes(w, h)
<1> DEFINE w == [v EXCEPT !.listens = l, !.snapshot = FALSE, !.owed = <<>>]
<1>1. w.levels = v.levels /\ w.clock = v.clock /\ w.nth = v.nth /\ w.owed = <<>>
  BY DEF Venues
<1>2. v.nth \in Nat
  BY VenueCounts
<1> HIDE DEF w
<1>3. Len(w.owed) = 0 /\ SentUpTo(w) \in Nat
  BY <1>1, <1>2 DEF SentUpTo
<1>4. History(w, h)
  BY <1>1 DEF History
<1>5. Owes(w, h)
  BY <1>3 DEF Owes
<1> QED
  BY <1>4, <1>5 DEF w

\* The exchange has a book of its own accord.
LEMMA OfferedHistory ==
  ASSUME NEW v \in Venues, NEW h, History(v, h), Owes(v, h)
  PROVE  LET w == [v EXCEPT !.snapshot = TRUE]
         IN /\ History(w, h) /\ Owes(w, h) /\ w.nth = v.nth /\ SentUpTo(w) = SentUpTo(v)
<1> DEFINE w == [v EXCEPT !.snapshot = TRUE]
<1>1. w.levels = v.levels /\ w.clock = v.clock /\ w.nth = v.nth /\ w.owed = v.owed
  BY DEF Venues
<1> HIDE DEF w
<1>2. SentUpTo(w) = SentUpTo(v)
  BY <1>1 DEF SentUpTo
<1>3. History(w, h) /\ Owes(w, h)
  BY <1>1, <1>2 DEF History, Owes
<1> QED
  BY <1>1, <1>2, <1>3 DEF w

\* One delta less is owed.
LEMMA SentHistory ==
  ASSUME NEW v \in Venues, NEW h, History(v, h), Owes(v, h), v.owed # <<>>
  PROVE  LET w == [v EXCEPT !.owed = Tail(v.owed)]
         IN /\ History(w, h) /\ Owes(w, h) /\ w.nth = v.nth
            /\ SentUpTo(w) = SentUpTo(v) + 1 /\ SentUpTo(v) + 1 <= v.nth
            /\ Head(v.owed).nth = SentUpTo(v) + 1
            /\ IsChange(h, SentUpTo(v) + 1, Head(v.owed))
<1> DEFINE w == [v EXCEPT !.owed = Tail(v.owed)]
           o == v.owed
<1>1. /\ o \in Seq(Deltas) /\ Len(o) \in Nat /\ v.nth \in Nat /\ SentUpTo(v) \in Nat
      /\ SentUpTo(v) = v.nth - Len(o)
  BY VenueCounts DEF SentUpTo
<1>2. w.levels = v.levels /\ w.clock = v.clock /\ w.nth = v.nth /\ w.owed = Tail(o)
  BY DEF Venues
<1> HIDE DEF w
<1>3. /\ Len(o) # 0 /\ Head(o) = o[1] /\ Len(Tail(o)) = Len(o) - 1
      /\ \A i \in 1..Len(Tail(o)) : Tail(o)[i] = o[i + 1]
  BY <1>1, HeadTailProperties, EmptySeq
<1>4. SentUpTo(w) = SentUpTo(v) + 1 /\ SentUpTo(v) + 1 <= v.nth /\ 1 \in 1..Len(o)
  <2>1. SentUpTo(w) = v.nth - (Len(o) - 1)
    BY <1>2, <1>3 DEF SentUpTo
  <2> QED
    BY <1>1, <1>3, <2>1
<1>5. IsChange(h, SentUpTo(v) + 1, Head(o))
  BY <1>3, <1>4 DEF Owes
<1>6. Head(o).nth = SentUpTo(v) + 1
  BY <1>5 DEF IsChange
<1>7. ASSUME NEW i \in 1..Len(w.owed) PROVE IsChange(h, SentUpTo(w) + i, w.owed[i])
  <2>1. i + 1 \in 1..Len(o) /\ w.owed[i] = o[i + 1]
    BY <1>1, <1>2, <1>3
  <2>2. IsChange(h, SentUpTo(v) + (i + 1), o[i + 1])
    BY <2>1 DEF Owes
  <2>3. SentUpTo(w) + i = SentUpTo(v) + (i + 1)
    BY <1>1, <1>4
  <2> QED
    BY <2>1, <2>2, <2>3
<1>8. History(w, h)
  BY <1>2 DEF History
<1>9. Owes(w, h)
  BY <1>1, <1>4, <1>7 DEF Owes
<1> QED
  BY <1>2, <1>4, <1>5, <1>6, <1>8, <1>9 DEF w

\* What a snapshot says is so.
LEMMA OfferedSnapshot ==
  ASSUME NEW v \in Venues, NEW h, History(v, h)
  PROVE  SnapshotFits(Stream!SnapshotOf(v), v, h) /\ Stream!SnapshotOf(v).nth = v.nth
<1> DEFINE m == Stream!SnapshotOf(v)
<1>1. m.nth = v.nth /\ m.at = v.clock /\ m.levels = v.levels /\ m.truth = v.levels
  BY DEF Stream!SnapshotOf
<1> HIDE DEF m
<1>2. v.nth \in 0..v.nth
  BY DEF History
<1>3. SnapshotFits(m, v, h)
  BY <1>1, <1>2 DEF SnapshotFits, History
<1> QED
  BY <1>1, <1>3 DEF m

-----------------------------------------------------------------------------
LEMMA BookSame ==
  ASSUME NEW a \in Assets, NEW h \in Histories, Book(a, h),
         exchange'[a] = exchange[a], queue' = queue, books'[a] = books[a], heard'[a] = heard[a],
         a \in conn'.subscribed => a \in conn.subscribed \cup Rest
  PROVE  Book(a, h)'
<1>1. Rest' = Rest
  BY DEF Rest, Stream!Current
<1>2. History(exchange'[a], h) /\ Owes(exchange'[a], h)
  BY DEF Book
<1>3. View(books'[a], heard'[a], queue', exchange'[a], h, a)
  BY DEF Book
<1>4. a \in conn'.subscribed \cup Rest => Chain(queue', exchange'[a], h, a)
  BY DEF Book
<1> QED
  BY <1>1, <1>2, <1>3, <1>4 DEF Book

LEMMA BookBlank ==
  ASSUME NEW a \in Assets, NEW h \in Histories, Book(a, h), exchange[a] \in Venues,
         \/ exchange'[a] = exchange[a]
         \/ \E l \in BOOLEAN :
               exchange'[a] = [exchange[a] EXCEPT !.listens = l, !.snapshot = FALSE, !.owed = <<>>],
         Blank(a)',
         \/ a \notin conn'.subscribed \cup Rest
         \/ \A i \in 1..Len(queue') : ~(queue'[i].kind = "market" /\ queue'[i].asset = a)
  PROVE  Book(a, h)'
<1>1. Rest' = Rest
  BY DEF Rest, Stream!Current
<1>2. History(exchange[a], h) /\ Owes(exchange[a], h)
  BY DEF Book
<1>3. History(exchange'[a], h) /\ Owes(exchange'[a], h)
  BY <1>2, SettledHistory
<1>4. View(books'[a], heard'[a], queue', exchange'[a], h, a)
  BY BlankView DEF Blank
<1>5. a \in conn'.subscribed \cup Rest => Chain(queue', exchange'[a], h, a)
  BY EmptyChain
<1> QED
  BY <1>1, <1>3, <1>4, <1>5 DEF Book


-----------------------------------------------------------------------------
(* The exchange sends *)

LEMMA BookQueued ==
  ASSUME NEW a \in Assets, NEW h \in Histories, Book(a, h), conn'.subscribed = conn.subscribed,
         History(exchange'[a], h), Owes(exchange'[a], h),
         \/ /\ UNCHANGED <<books, heard>>
            /\ Chain(queue, exchange[a], h, a) => Chain(queue', exchange'[a], h, a)
            /\ View(books[a], heard[a], queue, exchange[a], h, a)
                  => View(books[a], heard[a], queue', exchange'[a], h, a)
         \/ /\ \A i \in 1..Len(queue') : queue'[i].kind # "market"
            /\ Stream!MarkNotReady
  PROVE  Book(a, h)'
<1>1. Rest' = Rest
  BY DEF Rest, Stream!Current
<1>2. CASE /\ UNCHANGED <<books, heard>>
           /\ Chain(queue, exchange[a], h, a) => Chain(queue', exchange'[a], h, a)
           /\ View(books[a], heard[a], queue, exchange[a], h, a)
                 => View(books[a], heard[a], queue', exchange'[a], h, a)
  BY <1>1, <1>2 DEF Book
<1>3. CASE /\ \A i \in 1..Len(queue') : queue'[i].kind # "market"
           /\ Stream!MarkNotReady
  <2>1. Blank(a)'
    BY <1>3, BlankAfter
  <2>2. View(books'[a], heard'[a], queue', exchange'[a], h, a)
    BY <2>1, BlankView DEF Blank
  <2>3. Chain(queue', exchange'[a], h, a)
    BY <1>3, EmptyChain
  <2> QED
    BY <1>1, <2>2, <2>3 DEF Book
<1> QED
  BY <1>2, <1>3

\* A frame that does not change the book of the asset.
LEMMA BookPassed ==
  ASSUME StreamInv, NEW a \in Assets, NEW h \in Histories, Book(a, h),
         exchange'[a] = exchange[a], NEW frame \in StreamFrames, Stream!Enqueue(frame),
         IsResolution(frame) => resolution # "received",
         frame.kind = "market" =>
            frame.asset # a \/ frame.message.event_type \notin {"book", "price_change"}
  PROVE  Book(a, h)'
<1>1. conn'.subscribed = conn.subscribed
  BY EnqueueKinds DEF SameSubscription
<1>2. History(exchange'[a], h) /\ Owes(exchange'[a], h)
  BY DEF Book
<1>3. CASE Longer(queue, queue') /\ queue'[Len(queue')] = frame /\ UNCHANGED <<conn, books, heard>>
  <2>1. ~Tells(queue', a)
    BY <1>3 DEF Tells, IsDelta, IsSnapshot
  <2>2. /\ Chain(queue, exchange[a], h, a) => Chain(queue', exchange'[a], h, a)
        /\ View(books[a], heard[a], queue, exchange[a], h, a)
              => View(books[a], heard[a], queue', exchange'[a], h, a)
    BY <1>3, <2>1, AppendOther
  <2> QED
    BY <1>1, <1>2, <1>3, <2>2, BookQueued
<1>4. CASE /\ \A i \in 1..Len(queue') : queue'[i].kind # "market"
           /\ Stream!MarkNotReady
  BY <1>1, <1>2, <1>4, BookQueued
<1> QED
  BY <1>3, <1>4, QueuedFrames

\* A snapshot of it.
LEMMA BookOffered ==
  ASSUME StreamInv, NEW a \in Assets, NEW h \in Histories, Book(a, h),
         \/ exchange'[a] = exchange[a]
         \/ exchange'[a] = [exchange[a] EXCEPT !.snapshot = TRUE],
         Stream!Enqueue(Stream!Frame(a, Stream!SnapshotOf(exchange[a])))
  PROVE  Book(a, h)'
<1> DEFINE v == exchange[a]
           w == exchange'[a]
           m == Stream!SnapshotOf(v)
           frame == Stream!Frame(a, m)
<1>1. v \in Venues
  BY DEF StreamInv, VenueTypes
<1>2. History(v, h) /\ Owes(v, h)
  BY DEF Book
<1>3. History(w, h) /\ Owes(w, h) /\ w.nth = v.nth /\ SentUpTo(w) = SentUpTo(v)
  BY <1>1, <1>2, OfferedHistory
<1>4. v.nth \in Nat /\ SentUpTo(v) \in Nat /\ SentUpTo(v) <= v.nth
  BY <1>1, <1>2, VenueCounts
<1>5. SnapshotFits(m, v, h) /\ m.nth = v.nth /\ m.event_type = "book"
  <2>1. SnapshotFits(m, v, h) /\ m.nth = v.nth
    BY <1>1, <1>2, OfferedSnapshot
  <2>2. m.event_type = "book"
    BY DEF Stream!SnapshotOf
  <2> QED
    BY <2>1, <2>2
<1>6. frame \in StreamFrames /\ ~IsResolution(frame)
  BY <1>1, SnapshotSound, MarketFrame
<1>7. frame.kind = "market" /\ frame.asset = a /\ frame.message = m
  BY DEF Stream!Frame
<1>8. conn'.subscribed = conn.subscribed
  BY EnqueueKinds DEF SameSubscription
<1> HIDE DEF m, frame
<1>9. Stream!Enqueue(frame)
  BY DEF m, frame
<1>10. CASE Longer(queue, queue') /\ queue'[Len(queue')] = frame /\ UNCHANGED <<conn, books, heard>>
  <2>1. IsSnapshot(queue', Len(queue'), a) /\ queue'[Len(queue')].message = m
    BY <1>5, <1>7, <1>10 DEF IsSnapshot
  <2>2. /\ Chain(queue, v, h, a) => Chain(queue', v, h, a)
        /\ View(books[a], heard[a], queue, v, h, a) => View(books[a], heard[a], queue', v, h, a)
    BY <1>4, <1>5, <1>10, <2>1, AppendSnapshot
  <2>3. /\ Chain(queue', v, h, a) => Chain(queue', w, h, a)
        /\ View(books[a], heard[a], queue', v, h, a) => View(books[a], heard[a], queue', w, h, a)
    <3>1. w.nth \in Nat /\ v.nth <= w.nth
      BY <1>3, <1>4
    <3> QED
      BY <1>3, <1>4, <3>1, SameHistory
  <2> QED
    BY <1>3, <1>8, <1>10, <2>2, <2>3, BookQueued
<1>11. CASE /\ \A i \in 1..Len(queue') : queue'[i].kind # "market"
            /\ Stream!MarkNotReady
  BY <1>3, <1>8, <1>11, BookQueued
<1> QED
  BY <1>6, <1>9, <1>10, <1>11, QueuedFrames

\* The next delta of it.
LEMMA BookSent ==
  ASSUME StreamInv, NEW a \in Assets, NEW h \in Histories, Book(a, h), Stream!SendDelta(a)
  PROVE  Book(a, h)'
<1> DEFINE v == exchange[a]
           w == exchange'[a]
           c == Head(v.owed)
<1>1. v \in Venues /\ exchange \in [Assets -> Venues]
  BY DEF StreamInv, VenueTypes
<1>2. History(v, h) /\ Owes(v, h) /\ v.owed # <<>>
  BY DEF Book, Stream!SendDelta
<1>3. w = [v EXCEPT !.owed = Tail(v.owed)]
  BY <1>1 DEF Stream!SendDelta
<1>4. /\ History(w, h) /\ Owes(w, h) /\ w.nth = v.nth
      /\ SentUpTo(w) = SentUpTo(v) + 1 /\ SentUpTo(v) + 1 <= v.nth
      /\ c.nth = SentUpTo(v) + 1 /\ IsChange(h, SentUpTo(v) + 1, c)
  BY <1>1, <1>2, <1>3, SentHistory
<1>5. v.nth \in Nat /\ SentUpTo(v) \in Nat /\ v.owed \in Seq(Deltas)
  BY <1>1, <1>2, VenueCounts
<1>6. c \in Deltas
  BY <1>2, <1>5, HeadTailProperties
<1>7. PICK best \in {c.best, Stream!NotAdvertised}, bad \in {FALSE, "malformed" \in world} :
        Stream!Enqueue(Stream!Frame(a, Stream!DeltaOf(c, best, bad)))
  BY DEF Stream!SendDelta
<1>8. bad \in BOOLEAN
  <2>1. ("malformed" \in world) \in BOOLEAN
    OBVIOUS
  <2> QED
    BY <2>1
<1> DEFINE m == Stream!DeltaOf(c, best, bad)
           frame == Stream!Frame(a, m)
<1>9. /\ m.event_type = "price_change" /\ m.at = c.at /\ m.price = c.price /\ m.rests = c.rests
      /\ m.nth = c.nth /\ m.truth = c.truth
  BY DEF Stream!DeltaOf
<1> HIDE DEF c, w
<1>10. frame \in StreamFrames /\ ~IsResolution(frame)
  BY <1>6, <1>7, <1>8, DeltaSound, MarketFrame
<1>11. frame.kind = "market" /\ frame.asset = a /\ frame.message = m
  BY DEF Stream!Frame
<1>12. Stream!Enqueue(frame)
  BY <1>7
<1> HIDE DEF m, frame
<1>13. conn'.subscribed = conn.subscribed
  BY <1>12, EnqueueKinds DEF SameSubscription
<1>14. DeltaFits(m, w, h) /\ m.nth = SentUpTo(v) + 1
  <2>1. m.nth = SentUpTo(v) + 1 /\ m.nth \in 1..SentUpTo(w)
    BY <1>4, <1>5, <1>9
  <2>2. IsChange(h, m.nth, m)
    BY <1>4, <1>9, <2>1 DEF IsChange
  <2> QED
    BY <2>1, <2>2 DEF DeltaFits
<1>15. CASE Longer(queue, queue') /\ queue'[Len(queue')] = frame /\ UNCHANGED <<conn, books, heard>>
  <2>1. IsDelta(queue', Len(queue'), a) /\ queue'[Len(queue')].message = m
    BY <1>9, <1>11, <1>15 DEF IsDelta
  <2>2. /\ Chain(queue, v, h, a) => Chain(queue', w, h, a)
        /\ View(books[a], heard[a], queue, v, h, a) => View(books[a], heard[a], queue', w, h, a)
    <3> HIDE DEF v
    <3> QED
      BY <1>4, <1>5, <1>14, <1>15, <2>1, AppendDelta
  <2> QED
    BY <1>4, <1>13, <1>15, <2>2, BookQueued DEF w
<1>16. CASE /\ \A i \in 1..Len(queue') : queue'[i].kind # "market"
            /\ Stream!MarkNotReady
  BY <1>4, <1>13, <1>16, BookQueued DEF w
<1> QED
  BY <1>10, <1>12, <1>15, <1>16, QueuedFrames

LEMMA BookSends ==
  ASSUME StreamInv, NEW a \in Assets, NEW h \in Histories, Book(a, h), NEW b \in Assets,
         \/ Stream!SendBook(b) \/ Stream!SendBookAgain(b) \/ Stream!SendDelta(b)
         \/ Stream!SendBest(b)
  PROVE  Book(a, h)'
<1>1. exchange \in [Assets -> Venues] /\ exchange[b] \in Venues
  BY DEF StreamInv, VenueTypes
<1>2. CASE a # b
  <2>1. PICK m : Stream!Enqueue(Stream!Frame(b, m)) /\ Sound(m)
    BY SendKinds
  <2>2. exchange'[a] = exchange[a]
    BY <1>1, <1>2 DEF Stream!SendBook, Stream!SendBookAgain, Stream!SendDelta, Stream!SendBest
  <2> DEFINE frame == Stream!Frame(b, m)
  <2>3. frame \in StreamFrames /\ ~IsResolution(frame) /\ frame.asset = b
    BY <2>1, MarketFrame DEF Stream!Frame
  <2> HIDE DEF frame
  <2> QED
    BY <1>2, <2>1, <2>2, <2>3, BookPassed DEF frame
<1>3. CASE a = b /\ Stream!SendBook(b)
  <2>1. exchange' = [exchange EXCEPT ![a] = [exchange[a] EXCEPT !.snapshot = TRUE]]
    BY <1>3 DEF Stream!SendBook
  <2>2. exchange'[a] = [exchange[a] EXCEPT !.snapshot = TRUE]
    BY <1>1, <2>1
  <2>3. Stream!Enqueue(Stream!Frame(a, Stream!SnapshotOf(exchange[a])))
    BY <1>3 DEF Stream!SendBook
  <2> QED
    BY <2>2, <2>3, BookOffered
<1>4. CASE a = b /\ Stream!SendBookAgain(b)
  <2>1. /\ exchange' = exchange
        /\ Stream!Enqueue(Stream!Frame(a, Stream!SnapshotOf(exchange[a])))
    BY <1>4 DEF Stream!SendBookAgain
  <2> QED
    BY <2>1, BookOffered
<1>5. CASE a = b /\ Stream!SendDelta(b)
  BY <1>5, BookSent
<1>6. CASE a = b /\ Stream!SendBest(b)
  <2> DEFINE m == Stream!BestOf(exchange[a])
             frame == Stream!Frame(a, m)
  <2>1. exchange' = exchange /\ Stream!Enqueue(frame)
    BY <1>6 DEF Stream!SendBest
  <2>2. frame \in StreamFrames /\ ~IsResolution(frame)
    BY <1>1, <1>6, BestSound, MarketFrame
  <2>3. frame.message.event_type = "best_bid_ask"
    BY DEF Stream!Frame, Stream!BestOf
  <2> HIDE DEF frame
  <2> QED
    BY <2>1, <2>2, <2>3, BookPassed
<1> QED
  BY <1>2, <1>3, <1>4, <1>5, <1>6


-----------------------------------------------------------------------------
(* The market moves; the processor reads *)

LEMMA BookTrades ==
  ASSUME StreamInv, NEW a \in Assets, NEW h \in Histories, Book(a, h), NEW b \in Assets,
         Stream!Trade(b)
  PROVE  \E g \in Histories : Book(a, g)'
<1>1. exchange \in [Assets -> Venues] /\ exchange[a] \in Venues
  BY DEF StreamInv, VenueTypes
<1>2. UNCHANGED <<conn, queue, loop, books, heard, world>>
  BY MarketKinds
<1>3. CASE a # b
  <2>1. exchange'[a] = exchange[a]
    BY <1>1, <1>3 DEF Stream!Trade
  <2> QED
    BY <1>2, <2>1, BookSame
<1>4. CASE a = b
  <2> DEFINE v == exchange[a]
             w == exchange'[a]
  <2>1. History(v, h) /\ Owes(v, h)
    BY DEF Book
  <2>2. /\ \E g \in Histories : /\ History(w, g) /\ Owes(w, g)
                                /\ \A k \in 0..v.nth : g[k] = h[k]
        /\ w.nth \in Nat /\ v.nth <= w.nth /\ SentUpTo(w) = SentUpTo(v)
    BY <1>1, <1>4, <2>1, TradeHistory
  <2>3. PICK g \in Histories : /\ History(w, g) /\ Owes(w, g)
                               /\ \A k \in 0..v.nth : g[k] = h[k]
    BY <2>2
  <2>4. v.nth \in Nat /\ SentUpTo(v) \in Nat /\ SentUpTo(v) <= v.nth
    BY <1>1, <2>1, VenueCounts
  <2>5. w.nth \in Nat /\ v.nth <= w.nth /\ SentUpTo(w) = SentUpTo(v)
    BY <2>2
  <2>6. /\ Chain(queue, v, h, a) => Chain(queue, w, g, a)
        /\ View(books[a], heard[a], queue, v, h, a) => View(books[a], heard[a], queue, w, g, a)
    <3> HIDE DEF v, w
    <3> QED
      BY <2>3, <2>4, <2>5, SameHistory
  <2>7. Rest' = Rest
    BY DEF Rest, Stream!Current
  <2>8. Book(a, g)'
    BY <1>2, <2>3, <2>6, <2>7 DEF Book
  <2> QED
    BY <2>8
<1> QED
  BY <1>3, <1>4

\* What the processor has taken without a change of the book.
LEMMA BookTail ==
  ASSUME StreamInv, NEW a \in Assets, NEW h \in Histories, Book(a, h),
         queue # <<>>, queue' = Tail(queue), exchange'[a] = exchange[a],
         conn'.subscribed = conn.subscribed,
         \/ Blank(a)'
         \/ /\ books'[a] = books[a] /\ heard'[a] = heard[a]
            /\ ~IsDelta(queue, 1, a)
  PROVE  Book(a, h)'
<1>1. Shorter(queue, queue')
  BY TailIndices DEF StreamInv, QueueTypes
<1>2. a \in conn.subscribed \cup Rest => Chain(queue', exchange[a], h, a)
  BY <1>1, TailChain DEF Book
<1>3. Rest' = Rest
  BY DEF Rest, Stream!Current
<1>4. View(books'[a], heard'[a], queue', exchange'[a], h, a)
  <2>1. CASE Blank(a)'
    BY <2>1, BlankView DEF Blank
  <2>2. CASE books'[a] = books[a] /\ heard'[a] = heard[a] /\ ~IsDelta(queue, 1, a)
    <3>1. View(books[a], heard[a], queue, exchange[a], h, a)
      BY DEF Book
    <3>2. SameDepth(books[a], books[a])
      BY DEF SameDepth
    <3>3. IF books[a].snapshot_loaded
          THEN /\ books[a].reason \in {"READY", "BEST_PRICE_PENDING_DEPTH"}
               /\ books[a].ready <=> books[a].reason = "READY"
          ELSE ~books[a].ready
      BY <3>1 DEF View
    <3>4. View(books[a], heard[a], queue', exchange[a], h, a)
      BY <1>1, <2>2, <3>1, <3>2, <3>3, TailView
    <3> QED
      BY <2>2, <3>4
  <2> QED
    BY <2>1, <2>2
<1> QED
  BY <1>2, <1>3, <1>4 DEF Book

LEMMA BookProcessed ==
  ASSUME StreamInv, QuietInv, BlankInv, Plain, NEW a \in Assets, NEW h \in Histories, Book(a, h),
         Stream!Process
  PROVE  Book(a, h)'
<1> DEFINE f == queue[1]
<1>1. /\ queue # <<>> /\ queue' = Tail(queue) /\ f.kind = "market" /\ f.asset \in Assets
      /\ Sound(f.message) /\ conn.at = "up" /\ conn'.subscribed = conn.subscribed
      /\ exchange' = exchange
  BY ProcessKinds DEF SameSubscription
<1>2. \/ /\ conn.resync \/ f.asset \notin conn.subscribed
         /\ UNCHANGED <<conn, books, heard>>
      \/ /\ ~conn.resync /\ f.asset \in conn.subscribed
         /\ \E verdict \in Stream!Verdicts \cap (world \cup {"fresh"}) :
               Stream!ProcessMessage(f.asset, f.message, verdict)
         /\ \/ Stream!MarkNotReady
            \/ /\ conn' = conn
               /\ \A c \in Assets : c # f.asset =>
                     /\ books'[c] = Stream!Ensured(conn.subscribed)[c]
                     /\ heard'[c] = heard[c]
  BY ProcessKinds
<1>3. CASE /\ conn.resync \/ f.asset \notin conn.subscribed
           /\ UNCHANGED <<conn, books, heard>>
  <2>1. CASE a # f.asset
    BY <1>1, <1>3, <2>1, BookTail DEF IsDelta
  <2>2. CASE a = f.asset
    <3>1. Blank(a)
      BY <1>3, <2>2 DEF BlankInv
    <3>2. Blank(a)'
      BY <1>3, <3>1 DEF Blank
    <3> QED
      BY <1>1, <3>2, BookTail
  <2> QED
    BY <2>1, <2>2
<1>4. CASE Stream!MarkNotReady
  <2>1. Blank(a)'
    BY <1>4, BlankAfter
  <2> QED
    BY <1>1, <2>1, BookTail
<1>5. CASE a # f.asset /\ books'[a] = Stream!Ensured(conn.subscribed)[a] /\ heard'[a] = heard[a]
  <2>1. books'[a] = books[a]
    BY <1>5 DEF Stream!Ensured, BlankInv, Blank
  <2> QED
    BY <1>1, <1>5, <2>1, BookTail DEF IsDelta
<1>6. CASE /\ a = f.asset /\ a \in conn.subscribed
           /\ \E verdict \in Stream!Verdicts \cap (world \cup {"fresh"}) :
                 Stream!ProcessMessage(f.asset, f.message, verdict)
  <2> DEFINE b == books[a]
             m == f.message
             hd == heard[a]
             v == exchange[a]
             after == Stream!Apply(b, m, "fresh")
             hidden == Stream!Rejected(b, m, "fresh")
             read == m.nth > hd.nth /\ ~(hidden /\ m.event_type = "book" /\ b.snapshot_loaded)
             g == IF read THEN [nth |-> m.nth, truth |-> m.truth] ELSE hd
  <2>1. Stream!ProcessMessage(a, m, "fresh")
    <3>1. Stream!Verdicts \cap (world \cup {"fresh"}) = {"fresh"}
      BY DEF Plain, Stream!Verdicts
    <3>2. PICK verdict \in Stream!Verdicts \cap (world \cup {"fresh"}) :
              Stream!ProcessMessage(f.asset, f.message, verdict)
      BY <1>6
    <3> QED
      BY <1>6, <3>1, <3>2
  <2>2. /\ books \in [Assets -> Stream!OrderBookState] /\ heard \in [Assets -> Heard]
        /\ v \in Venues /\ b \in Stream!OrderBookState
    BY DEF StreamInv, VenueTypes, ViewTypes
  <2>3. Shorter(queue, queue')
    BY <1>1, TailIndices DEF StreamInv, QueueTypes
  <2>4. History(v, h) /\ Owes(v, h) /\ Chain(queue, v, h, a) /\ View(b, hd, queue, v, h, a)
    BY <1>6 DEF Book
  <2>5. SentUpTo(v) \in Nat /\ SentUpTo(v) <= v.nth
    BY <2>2, <2>4, VenueCounts
  <2>6. m.event_type = "best_bid_ask" => m.nth = -1
    <3>1. 1 \in 1..Len(queue)
      BY <2>3, ShorterIndices
    <3> QED
      BY <1>1, <3>1 DEF QuietInv
  <2>7. /\ Stream!Ensured(conn.subscribed)[a] = b
        /\ Stream!Ensured(conn.subscribed) \in [Assets -> Stream!OrderBookState]
    BY <1>6, <2>2, ClearedType DEF Stream!Ensured
  <2>8. \/ Stream!MarkNotReady
        \/ /\ ~(~hidden /\ after.reason \in Stream!IntegrityReasons)
           /\ books'[a] = after /\ heard'[a] = g
    BY <2>1, <2>2, <2>7 DEF Stream!ProcessMessage
  <2>9. \/ ~hidden /\ after.reason \in Stream!IntegrityReasons
        \/ View(after, g, queue', v, h, a)
    <3>1. queue[1].kind = "market" /\ queue[1].asset = a /\ queue[1].message = m
      BY <1>1, <1>6
    <3>2. Sound(m)
      BY <1>1
    <3>3. /\ m.nth > hd.nth /\ ~(hidden /\ m.event_type = "book" /\ b.snapshot_loaded)
                => g.nth = m.nth /\ g.truth = m.truth
          /\ ~(m.nth > hd.nth) => g = hd
      OBVIOUS
    <3> HIDE DEF b, m, hd, v, g
    <3> QED
      BY <2>2, <2>3, <2>4, <2>5, <2>6, <3>1, <3>2, <3>3, ProcessView
  <2> HIDE DEF b, m, hd, v, after, hidden, g, f
  <2>10. CASE View(after, g, queue', v, h, a) /\ books'[a] = after /\ heard'[a] = g
    <3>1. Rest' = Rest
      BY DEF Rest, Stream!Current
    <3>2. Chain(queue', v, h, a)
      BY <2>3, <2>4, TailChain
    <3> QED
      BY <1>1, <2>4, <2>10, <3>1, <3>2 DEF Book, v
  <2> QED
    BY <1>4, <2>8, <2>9, <2>10
<1> QED
  BY <1>2, <1>3, <1>4, <1>5, <1>6


-----------------------------------------------------------------------------
(* The connection and its loop *)

\* Venues that are asked anew, or no more.
LEMMA AskedVenues ==
  ASSUME NEW a \in Assets, NEW assets,
         exchange' = Stream!Listening(assets) \/ exchange' = Stream!Deaf(assets)
  PROVE  /\ a \notin assets => exchange'[a] = exchange[a]
         /\ \/ exchange'[a] = exchange[a]
            \/ \E l \in BOOLEAN : exchange'[a] =
                  [exchange[a] EXCEPT !.listens = l, !.snapshot = FALSE, !.owed = <<>>]
<1>1. CASE exchange' = Stream!Listening(assets)
  BY <1>1 DEF Stream!Listening
<1>2. CASE exchange' = Stream!Deaf(assets)
  BY <1>2 DEF Stream!Deaf
<1> QED
  BY <1>1, <1>2

LEMMA BookConnects ==
  ASSUME StreamInv, BlankInv, NEW a \in Assets, NEW h \in Histories, Book(a, h),
         Stream!Dial \/ Stream!Connect \/ Stream!Disconnect
  PROVE  Book(a, h)'
<1>1. exchange[a] \in Venues
  BY DEF StreamInv, VenueTypes
<1>2. CASE Stream!Dial
  <2>1. conn.at = "down" /\ UNCHANGED <<exchange, queue, books, heard>>
    BY <1>2, DialKinds
  <2>2. Blank(a)'
    BY <2>1 DEF BlankInv, Blank
  <2>3. queue' = <<>>
    BY <2>1 DEF StreamInv, QueueTypes
  <2> QED
    BY <1>1, <2>1, <2>2, <2>3, BookBlank
<1>3. CASE Stream!Connect
  <2>1. exchange' = Stream!Listening(conn.subscribed) /\ Stream!MarkNotReady /\ queue' = <<>>
    BY <1>3, ConnectKinds
  <2>2. Blank(a)'
    BY <2>1, BlankAfter
  <2>3. \/ exchange'[a] = exchange[a]
        \/ \E l \in BOOLEAN : exchange'[a] =
              [exchange[a] EXCEPT !.listens = l, !.snapshot = FALSE, !.owed = <<>>]
    BY <2>1, AskedVenues
  <2>4. \A i \in 1..Len(queue') : ~(queue'[i].kind = "market" /\ queue'[i].asset = a)
    BY <2>1
  <2> QED
    BY <1>1, <2>2, <2>3, <2>4, BookBlank
<1>4. CASE Stream!Disconnect
  <2>1. exchange' = Stream!Deaf(Assets) /\ Stream!MarkNotReady /\ queue' = <<>>
    BY <1>4, DisconnectKinds
  <2>2. Blank(a)'
    BY <2>1, BlankAfter
  <2>3. \/ exchange'[a] = exchange[a]
        \/ \E l \in BOOLEAN : exchange'[a] =
              [exchange[a] EXCEPT !.listens = l, !.snapshot = FALSE, !.owed = <<>>]
    BY <2>1, AskedVenues
  <2>4. \A i \in 1..Len(queue') : ~(queue'[i].kind = "market" /\ queue'[i].asset = a)
    BY <2>1
  <2> QED
    BY <1>1, <2>2, <2>3, <2>4, BookBlank
<1> QED
  BY <1>2, <1>3, <1>4

LEMMA BookLoops ==
  ASSUME StreamInv, ControlInv, QuietInv, BlankInv,
         NEW a \in Assets, NEW h \in Histories, Book(a, h),
         \/ Stream!LoopWakes \/ Stream!LoopSubscribes \/ Stream!LoopNotes \/ Stream!LoopReady
         \/ Stream!LoopFinishes
  PROVE  Book(a, h)'
<1>1. exchange[a] \in Venues /\ Rest = Assets \ Stream!Current
  BY DEF StreamInv, VenueTypes, Rest
<1>2. CASE Stream!LoopWakes
  <2>1. /\ books' = Stream!Ensured(conn.subscribed \cup (wanted \ conn.subscribed))
        /\ UNCHANGED <<exchange, conn, queue, heard>>
    BY <1>2, LoopKinds
  <2>2. books'[a] = books[a]
    BY <2>1 DEF Stream!Ensured, BlankInv, Blank
  <2> QED
    BY <2>1, <2>2, BookSame
<1>3. CASE Stream!LoopSubscribes
  <2>1. /\ loop.pc = "refresh" /\ exchange' = Stream!Listening(loop.add)
        /\ UNCHANGED <<conn, queue, books, heard>>
    BY <1>3, LoopKinds
  <2>2. CASE a \notin loop.add
    BY <2>1, <2>2, AskedVenues, BookSame
  <2>3. CASE a \in loop.add
    <3>1. a \in Rest /\ a \notin conn.subscribed
      BY <1>1, <2>1, <2>3 DEF ControlInv
    <3>2. ~exchange[a].listens
      BY <2>1, <3>1 DEF QuietInv
    <3>3. \A i \in 1..Len(queue') : ~(queue'[i].kind = "market" /\ queue'[i].asset = a)
      BY <2>1, <3>1, <3>2 DEF QuietInv, About
    <3>4. Blank(a)'
      BY <2>1, <3>1 DEF BlankInv, Blank
    <3>5. \/ exchange'[a] = exchange[a]
          \/ \E l \in BOOLEAN : exchange'[a] =
                [exchange[a] EXCEPT !.listens = l, !.snapshot = FALSE, !.owed = <<>>]
      BY <2>1, AskedVenues
    <3> QED
      BY <1>1, <3>3, <3>4, <3>5, BookBlank
  <2> QED
    BY <2>2, <2>3
<1>4. CASE Stream!LoopNotes
  <2>1. /\ loop.pc = "sent" /\ conn'.subscribed = conn.subscribed \cup loop.add
        /\ UNCHANGED <<exchange, queue, books, heard>>
    BY <1>4, LoopKinds
  <2>2. loop.add \cap Stream!Current = {}
    BY <2>1 DEF ControlInv
  <2> QED
    BY <1>1, <2>1, <2>2, BookSame
<1>5. CASE Stream!LoopReady
  <2>1. UNCHANGED <<exchange, conn, queue, books, heard>>
    BY <1>5, LoopKinds
  <2> QED
    BY <2>1, BookSame
<1>6. CASE Stream!LoopFinishes
  <2>1. /\ loop.pc = "drop" /\ conn'.subscribed = loop.wanted
        /\ exchange' = Stream!Deaf(conn.subscribed \ loop.wanted)
        /\ books' = Stream!Ensured(loop.wanted)
        /\ heard' = [b \in Assets |-> IF b \in loop.wanted THEN heard[b] ELSE Stream!Unheard]
        /\ queue' = queue
    BY <1>6, LoopKinds
  <2>2. Stream!Current \subseteq conn.subscribed /\ loop.wanted \in {Assets, Rest}
    BY <2>1 DEF ControlInv
  <2>3. CASE a \in loop.wanted
    <3>1. books'[a] = books[a] /\ heard'[a] = heard[a]
      BY <2>1, <2>3 DEF Stream!Ensured
    <3>2. exchange'[a] = exchange[a]
      <4>1. a \notin conn.subscribed \ loop.wanted
        BY <2>3
      <4> QED
        BY <2>1, <4>1, AskedVenues
    <3>3. a \in conn.subscribed \cup Rest
      BY <1>1, <2>2
    <3> QED
      BY <2>1, <3>1, <3>2, <3>3, BookSame
  <2>4. CASE a \notin loop.wanted
    <3>1. Blank(a)'
      BY <2>1, <2>4 DEF Stream!Ensured, Blank
    <3>2. a \notin conn'.subscribed \cup Rest
      BY <2>1, <2>2, <2>4
    <3>3. \/ exchange'[a] = exchange[a]
          \/ \E l \in BOOLEAN : exchange'[a] =
                [exchange[a] EXCEPT !.listens = l, !.snapshot = FALSE, !.owed = <<>>]
      BY <2>1, AskedVenues
    <3> QED
      BY <1>1, <3>1, <3>2, <3>3, BookBlank
  <2> QED
    BY <2>3, <2>4
<1> QED
  BY <1>2, <1>3, <1>4, <1>5, <1>6

-----------------------------------------------------------------------------
LEMMA BookNext ==
  ASSUME ReaderInv, Plain, BookInv, Stream!Next
  PROVE  BookInv'
<1> StreamInv /\ ControlInv /\ QuietInv /\ BlankInv
  BY DEF ReaderInv
<1> SUFFICES ASSUME NEW a \in Assets PROVE \E g \in Histories : Book(a, g)'
  BY DEF BookInv
<1>1. PICK h \in Histories : Book(a, h)
  BY DEF BookInv
<1>2. CASE \E b \in Assets : \/ Stream!SendBook(b) \/ Stream!SendBookAgain(b)
                             \/ Stream!SendDelta(b) \/ Stream!SendBest(b)
  BY <1>1, <1>2, BookSends
<1>3. CASE \E b \in Assets : Stream!Trade(b)
  BY <1>1, <1>3, BookTrades
<1>4. CASE \E b \in Assets : Stream!Omit(b)
  BY <1>4 DEF Plain, Stream!Omit
<1>5. CASE Stream!Rotate
  <2>1. UNCHANGED <<conn, queue, books, heard, exchange>>
    BY <1>5, MarketKinds DEF Stream!Rotate
  <2> QED
    BY <1>1, <2>1, BookSame
<1>6. CASE Stream!SendResolution
  <2>1. /\ Stream!Enqueue(ResolutionFrame) /\ exchange' = exchange /\ resolution # "received"
        /\ ResolutionFrame \in StreamFrames /\ ResolutionFrame.kind # "market"
    BY <1>6, ResolutionKinds DEF Stream!SendResolution, StreamFrames, ResolutionFrame, Stream!Resolved
  <2> QED
    BY <1>1, <2>1, BookPassed
<1>7. CASE Stream!Dial \/ Stream!Connect \/ Stream!ReconciliationRaises \/ Stream!PipelineEnds
  BY <1>1, <1>7, BookConnects DEF Stream!ReconciliationRaises, Stream!PipelineEnds
<1>8. CASE Stream!Cut \/ Stream!ReconciliationEnds \/ Stream!LoopTimesOut
  <2>1. conn'.subscribed = conn.subscribed /\ UNCHANGED <<exchange, queue, books, heard>>
    BY <1>8, GateKinds DEF SameSubscription
  <2> QED
    BY <1>1, <2>1, BookSame
<1>9. CASE Stream!Process
  BY <1>1, <1>9, BookProcessed
<1>10. CASE Stream!ProcessResolution
  <2>1. /\ queue # <<>> /\ queue' = Tail(queue) /\ queue[1].kind # "market"
        /\ UNCHANGED <<exchange, conn, books, heard>>
    BY <1>10, StoreKinds
  <2> QED
    BY <1>1, <2>1, BookTail DEF IsDelta
<1>11. CASE \/ Stream!LoopWakes \/ Stream!LoopSubscribes \/ Stream!LoopNotes \/ Stream!LoopReady
            \/ Stream!LoopFinishes
  BY <1>1, <1>11, BookLoops
<1> QED
  BY <1>2, <1>3, <1>4, <1>5, <1>6, <1>7, <1>8, <1>9, <1>10, <1>11 DEF Stream!Next

-----------------------------------------------------------------------------
(* The beginning *)

LEMMA ReaderInit == Stream!Init => ReaderInv /\ BookInv
<1> SUFFICES ASSUME Stream!Init PROVE ReaderInv /\ BookInv
  OBVIOUS
<1>1. StreamInv
  BY StreamInvInit
<1>2. /\ wanted = Stream!Current /\ conn.at = "down" /\ conn.subscribed = {} /\ conn.resync = FALSE
      /\ conn.reading = FALSE /\ loop.pc = "sleep" /\ queue = <<>>
      /\ books = [a \in Assets |-> Stream!Cleared] /\ heard = [a \in Assets |-> Stream!Unheard]
  BY DEF Stream!Init, Stream!Down, Stream!Resting
<1>3. Stream!Current # {}
  BY <1>1, SubscribedAssets
<1>4. \A a \in Assets : exchange[a] = Stream!Late \/ exchange[a] = Stream!QuietVenue
  BY DEF Stream!Init
<1>5. ASSUME NEW a \in Assets
      PROVE  /\ exchange[a].nth = 0 /\ exchange[a].owed = <<>> /\ exchange[a].listens = FALSE
             /\ exchange[a] \in Venues
  BY <1>1, <1>4 DEF Stream!Late, Stream!QuietVenue, StreamInv, VenueTypes
<1>6. ControlInv
  BY <1>2, <1>3 DEF ControlInv
<1>7. \A a \in Assets : Blank(a)
  BY <1>2 DEF Blank
<1>8. BlankInv
  BY <1>2, <1>7 DEF BlankInv
<1>9. QuietInv
  <2>1. 1..Len(queue) = {}
    BY <1>2
  <2>2. \A a \in Rest : a \in Assets
    BY DEF Rest
  <2>3. \A a \in Assets : ~exchange[a].listens
    BY <1>5
  <2> QED
    BY <2>1, <2>2, <2>3 DEF QuietInv
<1>10. ASSUME NEW a \in Assets PROVE \E h \in Histories : Book(a, h)
  <2> DEFINE v == exchange[a]
  <2>1. v \in Venues /\ v.levels \in SUBSET Prices /\ v.clock \in 1..MaxTime /\ v.nth = 0 /\ v.owed = <<>>
    BY <1>5, VenueFields
  <2>2. PICK p \in Prices : TRUE
    BY StreamConstants
  <2> DEFINE c == [at |-> v.clock, truth |-> v.levels, price |-> p, rests |-> FALSE]
             h == [k \in Nat |-> c]
  <2>3. h \in Histories /\ h[0].truth = v.levels /\ h[0].at = v.clock /\ h[0].at <= h[0].at
    BY <2>1 DEF Histories, Changes
  <2> HIDE DEF h, v
  <2>4. History(v, h)
    BY <2>1, <2>3 DEF History, Whole
  <2>5. Owes(v, h)
    BY <2>1 DEF Owes, SentUpTo
  <2>6. Chain(queue, v, h, a)
    BY <1>2, EmptyChain
  <2>7. View(books[a], heard[a], queue, v, h, a)
    BY <1>2, BlankView
  <2>8. Book(a, h)
    BY <2>4, <2>5, <2>6, <2>7 DEF Book, v
  <2> QED
    BY <2>3, <2>8
<1> QED
  BY <1>1, <1>6, <1>8, <1>9, <1>10 DEF ReaderInv, BookInv

LEMMA WorldStays ==
  ASSUME StreamInv, Stream!Next
  PROVE  world' = world
<1>1. CASE (\E a \in Assets : Stream!Trade(a) \/ Stream!Omit(a)) \/ Stream!Rotate
  BY <1>1, MarketKinds
<1>2. CASE \/ \E a \in Assets : \/ Stream!SendBook(a) \/ Stream!SendBookAgain(a)
                               \/ Stream!SendDelta(a) \/ Stream!SendBest(a)
           \/ Stream!SendResolution
  BY <1>2 DEF Stream!SendBook, Stream!SendBookAgain, Stream!SendDelta, Stream!SendBest,
              Stream!SendResolution, Stream!Enqueue
<1>3. CASE \/ Stream!Dial \/ Stream!Connect \/ Stream!Cut \/ Stream!ReconciliationEnds
           \/ Stream!ReconciliationRaises \/ Stream!PipelineEnds
  BY <1>3 DEF Stream!Dial, Stream!Connect, Stream!Cut, Stream!ReconciliationEnds,
              Stream!ReconciliationRaises, Stream!PipelineEnds, Stream!Disconnect
<1>4. CASE Stream!Process \/ Stream!ProcessResolution
  BY <1>4 DEF Stream!Process, Stream!ProcessResolution
<1>5. CASE \/ Stream!LoopWakes \/ Stream!LoopSubscribes \/ Stream!LoopNotes \/ Stream!LoopReady
           \/ Stream!LoopTimesOut \/ Stream!LoopFinishes
  BY <1>5 DEF Stream!LoopWakes, Stream!LoopSubscribes, Stream!LoopNotes, Stream!LoopReady,
              Stream!LoopTimesOut, Stream!LoopFinishes
<1> QED
  BY <1>1, <1>2, <1>3, <1>4, <1>5 DEF Stream!Next

(* A book that is ready is the exchange's, level by level, as of the last   *)
(* message read about it on this connection: whatever the prices, the       *)
(* assets, the capacity of the queue, the saturations, resynchronisations,  *)
(* rotations and snapshots that overtake deltas, as long as the exchange    *)
(* omits no change and every message comes fresh: neither stale nor with a  *)
(* timestamp that makes the code drop it whole.                             *)
THEOREM ReadyBooksAreTheExchanges ==
  Spec => []("stale" \notin world => ReadyBookIsTheExchanges)
<1> DEFINE Inv == ReaderInv /\ (Plain => BookInv)
<1>1. Init => Inv
  BY ReaderInit DEF Init
<1>2. Inv /\ [Next]_feedVars => Inv'
  <2> SUFFICES ASSUME Inv, [Stream!Next]_streamVars PROVE Inv'
    BY StreamSteps
  <2>1. CASE UNCHANGED streamVars
    BY <2>1 DEF streamVars, ReaderInv, StreamInv, VenueTypes, ViewTypes, QueueTypes, ResolutionInv, Waits,
       Single, ControlInv, QuietInv, BlankInv, Blank, About, Rest, Plain, BookInv, Book, Stream!Current
  <2>2. CASE Stream!Next
    <3>1. world' = world
      BY <2>2, WorldStays DEF ReaderInv
    <3>2. ReaderInv'
      BY <2>2, StreamInvNext, ControlNext, QuietNext, BlankNext DEF ReaderInv
    <3>3. Plain' => Plain
      BY <3>1 DEF Plain
    <3> QED
      BY <2>2, <3>2, <3>3, BookNext
  <2> QED
    BY <2>1, <2>2
<1>3. Inv => ("stale" \notin world => ReadyBookIsTheExchanges)
  <2> SUFFICES ASSUME Inv, Plain, NEW a \in Assets, books[a].ready
               PROVE  books[a].levels = heard[a].truth
    BY DEF Plain, ReadyBookIsTheExchanges, Stream!ReadyBookIsTheExchanges
  <2>1. PICK h \in Histories : View(books[a], heard[a], queue, exchange[a], h, a)
    BY DEF BookInv, Book
  <2> QED
    BY <2>1 DEF View
<1> QED
  BY <1>1, <1>2, <1>3, PTL DEF Spec, feedVars
=============================================================================
