----------------------------- MODULE FeedsProofs -----------------------------
(***************************************************************************)
(* Proofs about MCFeeds: what lies between the exchange and the strategy   *)
(* keeps its promises whatever the capacities, the bounds, the tokens and  *)
(* the worlds.  Every part of MCFeeds is a projection of it, and a part    *)
(* that is not followed stutters, so that each invariant is one of the     *)
(* steps of its own module.                                                *)
(***************************************************************************)
EXTENDS MCFeeds, FiniteSetTheorems, SequenceTheorems, WellFoundedInduction, TLAPS

feedVars == <<focus, streamVars, userVars, rowVars, frameVars, windowVars>>

(* A step of MCFeeds is, of every module, a step or a stutter. *)
LEMMA RowSteps == [Next]_feedVars => [Row!Next]_rowVars
  BY DEF Next, feedVars, rowVars

LEMMA PrivateSteps == [Next]_feedVars => [Private!Next]_userVars
  BY DEF Next, feedVars, userVars

LEMMA FrameSteps == [Next]_feedVars => [Frames!Next]_frameVars
  BY DEF Next, feedVars, frameVars

LEMMA WindowSteps == [Next]_feedVars => [Window!Next]_windowVars
  BY DEF Next, feedVars, windowVars

LEMMA StreamSteps == [Next]_feedVars => [Stream!Next]_streamVars
  BY DEF Next, feedVars, streamVars

-----------------------------------------------------------------------------
(* Naturals *)

\* A set of naturals that is not empty has a least element.
LEMMA LeastNatural ==
  ASSUME NEW S, S \subseteq Nat, S # {}
  PROVE  \E m \in S : \A n \in S : m <= n
<1> DEFINE R == {ss \in Nat \X Nat : ss[1] < ss[2]}
<1>1. IsWellFoundedOn(OpToRel(<, Nat), Nat)
  BY NatLessThanWellFounded
<1>2. OpToRel(<, Nat) = R
  BY DEF OpToRel
<1>3. IsWellFoundedOn(R, Nat)
  BY <1>1, <1>2, Zenon
<1>4. \A n, m \in Nat : n < m => <<n, m>> \in R
  OBVIOUS
<1> HIDE DEF R
<1>5. PICK m \in S : \A n \in S : ~(<<n, m>> \in R)
  BY <1>3, WFMin
<1>6. \A n \in S : ~(n < m)
  BY <1>4, <1>5, Zenon
<1>7. \A n \in S : m <= n
  BY <1>6
<1> QED
  BY <1>7

\* One that is bounded has a greatest.
LEMMA GreatestNatural ==
  ASSUME NEW S, NEW k \in Nat, S \subseteq 0..k, S # {}
  PROVE  \E m \in S : \A n \in S : n <= m
<1> DEFINE Above == {b \in Nat : \A n \in S : n <= b}
<1>1. k \in Above
  OBVIOUS
<1>2. PICK b \in Above : \A c \in Above : b <= c
  <2> Above \subseteq Nat /\ Above # {}
    BY <1>1
  <2> HIDE DEF Above
  <2> QED
    BY LeastNatural
<1>3. b \in S
  <2> SUFFICES ASSUME b \notin S PROVE FALSE
    OBVIOUS
  <2>1. \A n \in S : n <= b - 1
    BY <1>2
  <2>2. b - 1 \in Nat
    <3>1. PICK n : n \in S
      OBVIOUS
    <3>2. n \in 0..k
      BY <3>1
    <3>3. n <= b - 1
      BY <2>1, <3>1
    <3>4. b \in Nat
      BY <1>2
    <3> QED
      BY <3>2, <3>3, <3>4
  <2>3. b - 1 \in Above
    BY <2>1, <2>2
  <2> QED
    BY <1>2, <2>2, <2>3
<1> QED
  BY <1>2, <1>3

-----------------------------------------------------------------------------
(* The readiness row *)

RowValues == [value : Row!Readiness \cup {""}, n : 0..MaxQueued]

Rows == [value : Row!Readiness, n : 0..MaxQueued, by : {"seed", "stream", "strategy"}]

\* The value queued last is pending, or being written with nothing pending
\* behind it, or the row with nothing on its way.
RowInv ==
    /\ last \in RowValues /\ pending \in RowValues /\ batch \in RowValues
    /\ row \in Rows
    /\ batch # Row!Unset => batch.value \in Row!Readiness
    /\ pending # Row!Unset => pending.value \in Row!Readiness
    /\ pending # Row!Unset => pending = last
    /\ pending = Row!Unset /\ batch # Row!Unset => batch = last
    /\ last.value # "" =>
          \/ pending = last
          \/ pending = Row!Unset /\ batch = last
          \/ pending = Row!Unset /\ batch = Row!Unset /\ row.n = last.n

LEMMA RowAssumption == MaxQueued \in Nat /\ MaxTrouble \in Nat
  BY FeedsAssumption DEF Row!ReadinessRowAssumption

\* The record of no value, and no value of the stream is it.
LEMMA RowUnset ==
    /\ Row!Unset \in RowValues /\ Row!Unset.value = "" /\ Row!Unset.n = 0
    /\ "" \notin Row!Readiness /\ "NOT_READY" \in Row!Readiness
<1>1. "" \notin Row!Readiness /\ "NOT_READY" \in Row!Readiness
  BY DEF Row!Readiness
<1>2. Row!Unset \in RowValues
  BY RowAssumption DEF Row!Unset, RowValues
<1>3. Row!Unset.value = "" /\ Row!Unset.n = 0
  BY DEF Row!Unset
<1> QED
  BY <1>1, <1>2, <1>3

LEMMA RowInvInit == Row!Init => RowInv
<1> SUFFICES ASSUME Row!Init PROVE RowInv
  OBVIOUS
<1>1. row = [value |-> "NOT_READY", n |-> 0, by |-> "seed"]
  BY DEF Row!Init
<1>2. "NOT_READY" \in Row!Readiness /\ 0 \in 0..MaxQueued
  <2>1. 0 \in 0..MaxQueued
    BY RowAssumption
  <2> QED
    BY <2>1, RowUnset
<1>3. row \in Rows
  BY <1>1, <1>2 DEF Rows
<1> QED
  BY <1>3, RowUnset DEF Row!Init, RowInv

LEMMA RowInvNext ==
  ASSUME RowInv, [Row!Next]_rowVars
  PROVE  RowInv'
<1>a. last.n \in 0..MaxQueued /\ batch.n \in 0..MaxQueued /\ row.n \in 0..MaxQueued
  BY DEF RowInv, RowValues, Rows
<1>b. Row!Unset \in RowValues /\ "" \notin Row!Readiness
  BY RowUnset
<1>1. CASE Row!QueueState
  <2>1. PICK value \in Row!Readiness :
             last.n < MaxQueued /\ last' = [value |-> value, n |-> last.n + 1]
    BY <1>1 DEF Row!QueueState
  <2>2. last.n + 1 \in 0..MaxQueued
    BY <1>a, <2>1, RowAssumption
  <2>3. /\ last' \in RowValues /\ last'.value \in Row!Readiness
        /\ pending' = last' /\ UNCHANGED <<batch, row>>
    BY <1>1, <2>1, <2>2 DEF RowValues, Row!QueueState
  <2> QED
    BY <2>3, RowUnset DEF RowInv
<1>2. CASE Row!TakeBatch
  BY <1>2 DEF RowInv, Row!TakeBatch
<1>3. CASE Row!CommitBatch
  <2>1. /\ row' = [value |-> batch.value, n |-> batch.n, by |-> "stream"]
        /\ batch.value \in Row!Readiness /\ batch.n \in 0..MaxQueued
    BY <1>a, <1>3 DEF RowInv, Row!CommitBatch, Row!Stored
  <2>2. /\ row' \in Rows
        /\ row'.n = batch.n
    BY <2>1 DEF Rows
  <2> QED
    BY <1>3, <2>2, RowUnset DEF RowInv, Row!CommitBatch
<1>4. CASE Row!FailBatch
  <2>1. batch # Row!Unset /\ batch' = Row!Unset /\ UNCHANGED <<last, row>>
    BY <1>4 DEF Row!FailBatch
  <2>2. pending' = IF pending = Row!Unset THEN batch ELSE pending
    BY <1>4 DEF Row!FailBatch, Row!Requeue
  <2> QED
    BY <1>b, <2>1, <2>2 DEF RowInv
<1>5. CASE Row!AbortEntry
  <2>1. /\ row' \in Rows
        /\ row'.n = row.n
    BY <1>a, <1>5, RowUnset DEF Rows, Row!AbortEntry
  <2> QED
    BY <1>5, <2>1 DEF RowInv, Row!AbortEntry
<1>6. CASE Row!Restart
  <2>1. last' \in RowValues /\ last'.value = ""
    BY <1>a, <1>6 DEF RowValues, Row!Restart
  <2>2. row' = row \/ (batch # Row!Unset /\ row' = Row!Stored(batch))
    BY <1>6 DEF Row!Restart
  <2>3. row' \in Rows
    <3>1. batch.value \in Row!Readiness => Row!Stored(batch) \in Rows
      BY <1>a DEF Rows, Row!Stored
    <3> QED
      BY <2>2, <3>1 DEF RowInv
  <2>4. pending' = Row!Unset /\ batch' = Row!Unset
    BY <1>6 DEF Row!Restart
  <2> QED
    BY <1>b, <2>1, <2>3, <2>4 DEF RowInv
<1>7. CASE UNCHANGED rowVars
  BY <1>7 DEF RowInv, rowVars
<1> QED
  BY <1>1, <1>2, <1>3, <1>4, <1>5, <1>6, <1>7 DEF Row!Next

(* However many batches fail and whatever is queued while one is written:  *)
(* the value queued last waits, is being written, or is the row.           *)
THEOREM RowFollowsTheStream == Spec => []RowFollowsStream
<1>1. Init => RowInv
  BY RowInvInit DEF Init
<1>2. RowInv /\ [Next]_feedVars => RowInv'
  BY RowSteps, RowInvNext
<1>3. RowInv => RowFollowsStream
  BY DEF RowInv, RowFollowsStream, Row!RowFollowsStream
<1> QED
  BY <1>1, <1>2, <1>3, PTL DEF Spec, feedVars

-----------------------------------------------------------------------------
(* The frames *)

LEMMA FrameAssumption ==
    /\ ConditionOf \in [Tokens -> Conditions] /\ Held \in Tokens
    /\ CriticalCap \in Nat /\ PendingCap \in Nat \ {0} /\ MaxFrames \in Nat
  BY FeedsAssumption DEF Frames!FrameQueueAssumption

\* What RemoveAt leaves: one element less, the others in their order.
LEMMA RemoveAtProperties ==
  ASSUME NEW S, NEW s \in Seq(S), NEW i \in 1..Len(s)
  PROVE  /\ Frames!RemoveAt(s, i) \in Seq(S)
         /\ Len(Frames!RemoveAt(s, i)) = Len(s) - 1
         /\ \A j \in 1..(Len(s) - 1) :
               Frames!RemoveAt(s, i)[j] = IF j < i THEN s[j] ELSE s[j + 1]
<1> DEFINE front == SubSeq(s, 1, i - 1)  back == SubSeq(s, i + 1, Len(s))
<1>0. Len(s) \in Nat /\ \A j \in 1..Len(s) : s[j] \in S
  BY LenProperties, ElementOfSeq
<1>1. front \in Seq(S) /\ Len(front) = i - 1 /\ \A j \in 1..(i - 1) : front[j] = s[j]
  <2>1. 1 \in Int /\ i - 1 \in Int /\ \A j \in 1..(i - 1) : s[j] \in S
    BY <1>0
  <2>2. /\ SubSeq(s, 1, i - 1) \in Seq(S)
        /\ Len(SubSeq(s, 1, i - 1)) = IF 1 <= i - 1 THEN i - 1 - 1 + 1 ELSE 0
        /\ \A j \in 1..(i - 1 - 1 + 1) : SubSeq(s, 1, i - 1)[j] = s[1 + j - 1]
    BY <2>1, SubSeqProperties
  <2> QED
    BY <1>0, <2>2
<1>2. /\ back \in Seq(S) /\ Len(back) = Len(s) - i
      /\ \A j \in 1..(Len(s) - i) : back[j] = s[i + j]
  <2>1. i + 1 \in Int /\ Len(s) \in Int /\ \A j \in (i + 1)..Len(s) : s[j] \in S
    BY <1>0
  <2>2. /\ SubSeq(s, i + 1, Len(s)) \in Seq(S)
        /\ Len(SubSeq(s, i + 1, Len(s))) = IF i + 1 <= Len(s) THEN Len(s) - (i + 1) + 1 ELSE 0
        /\ \A j \in 1..(Len(s) - (i + 1) + 1) : SubSeq(s, i + 1, Len(s))[j] = s[i + 1 + j - 1]
    BY <2>1, SubSeqProperties
  <2> QED
    BY <1>0, <2>2
<1>3. /\ front \o back \in Seq(S) /\ Len(front \o back) = Len(front) + Len(back)
      /\ \A j \in 1..(Len(front) + Len(back)) :
            (front \o back)[j] = IF j <= Len(front) THEN front[j] ELSE back[j - Len(front)]
  BY <1>1, <1>2, ConcatProperties
<1>4. Frames!RemoveAt(s, i) = front \o back
  BY DEF Frames!RemoveAt
<1> HIDE DEF front, back
<1>5. Len(front) + Len(back) = Len(s) - 1
  BY <1>0, <1>1, <1>2
<1>6. ASSUME NEW j \in 1..(Len(s) - 1)
      PROVE  (front \o back)[j] = IF j < i THEN s[j] ELSE s[j + 1]
  <2>1. CASE j < i
    <3>1. j \in 1..(i - 1) /\ j <= Len(front)
      BY <1>0, <1>1, <2>1
    <3> QED
      BY <1>1, <1>3, <1>5, <2>1, <3>1
  <2>2. CASE ~(j < i)
    <3>1. /\ ~(j <= Len(front)) /\ j - Len(front) = j + 1 - i
          /\ j + 1 - i \in 1..(Len(s) - i) /\ i + (j + 1 - i) = j + 1
      BY <1>0, <1>1, <2>2
    <3>2. (front \o back)[j] = back[j - Len(front)]
      BY <1>3, <1>5, <3>1
    <3>3. back[j + 1 - i] = s[i + (j + 1 - i)]
      BY <1>2, <3>1
    <3> QED
      BY <2>2, <3>1, <3>2, <3>3
  <2> QED
    BY <2>1, <2>2
<1> QED
  BY <1>3, <1>4, <1>5, <1>6

\* A frame that stops the position and that the cap may not evict.
Saves(frame) == Frames!Stops(frame) /\ "STOP_066" \in frame.types

\* A frame that may take the place of one that saves.
Rivals(frame) == frame.condition = ConditionOf[Held] /\ "STOP_066" \in frame.types

FrameInv ==
    /\ Frames!TypeOK
    /\ position.known_stage = 1 => position.stage = 1
    /\ ~LatchFails /\ dipped = {Held} =>
          /\ position.known
          /\ position.stage = 1 \/ \E i \in 1..Len(critical) : Saves(critical[i])

\* The cap takes nothing from the queue that saves.
LEMMA EnforceCapKeeps ==
  ASSUME NEW queue1 \in Seq(Frames!FrameRecords)
  PROVE  /\ Frames!EnforceCap(queue1) \in Seq(Frames!FrameRecords)
         /\ (\E i \in 1..Len(queue1) : Saves(queue1[i]))
               => \E i \in 1..Len(Frames!EnforceCap(queue1)) : Saves(Frames!EnforceCap(queue1)[i])
<1> DEFINE victims == {i \in 1..Len(queue1) : "STOP_066" \notin queue1[i].types}
           v == CHOOSE i \in victims : \A j \in victims : i <= j
<1>0. Len(queue1) \in Nat
  BY LenProperties
<1>1. CASE Len(queue1) <= CriticalCap \/ victims = {}
  BY <1>1 DEF Frames!EnforceCap
<1>2. CASE ~(Len(queue1) <= CriticalCap \/ victims = {})
  <2>1. v \in victims
    <3>1. victims \subseteq Nat /\ victims # {}
      BY <1>0, <1>2
    <3> HIDE DEF victims
    <3>2. PICK m \in victims : \A j \in victims : m <= j
      BY <3>1, LeastNatural
    <3> QED
      BY <3>2
  <2>2. Frames!EnforceCap(queue1) = Frames!RemoveAt(queue1, v)
    BY <1>2 DEF Frames!EnforceCap
  <2> HIDE DEF v
  <2>3. v \in 1..Len(queue1) /\ ~Saves(queue1[v])
    BY <2>1 DEF Saves
  <2> HIDE DEF victims
  <2>4. /\ Frames!RemoveAt(queue1, v) \in Seq(Frames!FrameRecords)
        /\ Len(Frames!RemoveAt(queue1, v)) = Len(queue1) - 1
        /\ \A j \in 1..(Len(queue1) - 1) :
              Frames!RemoveAt(queue1, v)[j] = IF j < v THEN queue1[j] ELSE queue1[j + 1]
    BY <2>3, RemoveAtProperties
  <2>5. ASSUME NEW i \in 1..Len(queue1), Saves(queue1[i])
        PROVE  \E j \in 1..(Len(queue1) - 1) : Saves(Frames!RemoveAt(queue1, v)[j])
    <3>1. CASE i < v
      <4>1. i \in 1..(Len(queue1) - 1) /\ Frames!RemoveAt(queue1, v)[i] = queue1[i]
        BY <1>0, <2>3, <2>4, <3>1
      <4> QED
        BY <2>5, <4>1
    <3>2. CASE i > v
      <4>1. i - 1 \in 1..(Len(queue1) - 1) /\ Frames!RemoveAt(queue1, v)[i - 1] = queue1[i]
        BY <1>0, <2>3, <2>4, <3>2
      <4> QED
        BY <2>5, <4>1
    <3> QED
      BY <1>0, <2>3, <2>5, <3>1, <3>2
  <2> QED
    BY <2>2, <2>4, <2>5
<1> QED
  BY <1>1, <1>2

\* What schedule_frame does with the tops of a frame.
LEMMA ScheduleEffect ==
  ASSUME Frames!TypeOK, NEW c \in Conditions, NEW n \in 1..2,
         NEW tops \in [1..n -> [token : {t \in Tokens : ConditionOf[t] = c}, top : Frames!Tops]],
         Frames!ScheduleFrame(c, tops)
  PROVE  \E frame \in Frames!FrameRecords :
            \/ /\ critical' = Frames!Queued(frame) /\ pendingFrames' = pendingFrames
               /\ dipped' = {Held} =>
                     \/ dipped = {Held} /\ (position.known /\ Rivals(frame) => Saves(frame))
                     \/ position.known /\ Saves(frame)
            \/ /\ pendingFrames' = Frames!Conflated(frame) /\ critical' = critical
               /\ dipped' = {Held} => dipped = {Held}
<1> DEFINE r == ready[c]
           edges == {i \in 1..Len(tops) : Frames!Latched(tops, i, r)}
           updates == {[token |-> tops[i].token, top |-> tops[i].top, latched |-> i \in edges] :
                          i \in edges \cup {j \in 1..Len(tops) : Frames!Final(tops, j)}}
           types == {Frames!Edge(tops[i].top) : i \in edges}
           frame == [condition |-> c, ready |-> r, updates |-> updates, types |-> types]
           low == {tops[i].token : i \in {j \in edges : tops[j].top = "low"}}
<1>1. /\ Len(tops) = n
      /\ \A i \in 1..n : /\ tops[i].token \in Tokens /\ tops[i].top \in Frames!Tops
                        /\ ConditionOf[tops[i].token] = c
  OBVIOUS
<1>2. /\ IF edges # {} THEN critical' = Frames!Queued(frame) /\ UNCHANGED pendingFrames
                       ELSE pendingFrames' = Frames!Conflated(frame) /\ UNCHANGED critical
      /\ dipped' = Frames!Dipped(c, low)
  BY DEF Frames!ScheduleFrame
<1>3. edges \subseteq 1..n
  BY <1>1
<1>4. frame \in Frames!FrameRecords
  <2>1. r \in BOOLEAN
    BY DEF Frames!TypeOK
  <2>2. updates \in SUBSET Frames!Updates
    <3>1. ASSUME NEW i \in 1..n, NEW b \in BOOLEAN
          PROVE  [token |-> tops[i].token, top |-> tops[i].top, latched |-> b] \in Frames!Updates
      BY <1>1 DEF Frames!Updates
    <3>2. \A i \in edges \cup {j \in 1..Len(tops) : Frames!Final(tops, j)} :
             i \in 1..n /\ (i \in edges) \in BOOLEAN
      BY <1>1, <1>3
    <3> HIDE DEF edges
    <3> QED
      BY <3>1, <3>2
  <2>3. types \in SUBSET {"STOP_066", "ENTRY_074"}
    BY DEF Frames!Edge
  <2>4. \A u \in updates : ConditionOf[u.token] = c
    BY <1>1, <1>3
  <2> HIDE DEF r, updates, types
  <2>5. frame \in [condition : Conditions, ready : BOOLEAN, updates : SUBSET Frames!Updates,
                   types : SUBSET {"STOP_066", "ENTRY_074"}]
    BY <2>1, <2>2, <2>3
  <2> QED
    BY <2>4, <2>5 DEF Frames!FrameRecords
<1>5. ASSUME NEW i \in edges, tops[i].token = Held, tops[i].top = "low", position.known
      PROVE  Saves(frame)
  <2>1. "STOP_066" \in types
    <3>1. Frames!Edge(tops[i].top) = "STOP_066"
      BY <1>5 DEF Frames!Edge
    <3> QED
      BY <3>1, <1>5
  <2>2. [token |-> Held, top |-> "low", latched |-> TRUE] \in updates
    <3>1. [token |-> tops[i].token, top |-> tops[i].top, latched |-> i \in edges] \in updates
      BY <1>5
    <3>2. (i \in edges) = TRUE
      BY <1>5
    <3> QED
      BY <3>1, <3>2, <1>5
  <2> HIDE DEF updates, types, edges
  <2>3. Frames!Stops(frame)
    <3> DEFINE u == [token |-> Held, top |-> "low", latched |-> TRUE]
    <3>1. u \in frame.updates /\ u.token = Held /\ u.top = "low" /\ u.latched
      BY <2>2
    <3> HIDE DEF u, frame
    <3> QED
      BY <3>1, <1>5 DEF Frames!Stops
  <2> QED
    BY <2>1, <2>3 DEF Saves
<1>6. frame.condition = c /\ ("STOP_066" \in frame.types => low # {})
  <2>1. ASSUME NEW i \in edges, Frames!Edge(tops[i].top) = "STOP_066" PROVE tops[i].token \in low
    <3>1. tops[i].top = "low"
      BY <2>1 DEF Frames!Edge
    <3> QED
      BY <3>1
  <2> QED
    BY <2>1
<1>7. Held \in low /\ position.known => Saves(frame)
  <2> HIDE DEF frame, edges
  <2> QED
    BY <1>5
<1>8. edges = {} => low = {}
  OBVIOUS
<1> HIDE DEF frame, edges, low
<1>9. ASSUME dipped' = {Held}
      PROVE  \/ dipped = {Held} /\ (c = ConditionOf[Held] => low \subseteq {Held})
             \/ position.known /\ Held \in low
  <2>1. CASE Held \in low /\ position.known /\ position.stage = 0
    BY <2>1
  <2>2. CASE ~(Held \in low /\ position.known /\ position.stage = 0)
    <3>1. dipped' = IF dipped # {} /\ c = ConditionOf[Held] THEN dipped \cup low ELSE dipped
      BY <1>2, <2>2 DEF Frames!Dipped
    <3> QED
      BY <1>9, <3>1
  <2> QED
    BY <2>1, <2>2
<1>10. CASE edges # {}
  <2>1. ASSUME dipped' = {Held}
        PROVE  \/ dipped = {Held} /\ (position.known /\ Rivals(frame) => Saves(frame))
               \/ position.known /\ Saves(frame)
    BY <1>6, <1>7, <1>9, <2>1 DEF Rivals
  <2> QED
    BY <1>2, <1>4, <1>10, <2>1
<1>11. CASE edges = {}
  BY <1>2, <1>4, <1>8, <1>9, <1>11
<1> QED
  BY <1>10, <1>11

\* seen keeps its type.
LEMMA SeenAfterType ==
  ASSUME Frames!TypeOK, NEW c \in Conditions, NEW n \in 1..2, NEW r \in BOOLEAN,
         NEW tops \in [1..n -> [token : {t \in Tokens : ConditionOf[t] = c}, top : Frames!Tops]]
  PROVE  Frames!SeenAfter(tops, r) \in [BOOLEAN -> [Tokens -> Frames!Tops \cup {Frames!NoTop}]]
<1> SUFFICES ASSUME NEW s \in BOOLEAN, NEW t \in Tokens
             PROVE  LET mine == {j \in 1..Len(tops) : tops[j].token = t}
                    IN (IF mine = {} \/ (s /\ ~r) THEN seen[s][t]
                        ELSE tops[CHOOSE j \in mine : \A k \in mine : k <= j].top)
                          \in Frames!Tops \cup {Frames!NoTop}
  BY DEF Frames!SeenAfter
<1> DEFINE mine == {j \in 1..Len(tops) : tops[j].token = t}
           latest == CHOOSE j \in mine : \A k \in mine : k <= j
<1>1. Len(tops) = n /\ \A i \in 1..n : tops[i].top \in Frames!Tops
  OBVIOUS
<1>2. seen[s][t] \in Frames!Tops \cup {Frames!NoTop}
  BY DEF Frames!TypeOK
<1>3. ASSUME mine # {} PROVE latest \in 1..n
  <2>1. mine \subseteq 0..n /\ mine \subseteq 1..n /\ n \in Nat
    BY <1>1
  <2> HIDE DEF mine
  <2>2. \E m \in mine : \A k \in mine : k <= m
    BY <1>3, <2>1, GreatestNatural
  <2> QED
    BY <2>1, <2>2
<1> HIDE DEF latest
<1>4. (IF mine = {} \/ (s /\ ~r) THEN seen[s][t] ELSE tops[latest].top)
         \in Frames!Tops \cup {Frames!NoTop}
  BY <1>1, <1>2, <1>3
<1> QED
  BY <1>4 DEF latest

\* What waits and saves keeps waiting, or a frame that saves takes its place,
\* unless a rival does.
LEMMA QueuedKeeps ==
  ASSUME Frames!TypeOK, NEW frame \in Frames!FrameRecords
  PROVE  LET queued == Frames!Queued(frame)
         IN /\ queued \in Seq(Frames!FrameRecords)
            /\ \/ Saves(frame)
               \/ /\ ~Rivals(frame)
                  /\ \E i \in 1..Len(critical) : Saves(critical[i])
               => \E i \in 1..Len(queued) : Saves(queued[i])
<1>0. critical \in Seq(Frames!FrameRecords) /\ Len(critical) \in Nat
  <2>1. critical \in Seq(Frames!FrameRecords)
    BY DEF Frames!TypeOK
  <2> QED
    BY <2>1, LenProperties
<1>1. CASE Frames!SameKey(frame) = {}
  <2> DEFINE longer == Append(critical, frame)
  <2>1. /\ longer \in Seq(Frames!FrameRecords) /\ Len(longer) = Len(critical) + 1
        /\ \A i \in 1..Len(critical) : longer[i] = critical[i]
        /\ longer[Len(critical) + 1] = frame
    BY <1>0, AppendProperties
  <2>2. Frames!Queued(frame) = Frames!EnforceCap(longer)
    BY <1>1 DEF Frames!Queued
  <2> HIDE DEF longer
  <2>3. /\ Frames!EnforceCap(longer) \in Seq(Frames!FrameRecords)
        /\ (\E i \in 1..Len(longer) : Saves(longer[i]))
              => \E i \in 1..Len(Frames!EnforceCap(longer)) : Saves(Frames!EnforceCap(longer)[i])
    BY <2>1, EnforceCapKeeps
  <2>4. Saves(frame) => \E i \in 1..Len(longer) : Saves(longer[i])
    BY <1>0, <2>1
  <2>5. (\E i \in 1..Len(critical) : Saves(critical[i])) => \E i \in 1..Len(longer) : Saves(longer[i])
    BY <1>0, <2>1
  <2> QED
    BY <2>2, <2>3, <2>4, <2>5
<1>2. CASE Frames!SameKey(frame) # {}
  <2> DEFINE p == Frames!Superseded(frame)
             replaced == [critical EXCEPT ![p] = frame]
  <2>1. p \in Frames!SameKey(frame)
    <3>1. Frames!SameKey(frame) \subseteq Nat
      BY <1>0 DEF Frames!SameKey
    <3>2. \E i \in Frames!SameKey(frame) : \A j \in Frames!SameKey(frame) : i <= j
      BY <1>2, <3>1, LeastNatural
    <3> QED
      BY <3>2 DEF Frames!Superseded
  <2>2. Frames!Queued(frame) = replaced
    BY <1>2 DEF Frames!Queued
  <2>3. p \in 1..Len(critical) /\ critical[p].types = frame.types
    BY <2>1 DEF Frames!SameKey
  <2>4. Saves(critical[p]) => Rivals(frame)
    <3>1. ASSUME NEW u \in critical[p].updates, u.token = Held
          PROVE  critical[p].condition = ConditionOf[Held]
      BY <1>0, <2>3, <3>1 DEF Frames!FrameRecords
    <3>2. critical[p].condition = frame.condition
      BY <2>1 DEF Frames!SameKey
    <3> QED
      BY <2>3, <3>1, <3>2 DEF Saves, Rivals, Frames!Stops
  <2> HIDE DEF p
  <2>5. /\ replaced \in Seq(Frames!FrameRecords) /\ Len(replaced) = Len(critical)
        /\ \A i \in 1..Len(critical) : replaced[i] = IF i = p THEN frame ELSE critical[i]
    BY <1>0, <2>3, ExceptSeq
  <2> HIDE DEF replaced
  <2>6. Saves(frame) => \E i \in 1..Len(replaced) : Saves(replaced[i])
    BY <2>3, <2>5
  <2>7. ASSUME ~Rivals(frame), NEW i \in 1..Len(critical), Saves(critical[i])
        PROVE  \E j \in 1..Len(replaced) : Saves(replaced[j])
    <3>1. CASE i = p
      BY <2>4, <2>7, <3>1
    <3>2. CASE i # p
      BY <2>5, <2>7, <3>2
    <3> QED
      BY <3>1, <3>2
  <2> QED
    BY <2>2, <2>5, <2>6, <2>7
<1> QED
  BY <1>1, <1>2

\* The ordinary frames stay within their capacity.
LEMMA ConflatedFits ==
  ASSUME Frames!TypeOK, NEW frame \in Frames!FrameRecords
  PROVE  /\ Frames!Conflated(frame) \in Seq(Frames!FrameRecords)
         /\ Len(Frames!Conflated(frame)) <= PendingCap
<1> DEFINE old == {i \in 1..Len(pendingFrames) : pendingFrames[i].condition = frame.condition}
           o == CHOOSE i \in old : TRUE
           room == IF old # {} THEN Frames!RemoveAt(pendingFrames, o)
                   ELSE IF Len(pendingFrames) >= PendingCap THEN Tail(pendingFrames)
                   ELSE pendingFrames
<1>0. pendingFrames \in Seq(Frames!FrameRecords) /\ Len(pendingFrames) <= PendingCap
  BY DEF Frames!TypeOK
<1>1. Len(pendingFrames) \in Nat /\ PendingCap \in Nat \ {0}
  BY <1>0, LenProperties, FrameAssumption
<1>2. room \in Seq(Frames!FrameRecords) /\ Len(room) + 1 <= PendingCap
  <2>1. CASE old # {}
    <3>1. o \in 1..Len(pendingFrames)
      BY <2>1
    <3> HIDE DEF o
    <3>2. /\ Frames!RemoveAt(pendingFrames, o) \in Seq(Frames!FrameRecords)
          /\ Len(Frames!RemoveAt(pendingFrames, o)) = Len(pendingFrames) - 1
      BY <1>0, <3>1, RemoveAtProperties
    <3> QED
      BY <1>0, <1>1, <2>1, <3>2
  <2>2. CASE old = {} /\ Len(pendingFrames) >= PendingCap
    <3>1. pendingFrames # <<>>
      BY <1>1, <2>2, EmptySeq
    <3>2. /\ Tail(pendingFrames) \in Seq(Frames!FrameRecords)
          /\ Len(Tail(pendingFrames)) = Len(pendingFrames) - 1
      BY <1>0, <3>1, HeadTailProperties
    <3> QED
      BY <1>0, <1>1, <2>2, <3>2
  <2>3. CASE old = {} /\ ~(Len(pendingFrames) >= PendingCap)
    BY <1>0, <1>1, <2>3
  <2> QED
    BY <2>1, <2>2, <2>3
<1>3. Frames!Conflated(frame) = Append(room, frame)
  BY DEF Frames!Conflated
<1> HIDE DEF room
<1>4. /\ Append(room, frame) \in Seq(Frames!FrameRecords)
      /\ Len(Append(room, frame)) = Len(room) + 1
  BY <1>2, AppendProperties
<1> QED
  BY <1>2, <1>3, <1>4

\* The last dip of Held stays served while a frame is taken up.
LEMMA FrameKeeps ==
  ASSUME FrameInv, Frames!Frame
  PROVE  FrameInv'
<1>0. PICK c \in Conditions, n \in 1..2 :
           \E tops \in [1..n -> [token : {t \in Tokens : ConditionOf[t] = c}, top : Frames!Tops]] :
              /\ Frames!ScheduleFrame(c, tops)
              /\ book' = [t \in Tokens |->
                    IF \E i \in 1..n : tops[i].token = t
                    THEN tops[CHOOSE i \in 1..n : tops[i].token = t /\ Frames!Final(tops, i)].top
                    ELSE book[t]]
  BY DEF Frames!Frame
<1>1. PICK tops \in [1..n -> [token : {t \in Tokens : ConditionOf[t] = c}, top : Frames!Tops]] :
              /\ Frames!ScheduleFrame(c, tops)
              /\ book' = [t \in Tokens |->
                    IF \E i \in 1..n : tops[i].token = t
                    THEN tops[CHOOSE i \in 1..n : tops[i].token = t /\ Frames!Final(tops, i)].top
                    ELSE book[t]]
  BY <1>0
<1>2. Frames!TypeOK
  BY DEF FrameInv
<1>3. PICK frame \in Frames!FrameRecords :
            \/ /\ critical' = Frames!Queued(frame) /\ pendingFrames' = pendingFrames
               /\ dipped' = {Held} =>
                     \/ dipped = {Held} /\ (position.known /\ Rivals(frame) => Saves(frame))
                     \/ position.known /\ Saves(frame)
            \/ /\ pendingFrames' = Frames!Conflated(frame) /\ critical' = critical
               /\ dipped' = {Held} => dipped = {Held}
  BY <1>1, <1>2, ScheduleEffect
<1>4. dipped' \in SUBSET Tokens /\ UNCHANGED <<ready, position>> /\ frames' \in 0..MaxFrames
  <2>1. dipped' \in SUBSET Tokens
    <3>1. PICK low \in SUBSET Tokens : dipped' = Frames!Dipped(c, low)
      <4> DEFINE edges == {i \in 1..Len(tops) : Frames!Latched(tops, i, ready[c])}
                 low == {tops[i].token : i \in {j \in edges : tops[j].top = "low"}}
      <4>1. Len(tops) = n /\ \A i \in 1..n : tops[i].token \in Tokens
        BY <1>1
      <4>2. low \in SUBSET Tokens
        BY <4>1
      <4>3. dipped' = Frames!Dipped(c, low)
        BY <1>1 DEF Frames!ScheduleFrame
      <4> QED
        BY <4>2, <4>3
    <3> QED
      BY <1>2, <3>1, FrameAssumption DEF Frames!Dipped, Frames!TypeOK
  <2> QED
    BY <2>1, <1>2, FrameAssumption DEF Frames!Frame, Frames!TypeOK
<1>5. seen' \in [BOOLEAN -> [Tokens -> Frames!Tops \cup {Frames!NoTop}]]
  <2>1. seen' = Frames!SeenAfter(tops, ready[c]) /\ ready[c] \in BOOLEAN
    BY <1>1, <1>2 DEF Frames!ScheduleFrame, Frames!TypeOK
  <2> QED
    BY <1>1, <1>2, <2>1, SeenAfterType
<1>6. book' \in [Tokens -> Frames!Tops]
  <2>1. Len(tops) = n /\ \A i \in 1..n : tops[i].top \in Frames!Tops
    BY <1>1
  <2>2. ASSUME NEW t \in Tokens, \E i \in 1..n : tops[i].token = t
        PROVE  tops[CHOOSE i \in 1..n : tops[i].token = t /\ Frames!Final(tops, i)].top \in Frames!Tops
    <3>1. \E i \in 1..n : tops[i].token = t /\ Frames!Final(tops, i)
      <4> DEFINE mine == {i \in 1..n : tops[i].token = t}
      <4>1. mine \subseteq 0..n /\ mine # {} /\ n \in Nat
        BY <2>2
      <4> HIDE DEF mine
      <4>2. PICK m \in mine : \A k \in mine : k <= m
        BY <4>1, GreatestNatural
      <4>3. m \in 1..n /\ tops[m].token = t /\ Frames!Final(tops, m)
        BY <2>1, <4>2 DEF mine, Frames!Final
      <4> QED
        BY <4>3
    <3> DEFINE i0 == CHOOSE i \in 1..n : tops[i].token = t /\ Frames!Final(tops, i)
    <3>2. i0 \in 1..n
      BY <3>1
    <3> HIDE DEF i0
    <3>3. tops[i0].top \in Frames!Tops
      BY <2>1, <3>2
    <3> QED
      BY <3>3 DEF i0
  <2>3. \A t \in Tokens : book[t] \in Frames!Tops
    BY <1>2 DEF Frames!TypeOK
  <2> QED
    BY <1>1, <2>2, <2>3
<1>7. \A f : Saves(f)' <=> Saves(f)
  BY <1>4 DEF Saves, Frames!Stops
<1>8. /\ critical' \in Seq(Frames!FrameRecords) /\ pendingFrames' \in Seq(Frames!FrameRecords)
      /\ Len(pendingFrames') <= PendingCap
  <2>1. Frames!Queued(frame) \in Seq(Frames!FrameRecords)
    BY <1>2, QueuedKeeps
  <2> QED
    BY <1>2, <1>3, <2>1, ConflatedFits DEF Frames!TypeOK
<1>9. ~LatchFails /\ dipped' = {Held} =>
         /\ position'.known
         /\ position'.stage = 1 \/ \E i \in 1..Len(critical') : Saves(critical'[i])
  <2>1. CASE critical' = critical /\ (dipped' = {Held} => dipped = {Held})
    BY <1>4, <2>1 DEF FrameInv
  <2>2. CASE /\ critical' = Frames!Queued(frame)
             /\ dipped' = {Held} =>
                   \/ dipped = {Held} /\ (position.known /\ Rivals(frame) => Saves(frame))
                   \/ position.known /\ Saves(frame)
    <3>1. \/ Saves(frame)
          \/ /\ ~Rivals(frame)
             /\ \E i \in 1..Len(critical) : Saves(critical[i])
          => \E i \in 1..Len(critical') : Saves(critical'[i])
      BY <1>2, <2>2, QueuedKeeps
    <3> QED
      BY <1>4, <2>2, <3>1 DEF FrameInv
  <2> QED
    BY <1>3, <2>1, <2>2
<1>10. Frames!TypeOK'
  BY <1>2, <1>4, <1>5, <1>6, <1>8 DEF Frames!TypeOK
<1>11. (position.known_stage = 1 => position.stage = 1)'
  BY <1>4 DEF FrameInv
<1>12. (\E i \in 1..Len(critical') : Saves(critical'[i])) => (\E i \in 1..Len(critical) : Saves(critical[i]))'
  BY <1>4 DEF Saves, Frames!Stops
<1> QED
  BY <1>9, <1>10, <1>11, <1>12 DEF FrameInv

Positions == [open : BOOLEAN, stage : {0, 1}, known : BOOLEAN, known_stage : {0, 1}]

\* Everything but the position and the queues rests, and the last dip of Held
\* has latched if it no longer waits.
LEMMA ServingKeeps ==
  ASSUME FrameInv,
         UNCHANGED <<book, seen, dipped>>,
         ready' \in [Conditions -> BOOLEAN], frames' \in 0..MaxFrames,
         critical' \in Seq(Frames!FrameRecords),
         pendingFrames' \in Seq(Frames!FrameRecords), Len(pendingFrames') <= PendingCap,
         position' \in Positions,
         position.known => position'.known,
         position'.known_stage = 1 => position'.stage = 1,
         position.stage = 1 => position'.stage = 1,
         \/ LatchFails
         \/ position'.stage = 1
         \/ critical' = critical
         \/ ~(\E i \in 1..Len(critical) : Saves(critical[i]))
         \/ \E i \in 1..Len(critical') : Frames!Stops(critical'[i]) /\ "STOP_066" \in critical'[i].types
  PROVE  FrameInv'
<1>1. Frames!TypeOK'
  BY DEF FrameInv, Frames!TypeOK, Positions
<1>2. ASSUME NEW f, Frames!Stops(f), position.known => position'.known PROVE Frames!Stops(f)'
  BY <1>2 DEF Frames!Stops
<1>3. ~LatchFails /\ dipped' = {Held} =>
         /\ position'.known
         /\ position'.stage = 1 \/ (\E i \in 1..Len(critical) : Saves(critical[i]))'
  <2> SUFFICES ASSUME ~LatchFails, dipped = {Held}
               PROVE  /\ position'.known
                      /\ position'.stage = 1 \/ (\E i \in 1..Len(critical) : Saves(critical[i]))'
    OBVIOUS
  <2>1. position.known /\ position'.known
    BY DEF FrameInv
  <2>2. position.stage = 1 \/ \E i \in 1..Len(critical) : Saves(critical[i])
    BY DEF FrameInv
  <2>3. CASE critical' = critical
    BY <2>1, <2>2, <2>3 DEF Saves, Frames!Stops
  <2>4. CASE \E i \in 1..Len(critical') : Frames!Stops(critical'[i]) /\ "STOP_066" \in critical'[i].types
    BY <2>1, <2>4 DEF Saves, Frames!Stops
  <2> QED
    BY <2>1, <2>2, <2>3, <2>4
<1> QED
  BY <1>1, <1>3 DEF FrameInv

LEMMA LatchEffect ==
  ASSUME position \in Positions, Frames!Latch
  PROVE  \/ /\ position' \in Positions /\ position'.stage = 1 /\ position'.known_stage = 1
            /\ position'.known = position.known /\ position'.open = position.open
         \/ LatchFails /\ position' = position
  BY DEF Frames!Latch, Positions

LEMMA TakeCriticalKeeps ==
  ASSUME FrameInv, Frames!TakeCritical
  PROVE  FrameInv'
<1>1. /\ critical # <<>> /\ critical' = Tail(critical)
      /\ UNCHANGED <<book, ready, seen, pendingFrames, dipped, frames>>
  BY DEF Frames!TakeCritical
<1>2. /\ critical \in Seq(Frames!FrameRecords) /\ position \in Positions
      /\ ready \in [Conditions -> BOOLEAN] /\ frames \in 0..MaxFrames
      /\ pendingFrames \in Seq(Frames!FrameRecords) /\ Len(pendingFrames) <= PendingCap
      /\ position.known_stage = 1 => position.stage = 1
  BY DEF FrameInv, Frames!TypeOK, Positions
<1>3. /\ Len(critical) \in Nat /\ critical' \in Seq(Frames!FrameRecords)
      /\ Len(critical') = Len(critical) - 1 /\ Head(critical) = critical[1]
      /\ \A i \in 1..Len(critical') : critical'[i] = critical[i + 1]
  BY <1>1, <1>2, LenProperties, HeadTailProperties
<1>4. CASE Frames!Stops(Head(critical)) /\ position.known_stage = 0
  <2>1. Frames!Latch
    BY <1>4 DEF Frames!TakeCritical, Frames!ProcessFrame
  <2> QED
    BY <1>1, <1>2, <1>3, <2>1, LatchEffect, ServingKeeps
<1>5. CASE ~(Frames!Stops(Head(critical)) /\ position.known_stage = 0)
  <2>1. position' = position
    BY <1>5 DEF Frames!TakeCritical, Frames!ProcessFrame
  <2>2. \/ position'.stage = 1
        \/ ~(\E i \in 1..Len(critical) : Saves(critical[i]))
        \/ \E i \in 1..Len(critical') : Frames!Stops(critical'[i]) /\ "STOP_066" \in critical'[i].types
    <3> SUFFICES ASSUME NEW i \in 1..Len(critical), Saves(critical[i]), position.stage # 1
                 PROVE  \E j \in 1..Len(critical') : Saves(critical'[j])
      BY <2>1 DEF Saves
    <3>1. i # 1
      <4>1. position.known_stage = 0
        BY <1>2 DEF Positions
      <4> QED
        BY <1>3, <1>5, <4>1 DEF Saves
    <3>2. i - 1 \in 1..Len(critical') /\ critical'[i - 1] = critical[i]
      BY <1>3, <3>1
    <3> QED
      BY <3>2
  <2> QED
    BY <1>1, <1>2, <1>3, <2>1, <2>2, ServingKeeps
<1> QED
  BY <1>4, <1>5

LEMMA TakePendingKeeps ==
  ASSUME FrameInv, Frames!TakePending
  PROVE  FrameInv'
<1>1. /\ pendingFrames # <<>> /\ pendingFrames' = Tail(pendingFrames)
      /\ UNCHANGED <<book, ready, seen, critical, dipped, frames>>
  BY DEF Frames!TakePending
<1>2. /\ critical \in Seq(Frames!FrameRecords) /\ position \in Positions
      /\ ready \in [Conditions -> BOOLEAN] /\ frames \in 0..MaxFrames
      /\ pendingFrames \in Seq(Frames!FrameRecords) /\ Len(pendingFrames) <= PendingCap
      /\ position.known_stage = 1 => position.stage = 1
  BY DEF FrameInv, Frames!TypeOK, Positions
<1>3. /\ pendingFrames' \in Seq(Frames!FrameRecords) /\ Len(pendingFrames') <= PendingCap
  <2>1. /\ Tail(pendingFrames) \in Seq(Frames!FrameRecords)
        /\ Len(Tail(pendingFrames)) = Len(pendingFrames) - 1
    BY <1>1, <1>2, HeadTailProperties
  <2>2. Len(pendingFrames) \in Nat /\ PendingCap \in Nat
    BY <1>2, LenProperties, FrameAssumption
  <2> QED
    BY <1>1, <1>2, <2>1, <2>2
<1>4. position' = position \/ Frames!Latch
  BY DEF Frames!TakePending, Frames!ProcessFrame
<1>5. CASE position' = position
  BY <1>1, <1>2, <1>3, <1>5, ServingKeeps
<1>6. CASE Frames!Latch
  BY <1>1, <1>2, <1>3, <1>6, LatchEffect, ServingKeeps
<1> QED
  BY <1>4, <1>5, <1>6

LEMMA PositionStepKeeps ==
  ASSUME FrameInv,
         Frames!Readiness \/ Frames!Open \/ Frames!RefreshHotState \/ Frames!Supervise
  PROVE  FrameInv'
<1>1. /\ critical \in Seq(Frames!FrameRecords) /\ position \in Positions
      /\ ready \in [Conditions -> BOOLEAN] /\ frames \in 0..MaxFrames
      /\ pendingFrames \in Seq(Frames!FrameRecords) /\ Len(pendingFrames) <= PendingCap
      /\ position.known_stage = 1 => position.stage = 1
  BY DEF FrameInv, Frames!TypeOK, Positions
<1>2. CASE Frames!Readiness
  <2>1. ready' \in [Conditions -> BOOLEAN] /\ frames' \in 0..MaxFrames
    BY <1>1, <1>2, FrameAssumption DEF Frames!Readiness
  <2> QED
    BY <1>1, <1>2, <2>1, ServingKeeps DEF Frames!Readiness
<1>3. CASE Frames!Open
  <2>1. /\ position' \in Positions /\ position'.known = position.known
        /\ position'.stage = position.stage /\ position'.known_stage = position.known_stage
    BY <1>1, <1>3 DEF Frames!Open, Positions
  <2> QED
    BY <1>1, <1>3, <2>1, ServingKeeps DEF Frames!Open
<1>4. CASE Frames!RefreshHotState
  <2>1. /\ position' \in Positions /\ position'.known
        /\ position'.stage = position.stage /\ position'.known_stage = position.stage
    <3>1. position' = [[position EXCEPT !.known = TRUE] EXCEPT !.known_stage = position.stage]
      BY <1>4 DEF Frames!RefreshHotState
    <3> QED
      BY <1>1, <3>1 DEF Positions
  <2> QED
    BY <1>1, <1>4, <2>1, ServingKeeps DEF Frames!RefreshHotState
<1>5. CASE Frames!Supervise
  <2>1. position' = position \/ Frames!Latch
    BY <1>5 DEF Frames!Supervise, Frames!EvaluateNewPosition
  <2>2. UNCHANGED <<book, ready, seen, critical, pendingFrames, dipped, frames>>
    BY <1>5 DEF Frames!Supervise
  <2>3. CASE position' = position
    BY <1>1, <2>2, <2>3, ServingKeeps
  <2>4. CASE Frames!Latch
    BY <1>1, <2>2, <2>4, LatchEffect, ServingKeeps
  <2> QED
    BY <2>1, <2>3, <2>4
<1> QED
  BY <1>2, <1>3, <1>4, <1>5

LEMMA FrameInvInit == Frames!Init => FrameInv
<1> SUFFICES ASSUME Frames!Init PROVE FrameInv
  OBVIOUS
<1>1. critical \in Seq(Frames!FrameRecords) /\ pendingFrames \in Seq(Frames!FrameRecords)
  BY EmptySeq DEF Frames!Init
<1>2. Len(pendingFrames) <= PendingCap /\ frames \in 0..MaxFrames
  BY FrameAssumption, EmptySeq DEF Frames!Init
<1>3. /\ book \in [Tokens -> Frames!Tops] /\ ready \in [Conditions -> BOOLEAN]
      /\ seen \in [BOOLEAN -> [Tokens -> Frames!Tops \cup {Frames!NoTop}]]
  BY DEF Frames!Init, Frames!Tops
<1>4. dipped = {} /\ position \in Positions /\ position.known_stage = 0
  BY DEF Frames!Init, Positions
<1> QED
  BY <1>1, <1>2, <1>3, <1>4 DEF FrameInv, Frames!TypeOK, Positions

LEMMA FrameInvNext ==
  ASSUME FrameInv, [Frames!Next]_frameVars
  PROVE  FrameInv'
<1>1. CASE UNCHANGED frameVars
  <2>1. /\ UNCHANGED <<book, seen, dipped, critical, ready, frames, pendingFrames, position>>
        /\ critical \in Seq(Frames!FrameRecords) /\ position \in Positions
        /\ ready \in [Conditions -> BOOLEAN] /\ frames \in 0..MaxFrames
        /\ pendingFrames \in Seq(Frames!FrameRecords) /\ Len(pendingFrames) <= PendingCap
        /\ position.known_stage = 1 => position.stage = 1
    BY <1>1 DEF FrameInv, Frames!TypeOK, Positions, frameVars
  <2> QED
    BY <2>1, ServingKeeps
<1>2. CASE Frames!Frame
  BY <1>2, FrameKeeps
<1>3. CASE Frames!TakeCritical
  BY <1>3, TakeCriticalKeeps
<1>4. CASE Frames!TakePending
  BY <1>4, TakePendingKeeps
<1>5. CASE Frames!Readiness \/ Frames!Open \/ Frames!RefreshHotState \/ Frames!Supervise
  BY <1>5, PositionStepKeeps
<1> QED
  BY <1>1, <1>2, <1>3, <1>4, <1>5 DEF Frames!Next

(* Whatever the capacities and however many markets compete, a dip of the  *)
(* held token has latched the stop or waits in the queue that is served    *)
(* first, unless the other token of its market has dipped since.  A latch  *)
(* that raises is left out.                                                *)
THEOREM StopEdgesAreServed ==
  ASSUME ~LatchFails PROVE Spec => []StopEdgeIsServed
<1>1. Init => FrameInv
  BY FrameInvInit DEF Init
<1>2. FrameInv /\ [Next]_feedVars => FrameInv'
  BY FrameSteps, FrameInvNext
<1>3. FrameInv => StopEdgeIsServed
  <2> SUFFICES ASSUME FrameInv, dipped = {Held}
               PROVE  position.stage = 1 \/ \E i \in DOMAIN critical : Frames!Stops(critical[i])
    BY DEF StopEdgeIsServed, Frames!StopEdgeIsServed, Frames!Served
  <2>1. DOMAIN critical = 1..Len(critical)
    BY LenProperties DEF FrameInv, Frames!TypeOK
  <2> QED
    BY <2>1 DEF FrameInv, Saves
<1> QED
  BY <1>1, <1>2, <1>3, PTL DEF Spec, feedVars

-----------------------------------------------------------------------------
(* The private stream *)

LEMMA UserAssumption ==
    Events \in Nat /\ EventCap \in Nat \ {0} /\ MaxFaults \in Nat
  BY FeedsAssumption DEF Private!UserStreamAssumption

LEMMA InToSet ==
  ASSUME NEW S, NEW s \in Seq(S), NEW e
  PROVE  e \in Private!ToSet(s) <=> \E i \in 1..Len(s) : s[i] = e
<1>1. DOMAIN s = 1..Len(s)
  BY LenProperties
<1> QED
  BY <1>1 DEF Private!ToSet

\* Head and tail of a sequence hold what it holds.
LEMMA ToSetHeadTail ==
  ASSUME NEW S, NEW s \in Seq(S), s # <<>>, NEW e \in Private!ToSet(s), e # Head(s)
  PROVE  e \in Private!ToSet(Tail(s))
<1>1. PICK i \in 1..Len(s) : s[i] = e
  BY InToSet
<1>2. /\ Tail(s) \in Seq(S) /\ Len(Tail(s)) = Len(s) - 1 /\ Len(s) \in Nat
      /\ \A j \in 1..Len(Tail(s)) : Tail(s)[j] = s[j + 1]
  BY HeadTailProperties, LenProperties
<1>3. Head(s) = s[1]
  OBVIOUS
<1>4. i - 1 \in 1..Len(Tail(s)) /\ Tail(s)[i - 1] = e
  BY <1>1, <1>2, <1>3
<1> QED
  BY <1>2, <1>4, InToSet

LEMMA ToSetConcat ==
  ASSUME NEW S, NEW s \in Seq(S), NEW t \in Seq(S), NEW e
  PROVE  e \in Private!ToSet(s \o t) <=> e \in Private!ToSet(s) \/ e \in Private!ToSet(t)
<1>1. /\ s \o t \in Seq(S) /\ Len(s \o t) = Len(s) + Len(t)
      /\ Len(s) \in Nat /\ Len(t) \in Nat
      /\ \A i \in 1..(Len(s) + Len(t)) : (s \o t)[i] = IF i <= Len(s) THEN s[i] ELSE t[i - Len(s)]
  BY ConcatProperties, LenProperties
<1>2. ASSUME e \in Private!ToSet(s \o t)
      PROVE  e \in Private!ToSet(s) \/ e \in Private!ToSet(t)
  <2>1. PICK i \in 1..(Len(s) + Len(t)) : (s \o t)[i] = e
    BY <1>1, <1>2, InToSet
  <2>2. CASE i <= Len(s)
    <3>1. i \in 1..Len(s) /\ s[i] = e
      BY <1>1, <2>1, <2>2
    <3> QED
      BY <3>1, InToSet
  <2>3. CASE ~(i <= Len(s))
    <3>1. i - Len(s) \in 1..Len(t) /\ t[i - Len(s)] = e
      BY <1>1, <2>1, <2>3
    <3> QED
      BY <3>1, InToSet
  <2> QED
    BY <2>2, <2>3
<1>3. ASSUME e \in Private!ToSet(s) PROVE e \in Private!ToSet(s \o t)
  <2>1. PICK i \in 1..Len(s) : s[i] = e
    BY <1>3, InToSet
  <2>2. i \in 1..Len(s \o t) /\ (s \o t)[i] = e
    BY <1>1, <2>1
  <2> QED
    BY <1>1, <2>2, InToSet
<1>4. ASSUME e \in Private!ToSet(t) PROVE e \in Private!ToSet(s \o t)
  <2>1. PICK i \in 1..Len(t) : t[i] = e
    BY <1>4, InToSet
  <2>2. Len(s) + i \in 1..Len(s \o t) /\ (s \o t)[Len(s) + i] = e
    BY <1>1, <2>1
  <2> QED
    BY <1>1, <2>2, InToSet
<1> QED
  BY <1>2, <1>3, <1>4

Workers == {"idle", "storing", "asking", "holding"}

\* A world in which the database fails the worker and a run releases a pause
\* that was held before the failure loses events.
HoldsAreFresh == \A w \in UserWorlds : ~({"store", "release"} \subseteq w)

\* A private event is stored, read by a run, on its way, or entries are held
\* until somebody releases them who knows.
Kept(e) ==
    HoldsAreFresh =>
    \/ e \in stored \cup covered \/ Private!OnItsWay(e)
    \/ (held.on /\ "release" \notin turns)

UserInv ==
    /\ Private!TypeOK /\ turns \in UserWorlds
    /\ worker.at = "idle" => worker.hand = {}
    /\ worker.at = "asking" => worker.hand \subseteq stored
    /\ HoldsAreFresh /\ worker.at = "holding" /\ "release" \in turns => worker.hand \subseteq stored
    /\ \A e \in sent : Kept(e)

UserTypes ==
    /\ sent \subseteq 1..Events /\ stored \subseteq sent /\ covered \subseteq sent
    /\ link \in {"down", "subscribed", "up"} /\ wire \in Seq(Seq(sent))
    /\ userQueue \in Seq(sent \cup {0}) /\ Len(userQueue) <= EventCap
    /\ worker \in [at : Workers, hand : SUBSET sent]
    /\ held \in [on : BOOLEAN, since : SUBSET sent] /\ faults \in 0..MaxFaults

LEMMA UserTypesOK == Private!TypeOK <=> UserTypes
  BY DEF Private!TypeOK, UserTypes, Workers, Private!StateRow

\* What Emit adds: new numbers, within the bound.
LEMMA EmitEffect ==
  ASSUME UserInv, Private!Emit
  PROVE  UserInv'
<1>1. PICK n \in 1..2 :
        LET last1 == Private!Cardinality(sent)
            frame == [i \in 1..n |-> last1 + i]
        IN /\ last1 + n <= Events
           /\ sent' = sent \cup Private!ToSet(frame)
           /\ wire' = IF link = "down" THEN wire ELSE Append(wire, frame)
  BY DEF Private!Emit
<1> DEFINE last1 == Private!Cardinality(sent)
           frame == [i \in 1..n |-> last1 + i]
<1>2. UserTypes
  BY UserTypesOK DEF UserInv
<1>3. last1 \in Nat
  <2>1. Private!Cardinality(sent) = Cardinality(sent)
    BY DEF Private!Cardinality, Cardinality
  <2>2. IsFiniteSet(1..Events)
    BY UserAssumption, FS_Interval
  <2>3. IsFiniteSet(sent)
    BY <1>2, <2>2, FS_Subset DEF UserTypes
  <2> QED
    BY <2>1, <2>3, FS_CardinalityType
<1>4. /\ last1 + n <= Events /\ sent' = sent \cup Private!ToSet(frame)
      /\ wire' = IF link = "down" THEN wire ELSE Append(wire, frame)
      /\ UNCHANGED <<link, userQueue, worker, stored, covered, held, faults, turns>>
  BY <1>1 DEF Private!Emit
<1> HIDE DEF last1
<1>5. frame \in Seq(1..Events) /\ Len(frame) = n
  <2>1. frame \in [1..n -> 1..Events] /\ n \in Nat
    BY <1>3, <1>4, UserAssumption
  <2> QED
    BY <2>1
<1> HIDE DEF frame
<1>6. \A e : e \in Private!ToSet(frame) <=> \E i \in 1..Len(frame) : frame[i] = e
  BY <1>5, InToSet
<1>7. sent' \subseteq 1..Events /\ sent \subseteq sent' /\ frame \in Seq(sent')
  <2>1. \A i \in 1..Len(frame) : frame[i] \in 1..Events
    BY <1>5, ElementOfSeq
  <2>2. sent' \subseteq 1..Events /\ sent \subseteq sent'
    <3>1. Private!ToSet(frame) \subseteq 1..Events
      BY <1>6, <2>1
    <3>2. sent \subseteq 1..Events
      BY <1>2 DEF UserTypes
    <3> QED
      BY <1>4, <3>1, <3>2
  <2>3. \A i \in 1..n : frame[i] \in sent'
    BY <1>4, <1>5, <1>6
  <2>4. frame \in [1..n -> sent'] /\ n \in Nat
    BY <1>5, <2>3, LenProperties
  <2> QED
    BY <2>2, <2>4
<1>8. wire \in Seq(Seq(sent')) /\ userQueue \in Seq(sent' \cup {0})
  <2>1. Seq(sent) \subseteq Seq(sent')
    BY <1>7, SeqMonotonic
  <2> QED
    BY <1>2, <1>7, <2>1, SeqMonotonic DEF UserTypes
<1>9. wire' \in Seq(Seq(sent'))
  BY <1>4, <1>7, <1>8, AppendProperties
<1>10. UserTypes'
  BY <1>2, <1>4, <1>7, <1>8, <1>9 DEF UserTypes
<1>11. ASSUME NEW e \in sent' PROVE Kept(e)'
  <2>1. CASE link # "up"
    BY <1>4, <2>1 DEF Kept, Private!OnItsWay
  <2>2. CASE link = "up"
    <3>1. /\ wire' = Append(wire, frame) /\ Len(wire') = Len(wire) + 1 /\ Len(wire) \in Nat
          /\ \A i \in 1..Len(wire) : wire'[i] = wire[i]
          /\ wire'[Len(wire) + 1] = frame
      BY <1>4, <1>7, <1>8, <2>2, AppendProperties, LenProperties
    <3>2. DOMAIN wire = 1..Len(wire) /\ DOMAIN wire' = 1..Len(wire')
      BY <1>8, <1>9, LenProperties
    <3>3. CASE e \in Private!ToSet(frame)
      <4>1. Len(wire) + 1 \in DOMAIN wire' /\ e \in Private!ToSet(wire'[Len(wire) + 1])
        BY <3>1, <3>2, <3>3
      <4> QED
        BY <4>1 DEF Kept, Private!OnItsWay, Private!ToSet
    <3>4. CASE e \in sent
      <4>1. Kept(e)
        BY <3>4 DEF UserInv
      <4>2. ASSUME NEW i \in DOMAIN wire, e \in Private!ToSet(wire[i])
            PROVE  i \in DOMAIN wire' /\ e \in Private!ToSet(wire'[i])
        BY <3>1, <3>2, <4>2
      <4> QED
        BY <1>4, <4>1, <4>2 DEF Kept, Private!OnItsWay, Private!ToSet
    <3> QED
      BY <1>4, <3>3, <3>4
  <2> QED
    BY <2>1, <2>2
<1>12. (turns \in UserWorlds)' /\ (worker.at = "idle" => worker.hand = {})'
       /\ (worker.at = "asking" => worker.hand \subseteq stored)'
       /\ (HoldsAreFresh /\ worker.at = "holding" /\ "release" \in turns => worker.hand \subseteq stored)'
  BY <1>4 DEF UserInv
<1>13. Private!TypeOK'
  BY <1>10 DEF Private!TypeOK, UserTypes, Workers, Private!StateRow
<1> QED
  BY <1>11, <1>12, <1>13 DEF UserInv

\* Where nothing but the named place of an event changes, it is kept.
LEMMA KeptElsewhere ==
  ASSUME NEW e \in sent, Kept(e), turns' = turns,
         e \in stored \cup covered => e \in stored' \cup covered',
         link # "up" => link' # "up" \/ e \in covered',
         e \in worker.hand => e \in worker'.hand \/ e \in stored' \cup covered'
                                \/ (held'.on /\ "release" \notin turns) \/ ~HoldsAreFresh,
         e \in Private!ToSet(userQueue) => e \in Private!ToSet(userQueue') \/ e \in worker'.hand,
         \/ \A i \in DOMAIN wire : e \notin Private!ToSet(wire[i])
         \/ wire' = wire \/ link' # "up" \/ e \in Private!ToSet(userQueue')
         \/ \E i \in DOMAIN wire' : e \in Private!ToSet(wire'[i]),
         held.on /\ "release" \notin turns => held'.on
  PROVE  Kept(e)'
  BY DEF Kept, Private!OnItsWay, Private!ToSet

LEMMA ConnectionStep ==
  ASSUME UserInv, Private!Connect \/ Private!AskAfterConnect \/ Private!Drop \/ Private!Restart
  PROVE  UserInv'
<1>0. UserTypes
  BY UserTypesOK DEF UserInv
<1>1. /\ UNCHANGED <<sent, stored, held, turns>>
      /\ link' \in {"down", "subscribed", "up"} /\ covered \subseteq covered' /\ covered' \subseteq sent
      /\ link' = "up" => covered' = covered \cup sent
      /\ wire' = wire \/ (wire' = <<>> /\ link' # "up")
      /\ faults' \in 0..MaxFaults
      /\ \/ UNCHANGED <<worker, userQueue>>
         \/ worker' = Private!Idle /\ userQueue' = <<>> /\ link' # "up"
  <2>1. CASE Private!Connect
    BY <1>0, <2>1 DEF Private!Connect, UserTypes
  <2>2. CASE Private!AskAfterConnect
    <3>1. CASE link' = "up" /\ Private!AskRun /\ UNCHANGED <<wire, faults>>
      BY <1>0, <2>2, <3>1 DEF Private!AskAfterConnect, Private!AskRun, UserTypes
    <3>2. CASE Private!Fault("ask") /\ link' = "down" /\ wire' = <<>> /\ UNCHANGED covered
      <4>1. faults' \in 0..MaxFaults
        BY <1>0, <3>2, UserAssumption DEF Private!Fault, UserTypes
      <4> QED
        BY <1>0, <2>2, <3>2, <4>1 DEF Private!AskAfterConnect, UserTypes
    <3> QED
      BY <2>2, <3>1, <3>2 DEF Private!AskAfterConnect
  <2>3. CASE Private!Drop
    BY <1>0, <2>3, UserAssumption DEF Private!Drop, Private!Fault, UserTypes
  <2>4. CASE Private!Restart
    BY <1>0, <2>4, UserAssumption DEF Private!Restart, Private!Fault, UserTypes
  <2> QED
    BY <2>1, <2>2, <2>3, <2>4
<1>2. wire' \in Seq(Seq(sent)) /\ userQueue' \in Seq(sent \cup {0}) /\ Len(userQueue') <= EventCap
  <2>1. <<>> \in Seq(Seq(sent)) /\ <<>> \in Seq(sent \cup {0}) /\ Len(<<>>) <= EventCap
    BY EmptySeq, UserAssumption
  <2> QED
    BY <1>0, <1>1, <2>1 DEF UserTypes
<1>3. /\ worker' \in [at : Workers, hand : SUBSET sent]
      /\ worker' = worker \/ (worker'.at = "idle" /\ worker'.hand = {})
  BY <1>0, <1>1 DEF UserTypes, Workers, Private!Idle
<1>4. Private!TypeOK'
  BY <1>0, <1>1, <1>2, <1>3 DEF Private!TypeOK, UserTypes, Workers, Private!StateRow
<1>5. ASSUME NEW e \in sent' PROVE Kept(e)'
  <2>1. CASE link' # "up"
    BY <2>1 DEF Kept, Private!OnItsWay
  <2>2. CASE link' = "up"
    BY <1>1, <2>2 DEF Kept
  <2> QED
    BY <2>1, <2>2
<1> QED
  BY <1>1, <1>3, <1>4, <1>5 DEF UserInv

LEMMA ResendKeeps ==
  ASSUME UserInv, Private!Resend
  PROVE  UserInv'
<1>0. UserTypes
  BY UserTypesOK DEF UserInv
<1>1. PICK e0 \in stored : wire' = Append(wire, <<e0>>)
  BY DEF Private!Resend
<1>2. UNCHANGED <<sent, link, userQueue, worker, stored, covered, held, faults, turns>>
  BY DEF Private!Resend
<1>3. <<e0>> \in Seq(sent) /\ wire \in Seq(Seq(sent))
  BY <1>0, <1>1 DEF UserTypes
<1>4. /\ wire' \in Seq(Seq(sent)) /\ Len(wire') = Len(wire) + 1 /\ Len(wire) \in Nat
      /\ \A i \in 1..Len(wire) : wire'[i] = wire[i]
      /\ DOMAIN wire = 1..Len(wire) /\ DOMAIN wire' = 1..Len(wire')
  BY <1>1, <1>3, AppendProperties, LenProperties
<1>5. Private!TypeOK'
  BY <1>0, <1>2, <1>4 DEF Private!TypeOK, UserTypes, Workers, Private!StateRow
<1>6. ASSUME NEW e \in sent' PROVE Kept(e)'
  <2>1. Kept(e) /\ e \in sent
    BY <1>2, <1>6 DEF UserInv
  <2>2. ASSUME NEW i \in DOMAIN wire, e \in Private!ToSet(wire[i])
        PROVE  i \in DOMAIN wire' /\ e \in Private!ToSet(wire'[i])
    BY <1>4, <2>2
  <2>3. \/ \A i \in DOMAIN wire : e \notin Private!ToSet(wire[i])
        \/ \E i \in DOMAIN wire' : e \in Private!ToSet(wire'[i])
    BY <2>2
  <2> QED
    BY <1>2, <2>1, <2>3, KeptElsewhere
<1> QED
  BY <1>2, <1>5, <1>6 DEF UserInv

LEMMA ReceiveKeeps ==
  ASSUME UserInv, Private!Receive
  PROVE  UserInv'
<1> DEFINE frame == Head(wire)
           room == EventCap - Len(userQueue)
<1>0. UserTypes
  BY UserTypesOK DEF UserInv
<1>1. /\ link = "up" /\ wire # <<>> /\ UNCHANGED <<sent, worker, stored, covered, turns>>
      /\ \/ /\ Len(frame) <= room /\ userQueue' = userQueue \o frame /\ wire' = Tail(wire)
            /\ UNCHANGED <<link, held, faults>>
         \/ /\ ~(Len(frame) <= room) /\ userQueue' = userQueue \o SubSeq(frame, 1, room)
            /\ link' = "down" /\ wire' = <<>>
            /\ \/ held' = Private!Hold /\ UNCHANGED faults
               \/ Private!Fault("hold") /\ UNCHANGED held
  BY DEF Private!Receive, Private!ReceiveLoses, Private!Room
<1>2. /\ wire \in Seq(Seq(sent)) /\ userQueue \in Seq(sent \cup {0})
      /\ Len(userQueue) \in Nat /\ EventCap \in Nat /\ Len(userQueue) <= EventCap
  BY <1>0, LenProperties, UserAssumption DEF UserTypes
<1>3. /\ frame \in Seq(sent) /\ Tail(wire) \in Seq(Seq(sent)) /\ Len(Tail(wire)) = Len(wire) - 1
      /\ \A i \in 1..Len(Tail(wire)) : Tail(wire)[i] = wire[i + 1]
      /\ frame = wire[1] /\ Len(wire) \in Nat /\ DOMAIN wire = 1..Len(wire)
      /\ DOMAIN Tail(wire) = 1..Len(Tail(wire))
  BY <1>1, <1>2, HeadTailProperties, LenProperties
<1> HIDE DEF frame
<1>4. frame \in Seq(sent \cup {0}) /\ Len(frame) \in Nat
  BY <1>3, SeqMonotonic, LenProperties
<1>5. CASE /\ Len(frame) <= room /\ userQueue' = userQueue \o frame /\ wire' = Tail(wire)
           /\ UNCHANGED <<link, held, faults>>
  <2>1. userQueue' \in Seq(sent \cup {0}) /\ Len(userQueue') <= EventCap
    BY <1>2, <1>4, <1>5, ConcatProperties
  <2>2. Private!TypeOK'
    BY <1>0, <1>1, <1>3, <1>5, <2>1 DEF Private!TypeOK, UserTypes, Workers, Private!StateRow
  <2>3. ASSUME NEW e \in sent' PROVE Kept(e)'
    <3>1. Kept(e) /\ e \in sent
      BY <1>1, <2>3 DEF UserInv
    <3>2. e \in Private!ToSet(userQueue) \/ e \in Private!ToSet(frame) => e \in Private!ToSet(userQueue')
      BY <1>2, <1>4, <1>5, ToSetConcat
    <3>3. ASSUME NEW i \in DOMAIN wire, e \in Private!ToSet(wire[i])
          PROVE  \/ e \in Private!ToSet(userQueue')
                 \/ \E j \in DOMAIN wire' : e \in Private!ToSet(wire'[j])
      <4>1. CASE i = 1
        BY <1>3, <3>2, <3>3, <4>1
      <4>2. CASE i # 1
        <5>1. i - 1 \in DOMAIN Tail(wire) /\ Tail(wire)[i - 1] = wire[i]
          BY <1>3, <4>2
        <5> QED
          BY <1>5, <3>3, <5>1
      <4> QED
        BY <4>1, <4>2
    <3>4. \/ \A i \in DOMAIN wire : e \notin Private!ToSet(wire[i])
          \/ e \in Private!ToSet(userQueue')
          \/ \E j \in DOMAIN wire' : e \in Private!ToSet(wire'[j])
      BY <3>3
    <3> QED
      BY <1>1, <1>5, <3>1, <3>2, <3>4, KeptElsewhere
  <2> QED
    BY <1>1, <1>5, <2>2, <2>3 DEF UserInv
<1>6. CASE /\ ~(Len(frame) <= room) /\ userQueue' = userQueue \o SubSeq(frame, 1, room)
           /\ link' = "down" /\ wire' = <<>>
           /\ \/ held' = Private!Hold /\ UNCHANGED faults
              \/ Private!Fault("hold") /\ UNCHANGED held
  <2>1. /\ SubSeq(frame, 1, room) \in Seq(sent \cup {0})
        /\ Len(SubSeq(frame, 1, room)) = room
    <3>1. 1 \in Int /\ room \in Nat /\ room < Len(frame)
      BY <1>2, <1>4, <1>6
    <3>2. \A i \in 1..room : frame[i] \in sent \cup {0}
      <4>1. \A i \in 1..Len(frame) : frame[i] \in sent \cup {0}
        BY <1>4, ElementOfSeq
      <4> QED
        BY <1>4, <3>1, <4>1
    <3> HIDE DEF room
    <3>3. /\ SubSeq(frame, 1, room) \in Seq(sent \cup {0})
          /\ Len(SubSeq(frame, 1, room)) = IF 1 <= room THEN room - 1 + 1 ELSE 0
      BY <3>1, <3>2, SubSeqProperties
    <3> QED
      BY <3>1, <3>3
  <2>2. userQueue' \in Seq(sent \cup {0}) /\ Len(userQueue') <= EventCap
    BY <1>2, <1>6, <2>1, ConcatProperties
  <2>3. held' \in [on : BOOLEAN, since : SUBSET sent] /\ faults' \in 0..MaxFaults
    <3>1. Private!Hold \in [on : BOOLEAN, since : SUBSET sent]
      BY <1>0 DEF UserTypes, Private!Hold
    <3>2. held \in [on : BOOLEAN, since : SUBSET sent] /\ faults \in 0..MaxFaults
      BY <1>0 DEF UserTypes
    <3>3. CASE held' = Private!Hold /\ UNCHANGED faults
      BY <3>1, <3>2, <3>3
    <3>4. CASE Private!Fault("hold") /\ UNCHANGED held
      BY <3>2, <3>4, UserAssumption DEF Private!Fault
    <3> QED
      BY <1>6, <3>3, <3>4
  <2>4. wire' \in Seq(Seq(sent))
    BY <1>6, EmptySeq
  <2>5. Private!TypeOK'
    BY <1>0, <1>1, <1>6, <2>2, <2>3, <2>4 DEF Private!TypeOK, UserTypes, Workers, Private!StateRow
  <2>6. ASSUME NEW e \in sent' PROVE Kept(e)'
    BY <1>6 DEF Kept, Private!OnItsWay
  <2> QED
    BY <1>1, <2>5, <2>6 DEF UserInv
<1> QED
  BY <1>1, <1>5, <1>6

LEMMA PersistStateKeeps ==
  ASSUME UserInv, Private!PersistState
  PROVE  UserInv'
<1>0. UserTypes
  BY UserTypesOK DEF UserInv
<1>1. /\ userQueue' = Append(userQueue, 0) /\ EventCap - Len(userQueue) > 0
      /\ UNCHANGED <<sent, link, wire, worker, stored, covered, held, faults, turns>>
  BY DEF Private!PersistState, Private!Room, Private!StateRow
<1>2. userQueue \in Seq(sent \cup {0}) /\ Len(userQueue) \in Nat /\ EventCap \in Nat
  BY <1>0, LenProperties, UserAssumption DEF UserTypes
<1>3. /\ userQueue' \in Seq(sent \cup {0}) /\ Len(userQueue') = Len(userQueue) + 1
      /\ \A i \in 1..Len(userQueue) : userQueue'[i] = userQueue[i]
  BY <1>1, <1>2, AppendProperties
<1>4. Len(userQueue') <= EventCap
  BY <1>1, <1>2, <1>3
<1>5. Private!TypeOK'
  BY <1>0, <1>1, <1>3, <1>4 DEF Private!TypeOK, UserTypes, Workers, Private!StateRow
<1>6. ASSUME NEW e \in sent' PROVE Kept(e)'
  <2>1. Kept(e) /\ e \in sent
    BY <1>1, <1>6 DEF UserInv
  <2>2. e \in Private!ToSet(userQueue) => e \in Private!ToSet(userQueue')
    <3> SUFFICES ASSUME e \in Private!ToSet(userQueue) PROVE e \in Private!ToSet(userQueue')
      OBVIOUS
    <3>1. PICK i \in 1..Len(userQueue) : userQueue[i] = e
      BY <1>2, InToSet
    <3>2. i \in 1..Len(userQueue') /\ userQueue'[i] = e
      BY <1>2, <1>3, <3>1
    <3> QED
      BY <1>3, <3>2, InToSet
  <2> QED
    BY <1>1, <2>1, <2>2, KeptElsewhere
<1> QED
  BY <1>1, <1>5, <1>6 DEF UserInv

\* The worker takes the first of the queue: an event comes into its hands.
LEMMA TakeKeeps ==
  ASSUME UserInv, Private!TakeEvent \/ Private!TakeState
  PROVE  UserInv'
<1>0. UserTypes
  BY UserTypesOK DEF UserInv
<1>1. /\ worker.at = "idle" /\ userQueue # <<>> /\ userQueue' = Tail(userQueue)
      /\ UNCHANGED <<sent, link, wire, stored, covered, held, turns>>
  BY DEF Private!TakeEvent, Private!TakeState
<1>2. /\ userQueue \in Seq(sent \cup {0}) /\ Len(userQueue) \in Nat /\ Len(userQueue) <= EventCap
      /\ EventCap \in Nat
  BY <1>0, LenProperties, UserAssumption DEF UserTypes
<1>3. /\ Head(userQueue) \in sent \cup {0} /\ userQueue' \in Seq(sent \cup {0})
      /\ Len(userQueue') <= EventCap
  <2>1. /\ Head(userQueue) \in sent \cup {0} /\ Tail(userQueue) \in Seq(sent \cup {0})
        /\ Len(Tail(userQueue)) = Len(userQueue) - 1
    BY <1>1, <1>2, HeadTailProperties
  <2> QED
    BY <1>1, <1>2, <2>1
<1>4. worker.hand = {} /\ faults \in 0..MaxFaults
  BY <1>0, <1>1 DEF UserInv, UserTypes
<1>5. /\ worker' \in [at : Workers, hand : SUBSET sent] /\ faults' \in 0..MaxFaults
      /\ Head(userQueue) \in sent => Head(userQueue) \in worker'.hand
      /\ worker'.at = "storing" \/ worker'.hand = {}
      /\ worker'.at # "asking"
  <2>1. CASE Private!TakeEvent
    <3>1. /\ worker' = [at |-> "storing", hand |-> {Head(userQueue)}] /\ faults' = faults
          /\ Head(userQueue) # 0
      BY <2>1 DEF Private!TakeEvent, Private!StateRow
    <3> QED
      BY <1>3, <1>4, <3>1 DEF Workers
  <2>2. CASE Private!TakeState
    <3>1. Head(userQueue) = 0 /\ 0 \notin sent
      BY <1>0, <2>2, UserAssumption DEF Private!TakeState, Private!StateRow, UserTypes
    <3>2. CASE UNCHANGED <<worker, faults>>
      BY <1>0, <1>1, <1>4, <3>1, <3>2 DEF UserTypes
    <3>3. CASE Private!Fault("store") /\ worker' = [at |-> "holding", hand |-> {}]
      <4>1. faults' \in 0..MaxFaults
        BY <1>4, <3>3, UserAssumption DEF Private!Fault
      <4> QED
        BY <3>1, <3>3, <4>1 DEF Workers
    <3> QED
      BY <2>2, <3>2, <3>3 DEF Private!TakeState
  <2> QED
    BY <2>1, <2>2
<1>6. Private!TypeOK'
  BY <1>0, <1>1, <1>3, <1>5 DEF Private!TypeOK, UserTypes, Workers, Private!StateRow
<1>7. ASSUME NEW e \in sent' PROVE Kept(e)'
  <2>1. Kept(e) /\ e \in sent
    BY <1>1, <1>7 DEF UserInv
  <2>2. e \in Private!ToSet(userQueue) => e \in Private!ToSet(userQueue') \/ e \in worker'.hand
    BY <1>1, <1>2, <1>5, <2>1, ToSetHeadTail
  <2> QED
    BY <1>1, <1>4, <2>1, <2>2, KeptElsewhere
<1>8. worker'.at = "holding" => worker'.hand = {}
  BY <1>5
<1>9. worker'.at = "idle" => worker'.hand = {}
  BY <1>5
<1> QED
  BY <1>1, <1>5, <1>6, <1>7, <1>8, <1>9 DEF UserInv

\* Where the worker alone moves, its event is stored before it is put down, or
\* entries are held for it.
LEMMA WorkerStep ==
  ASSUME UserInv,
         UNCHANGED <<sent, link, wire, userQueue, turns>>,
         stored \subseteq stored', stored' \subseteq sent,
         covered \subseteq covered', covered' \subseteq sent,
         worker' \in [at : Workers, hand : SUBSET sent], faults' \in 0..MaxFaults,
         held' \in [on : BOOLEAN, since : SUBSET sent],
         worker'.at = "idle" => worker'.hand = {},
         worker'.at = "asking" => worker'.hand \subseteq stored',
         HoldsAreFresh /\ worker'.at = "holding" /\ "release" \in turns
            => worker'.hand \subseteq stored',
         \A e \in worker.hand : e \in worker'.hand \/ e \in stored' \cup covered'
                                   \/ (held'.on /\ "release" \notin turns) \/ ~HoldsAreFresh,
         held.on /\ "release" \notin turns => held'.on
  PROVE  UserInv'
<1>0. UserTypes
  BY UserTypesOK DEF UserInv
<1>1. Private!TypeOK'
  BY <1>0 DEF Private!TypeOK, UserTypes, Workers, Private!StateRow
<1>2. ASSUME NEW e \in sent' PROVE Kept(e)'
  <2>1. Kept(e) /\ e \in sent
    BY <1>2 DEF UserInv
  <2> QED
    BY <2>1, KeptElsewhere
<1> QED
  BY <1>1, <1>2 DEF UserInv

LEMMA StoreKeeps ==
  ASSUME UserInv, Private!StoreEvent
  PROVE  UserInv'
<1>0. /\ stored \subseteq sent /\ covered \subseteq sent /\ faults \in 0..MaxFaults
      /\ worker \in [at : Workers, hand : SUBSET sent] /\ turns \in UserWorlds
      /\ held \in [on : BOOLEAN, since : SUBSET sent]
  BY UserTypesOK DEF UserInv, UserTypes
<1>1. UNCHANGED <<sent, link, wire, userQueue, covered, held, turns>>
  BY DEF Private!StoreEvent
<1>2. CASE /\ stored' = stored \cup worker.hand
           /\ worker' = IF worker.hand \subseteq stored THEN Private!Idle
                        ELSE [worker EXCEPT !.at = "asking"]
           /\ UNCHANGED faults
  <2>1. /\ worker' \in [at : Workers, hand : SUBSET sent]
        /\ \/ worker'.at = "idle" /\ worker'.hand = {}
           \/ worker'.at = "asking" /\ worker'.hand = worker.hand
    BY <1>0, <1>2 DEF Workers, Private!Idle
  <2>2. worker'.hand \subseteq stored' /\ worker.hand \subseteq stored' /\ stored' \subseteq sent
    BY <1>0, <1>2, <2>1
  <2>3. worker'.at # "holding" /\ (worker'.at = "idle" => worker'.hand = {})
    BY <2>1
  <2> QED
    BY <1>0, <1>1, <1>2, <2>1, <2>2, <2>3, WorkerStep
<1>3. CASE /\ Private!Fault("store") /\ UNCHANGED stored
           /\ worker' = [worker EXCEPT !.at = "holding"]
  <2>1. /\ worker' \in [at : Workers, hand : SUBSET sent]
        /\ worker'.at = "holding" /\ worker'.hand = worker.hand
    BY <1>0, <1>3 DEF Workers
  <2>2. faults' \in 0..MaxFaults /\ "store" \in turns
    BY <1>0, <1>3, UserAssumption DEF Private!Fault
  <2>3. HoldsAreFresh => "release" \notin turns
    BY <1>0, <2>2 DEF HoldsAreFresh
  <2>4. worker'.at # "idle" /\ worker'.at # "asking"
    BY <2>1
  <2> QED
    BY <1>0, <1>1, <1>3, <2>1, <2>2, <2>3, <2>4, WorkerStep
<1> QED
  BY <1>2, <1>3 DEF Private!StoreEvent

LEMMA AskKeeps ==
  ASSUME UserInv, Private!AskAfterEvent
  PROVE  UserInv'
<1>0. /\ stored \subseteq sent /\ covered \subseteq sent /\ faults \in 0..MaxFaults
      /\ worker \in [at : Workers, hand : SUBSET sent] /\ turns \in UserWorlds
      /\ held \in [on : BOOLEAN, since : SUBSET sent]
  BY UserTypesOK DEF UserInv, UserTypes
<1>1. UNCHANGED <<sent, link, wire, userQueue, stored, held, turns>> /\ worker.hand \subseteq stored
  BY DEF Private!AskAfterEvent, UserInv
<1>2. CASE Private!AskRun /\ worker' = Private!Idle /\ UNCHANGED faults
  <2>1. /\ worker' \in [at : Workers, hand : SUBSET sent]
        /\ worker'.at = "idle" /\ worker'.hand = {}
    BY <1>2 DEF Workers, Private!Idle
  <2>2. covered \subseteq covered' /\ covered' \subseteq sent
    BY <1>0, <1>2 DEF Private!AskRun
  <2>3. worker'.at # "holding" /\ worker'.at # "asking"
    BY <2>1
  <2> QED
    BY <1>0, <1>1, <1>2, <2>1, <2>2, <2>3, WorkerStep
<1>3. CASE /\ Private!Fault("ask") /\ worker' = [worker EXCEPT !.at = "holding"]
           /\ UNCHANGED covered
  <2>1. /\ worker' \in [at : Workers, hand : SUBSET sent]
        /\ worker'.at = "holding" /\ worker'.hand = worker.hand
    BY <1>0, <1>3 DEF Workers
  <2>2. faults' \in 0..MaxFaults
    BY <1>0, <1>3, UserAssumption DEF Private!Fault
  <2>3. worker'.at # "idle" /\ worker'.at # "asking"
    BY <2>1
  <2> QED
    BY <1>0, <1>1, <1>3, <2>1, <2>2, <2>3, WorkerStep
<1> QED
  BY <1>2, <1>3 DEF Private!AskAfterEvent

LEMMA HoldKeeps ==
  ASSUME UserInv, Private!HoldEntries \/ Private!Release
  PROVE  UserInv'
<1>0. /\ stored \subseteq sent /\ covered \subseteq sent /\ faults \in 0..MaxFaults
      /\ worker \in [at : Workers, hand : SUBSET sent] /\ turns \in UserWorlds
      /\ held \in [on : BOOLEAN, since : SUBSET sent]
  BY UserTypesOK DEF UserInv, UserTypes
<1>1. CASE Private!HoldEntries
  <2>1. /\ worker' \in [at : Workers, hand : SUBSET sent]
        /\ worker'.at = "idle" /\ worker'.hand = {}
    BY <1>1 DEF Workers, Private!Idle, Private!HoldEntries
  <2>2. held' \in [on : BOOLEAN, since : SUBSET sent] /\ held'.on
    <3>1. held' = [on |-> TRUE, since |-> IF held.on THEN held.since ELSE sent]
      BY <1>1 DEF Private!HoldEntries, Private!Hold
    <3> QED
      BY <1>0, <3>1
  <2>3. worker'.at # "holding" /\ worker'.at # "asking"
    BY <2>1
  <2>4. HoldsAreFresh /\ "release" \in turns => worker.hand \subseteq stored
    BY <1>1 DEF UserInv, Private!HoldEntries
  <2>5. UNCHANGED <<sent, link, wire, userQueue, stored, covered, faults, turns>>
    BY <1>1 DEF Private!HoldEntries
  <2> QED
    BY <1>0, <2>1, <2>2, <2>3, <2>4, <2>5, WorkerStep
<1>2. CASE Private!Release
  <2>1. /\ UNCHANGED <<sent, link, wire, userQueue, worker, stored, faults, turns>>
        /\ "release" \in turns /\ covered' = covered \cup held.since
    BY <1>2 DEF Private!Release
  <2>2. held' \in [on : BOOLEAN, since : SUBSET sent]
    BY <1>2 DEF Private!Release, Private!NotHeld
  <2>3. covered' \subseteq sent
    BY <1>0, <2>1
  <2>4. /\ worker.at = "idle" => worker.hand = {}
        /\ worker.at = "asking" => worker.hand \subseteq stored
        /\ HoldsAreFresh /\ worker.at = "holding" /\ "release" \in turns
              => worker.hand \subseteq stored
    BY DEF UserInv
  <2> QED
    BY <1>0, <2>1, <2>2, <2>3, <2>4, WorkerStep
<1> QED
  BY <1>1, <1>2

LEMMA UserInvInit == Private!Init => UserInv
<1> SUFFICES ASSUME Private!Init PROVE UserInv
  OBVIOUS
<1>1. wire \in Seq(Seq(sent)) /\ userQueue \in Seq(sent \cup {0}) /\ Len(userQueue) <= EventCap
  BY UserAssumption, EmptySeq DEF Private!Init
<1>2. worker \in [at : Workers, hand : SUBSET sent] /\ worker.at = "idle" /\ worker.hand = {}
  BY DEF Private!Init, Private!Idle, Workers
<1>3. /\ sent = {} /\ stored = {} /\ covered = {} /\ faults \in 0..MaxFaults
      /\ held \in [on : BOOLEAN, since : SUBSET sent] /\ link = "down" /\ turns \in UserWorlds
  BY UserAssumption DEF Private!Init, Private!NotHeld
<1>4. Private!TypeOK
  BY <1>1, <1>2, <1>3 DEF Private!TypeOK, Workers, Private!StateRow
<1> QED
  BY <1>2, <1>3, <1>4 DEF UserInv

LEMMA UserInvNext ==
  ASSUME UserInv, [Private!Next]_userVars
  PROVE  UserInv'
<1>1. CASE UNCHANGED userVars
  <2>1. UNCHANGED <<sent, link, wire, userQueue, worker, stored, covered, held, faults, turns>>
    BY <1>1 DEF userVars
  <2>2. UNCHANGED Private!TypeOK /\ \A e : Kept(e)' <=> Kept(e)
    BY <2>1 DEF Private!TypeOK, Kept, Private!OnItsWay, Private!ToSet
  <2> QED
    BY <2>1, <2>2 DEF UserInv
<1>2. CASE Private!Emit
  BY <1>2, EmitEffect
<1>3. CASE Private!Resend
  BY <1>3, ResendKeeps
<1>4. CASE Private!Connect \/ Private!AskAfterConnect \/ Private!Drop \/ Private!Restart
  BY <1>4, ConnectionStep
<1>5. CASE Private!Receive
  BY <1>5, ReceiveKeeps
<1>6. CASE Private!PersistState
  BY <1>6, PersistStateKeeps
<1>7. CASE Private!TakeEvent \/ Private!TakeState
  BY <1>7, TakeKeeps
<1>8. CASE Private!StoreEvent
  BY <1>8, StoreKeeps
<1>9. CASE Private!AskAfterEvent
  BY <1>9, AskKeeps
<1>10. CASE Private!HoldEntries \/ Private!Release
  BY <1>10, HoldKeeps
<1> QED
  BY <1>1, <1>2, <1>3, <1>4, <1>5, <1>6, <1>7, <1>8, <1>9, <1>10 DEF Private!Next

(* Whatever the feed loses, the queue drops or the database refuses: every *)
(* private event is stored, read by a run that was asked for after it, on  *)
(* its way there, or entries are held, where no pause that was held before *)
(* a failure of the worker is released for it.                             *)
THEOREM NothingIsForgottenEver ==
  ASSUME HoldsAreFresh PROVE Spec => []NothingIsForgotten
<1>1. Init => UserInv
  BY UserInvInit DEF Init
<1>2. UserInv /\ [Next]_feedVars => UserInv'
  BY PrivateSteps, UserInvNext
<1>3. UserInv => NothingIsForgotten
  BY DEF UserInv, Kept, NothingIsForgotten, Private!NothingIsForgotten
<1> QED
  BY <1>1, <1>2, <1>3, PTL DEF Spec, feedVars

-----------------------------------------------------------------------------
(* The trade window *)

\* A set of integers between two bounds has a greatest element, which is Max.
LEMMA MaxProperties ==
  ASSUME NEW low \in Int, NEW high \in Int, NEW S, S \subseteq low..high, S # {}
  PROVE  Window!Max(S) \in S /\ \A n \in S : Window!Max(S) >= n
<1> DEFINE shifted == {n - low : n \in S}
<1>1. high - low \in Nat
  <2>1. PICK n \in S : n \in low..high
    OBVIOUS
  <2> QED
    BY <2>1
<1>2. shifted \subseteq 0..(high - low) /\ shifted # {}
  <2>1. \A n \in S : n - low \in 0..(high - low)
    OBVIOUS
  <2> QED
    BY <2>1
<1>3. PICK m \in shifted : \A n \in shifted : n <= m
  <2> HIDE DEF shifted
  <2> QED
    BY <1>1, <1>2, GreatestNatural
<1>4. PICK top \in S : m = top - low
  BY <1>3
<1>5. \A n \in S : top >= n
  <2> SUFFICES ASSUME NEW n \in S PROVE top >= n
    OBVIOUS
  <2>1. n - low \in shifted
    OBVIOUS
  <2>2. n - low <= m
    BY <1>3, <2>1
  <2> QED
    BY <1>4, <2>2
<1> QED
  BY <1>5 DEF Window!Max

LEMMA WindowConstants ==
  /\ Trades \in Nat /\ MaxNow \in Nat /\ Overlap \in Nat /\ Lateness \in Nat
  /\ Lateness <= Overlap
  BY FeedsAssumption DEF Window!WindowAssumption

TradeTimes == [at : Window!Times, shown : Nat]
Fetches == [pc : {"idle", "planned", "read", "persisted"}, after : Int, before : Int,
            planned : Int, bootstrap : BOOLEAN, slice : Nat, watermark : Int,
            read : SUBSET Window!TradeIds, truncated : BOOLEAN]

\* What a run may end with: neither end of its window is ahead of the clock,
\* nor of the moment it was planned at.
Bounded(f) ==
    /\ 0 <= f.planned /\ f.planned <= now
    /\ f.before = Window!NoTime \/ f.before <= f.planned
    /\ f.watermark = Window!NoTime \/ f.watermark >= -2 * Overlap
    /\ f.watermark <= now
    /\ f.watermark = Window!NoTime => f.before = Window!NoTime

WindowTypes ==
    /\ now \in 0..MaxNow
    /\ trade \in [Window!TradeIds -> TradeTimes]
    /\ \A t \in Window!TradeIds : /\ trade[t].at <= trade[t].shown
                                  /\ trade[t].shown <= trade[t].at + Lateness
    /\ persisted \subseteq Window!Matched
    /\ mark \in [at : Int, slice : Nat]
    /\ mark.at = Window!NoTime \/ mark.at >= -2 * Overlap
    /\ mark.at <= now
    /\ fetch \in Fetches /\ fetch.read \subseteq Window!Shown
    /\ fetch.pc # "idle" => Bounded(fetch)
    /\ exhausted \in BOOLEAN

\* Where a watermark is stored: what lies an overlap behind it is persisted; a
\* run reads from an overlap behind it, and what it read is its whole window,
\* unless it was cut short.
Behind == \A t \in Window!TradeIds : trade[t].at < mark.at - Overlap => t \in persisted
WindowInv ==
    /\ mark.at >= 0 /\ Behind
    /\ fetch.pc # "idle" => /\ ~fetch.bootstrap /\ fetch.watermark = mark.at
                            /\ fetch.after = mark.at - Overlap
    /\ fetch.pc \in {"read", "persisted"} /\ ~fetch.truncated
          => fetch.read = Window!Window(fetch)
    /\ fetch.pc = "persisted" => fetch.read \subseteq persisted

LEMMA WindowTypesOK == WindowTypes => Window!TypeOK
<1> SUFFICES ASSUME WindowTypes PROVE Window!TypeOK
  OBVIOUS
<1>1. mark.at \in {Window!NoTime} \cup (-2 * Overlap)..MaxNow
  BY WindowConstants DEF WindowTypes
<1> QED
  BY <1>1 DEF WindowTypes, Window!TypeOK, Fetches, Window!Times

\* A trade that can be ingested has matched; both stay so.
LEMMA ShownMatched ==
  ASSUME WindowTypes
  PROVE  Window!Shown \subseteq Window!Matched /\ Window!Matched \subseteq Window!TradeIds
  BY WindowConstants DEF WindowTypes, TradeTimes, Window!Shown, Window!Matched, Window!Times

LEMMA WindowInit ==
  ASSUME Window!Init
  PROVE  WindowTypes /\ (Start = "row" => WindowInv)
<1>1. PICK at \in [Window!TradeIds -> Window!Times], late \in [Window!TradeIds -> 0..Lateness] :
          /\ trade = [t \in Window!TradeIds |-> [at |-> at[t], shown |-> at[t] + late[t]]]
          /\ persisted = IF Start = "legacy"
                         THEN {t \in Window!TradeIds : at[t] = 0 /\ late[t] = 0} ELSE {}
  BY DEF Window!Init
<1>2. \A t \in Window!TradeIds : /\ at[t] \in 0..MaxNow /\ late[t] \in 0..Lateness
                                 /\ trade[t] = [at |-> at[t], shown |-> at[t] + late[t]]
  BY <1>1 DEF Window!Times
<1>3. \A t \in Window!TradeIds : /\ trade[t] \in TradeTimes
                                 /\ trade[t].at = at[t] /\ trade[t].shown = at[t] + late[t]
  <2> SUFFICES ASSUME NEW t \in Window!TradeIds
               PROVE  /\ trade[t] \in TradeTimes
                      /\ trade[t].at = at[t] /\ trade[t].shown = at[t] + late[t]
    OBVIOUS
  <2> DEFINE matched == at[t]
             listed == at[t] + late[t]
  <2>1. listed \in Nat /\ matched \in Window!Times
    BY <1>2, WindowConstants DEF Window!Times
  <2>2. trade[t] = [at |-> matched, shown |-> listed]
    BY <1>2
  <2> HIDE DEF matched, listed
  <2>3. trade[t] \in TradeTimes /\ trade[t].at = matched /\ trade[t].shown = listed
    BY <2>1, <2>2 DEF TradeTimes
  <2> QED
    BY <2>3 DEF matched, listed
<1>4. trade \in [Window!TradeIds -> TradeTimes]
  BY <1>1, <1>3
<1>5. now = 0 /\ fetch = Window!NoFetch /\ exhausted = FALSE
      /\ mark = [at |-> IF Start = "row" THEN 0 ELSE Window!NoTime, slice |-> 0]
  BY DEF Window!Init
<1>6. persisted \subseteq Window!Matched
  BY <1>1, <1>2, <1>3, <1>5 DEF Window!Matched
<1>7. fetch \in Fetches /\ fetch.pc = "idle" /\ fetch.read = {}
  BY <1>5 DEF Fetches, Window!NoFetch, Window!NoTime
<1>8. /\ mark \in [at : Int, slice : Nat] /\ mark.at <= now
      /\ mark.at = Window!NoTime \/ mark.at >= -2 * Overlap
      /\ Start = "row" => mark.at = 0
  BY <1>5, WindowConstants DEF Window!NoTime
<1>9. \A t \in Window!TradeIds : /\ trade[t].at <= trade[t].shown
                                 /\ trade[t].shown <= trade[t].at + Lateness
                                 /\ trade[t].at >= 0
  <2> SUFFICES ASSUME NEW t \in Window!TradeIds
               PROVE  /\ trade[t].at <= trade[t].shown
                      /\ trade[t].shown <= trade[t].at + Lateness
                      /\ trade[t].at >= 0
    OBVIOUS
  <2>1. at[t] \in 0..MaxNow /\ late[t] \in 0..Lateness
    BY <1>2
  <2>2. trade[t].at = at[t] /\ trade[t].shown = at[t] + late[t]
    BY <1>3
  <2> QED
    BY <2>1, <2>2, WindowConstants
<1>10. WindowTypes
  <2>1. now \in 0..MaxNow
    BY <1>5, WindowConstants
  <2>2. fetch.read \subseteq Window!Shown
    BY <1>7
  <2>3. exhausted \in BOOLEAN /\ fetch.pc = "idle"
    BY <1>5, <1>7
  <2> QED
    BY <1>4, <1>6, <1>7, <1>8, <1>9, <2>1, <2>2, <2>3 DEF WindowTypes
<1>11. ASSUME Start = "row" PROVE WindowInv
  <2>1. Behind
    BY <1>4, <1>8, <1>9, <1>11, WindowConstants DEF Behind, TradeTimes, Window!Times
  <2> QED
    BY <1>7, <1>8, <1>11, <2>1 DEF WindowInv
<1> QED
  BY <1>10, <1>11

\* The clock, the rows and the watermark stay where they are, and the run is
\* where it was or at rest.
LEMMA WindowFrame ==
  ASSUME WindowTypes, UNCHANGED <<trade, persisted, mark>>, exhausted' \in BOOLEAN,
         now' \in 0..MaxNow, now <= now',
         fetch' \in Fetches, fetch'.read \subseteq Window!Shown,
         fetch'.pc # "idle" => Bounded(fetch)'
  PROVE  WindowTypes'
<1>1. \A t \in Window!TradeIds : trade[t].at \in Int /\ trade[t].shown \in Nat
  BY DEF WindowTypes, TradeTimes, Window!Times
<1>2. /\ Window!Matched \subseteq Window!Matched' /\ Window!Shown \subseteq Window!Shown'
  BY <1>1, WindowConstants DEF WindowTypes, Window!Matched, Window!Shown, Window!TradeIds
<1>3. mark'.at <= now'
  BY WindowConstants DEF WindowTypes
<1> QED
  BY <1>2, <1>3 DEF WindowTypes, Fetches, Window!TradeIds

LEMMA TickKeeps ==
  ASSUME WindowTypes, Window!Tick
  PROVE  WindowTypes' /\ (WindowInv => WindowInv')
<1>1. /\ UNCHANGED <<trade, persisted, mark, fetch, exhausted>>
      /\ now' = now + 1 /\ now < MaxNow /\ fetch.pc \in {"idle", "planned"}
  BY DEF Window!Tick
<1>2. now' \in 0..MaxNow /\ now <= now'
  BY <1>1, WindowConstants DEF WindowTypes
<1>3. fetch \in Fetches /\ fetch.read \subseteq Window!Shown /\ exhausted \in BOOLEAN
  BY DEF WindowTypes
<1>4. fetch'.pc # "idle" => Bounded(fetch)'
  BY <1>1, <1>2, <1>3 DEF WindowTypes, Bounded, Fetches
<1>5. WindowTypes'
  BY <1>1, <1>2, <1>3, <1>4, WindowFrame
<1>6. WindowInv => WindowInv'
  BY <1>1, <1>3 DEF WindowInv, Behind, Window!TradeIds, Fetches
<1> QED
  BY <1>5, <1>6

\* bootstrap_watermark lies between two overlaps before the first trade and now.
LEMMA BootstrapBounds ==
  ASSUME WindowTypes
  PROVE  LET mark0 == Window!BootstrapWatermark
         IN mark0 = Window!NoTime \/ (mark0 \in Int /\ mark0 >= -2 * Overlap /\ mark0 <= now)
<1> DEFINE S == {trade[t].at : t \in persisted}
<1>1. CASE persisted = {}
  BY <1>1 DEF Window!BootstrapWatermark
<1>2. CASE persisted # {}
  <2>1. \A t \in persisted : trade[t].at \in 0..now
    BY DEF WindowTypes, TradeTimes, Window!Matched, Window!Times
  <2>2. S \subseteq 0..now /\ S # {} /\ now \in Int
    BY <1>2, <2>1 DEF WindowTypes
  <2>3. Window!BootstrapWatermark = Window!Max(S) - Overlap
    BY <1>2 DEF Window!BootstrapWatermark
  <2> HIDE DEF S
  <2>4. Window!Max(S) \in S
    <3>1. 0 \in Int
      OBVIOUS
    <3> QED
      BY <2>2, <3>1, MaxProperties, Zenon
  <2>5. Window!Max(S) \in 0..now
    BY <2>2, <2>4
  <2> QED
    BY <2>2, <2>3, <2>5, WindowConstants
<1> QED
  BY <1>1, <1>2

LEMMA PlanKeeps ==
  ASSUME WindowTypes, Window!Plan
  PROVE  WindowTypes' /\ (WindowInv => WindowInv')
<1> DEFINE watermark == IF mark.at = Window!NoTime THEN Window!BootstrapWatermark ELSE mark.at
           whole == watermark = Window!NoTime
           after == IF whole THEN Window!NoTime ELSE watermark - Overlap
           bounded == mark.slice # 0 /\ (watermark - Overlap) + mark.slice < now
           before == IF bounded /\ ~whole THEN (watermark - Overlap) + mark.slice
                     ELSE Window!NoTime
           slice == IF bounded /\ ~whole THEN mark.slice ELSE 0
<1>1. /\ UNCHANGED <<now, trade, persisted, mark, exhausted>>
      /\ fetch' = [pc |-> "planned", after |-> after, before |-> before, planned |-> now,
                   bootstrap |-> whole, slice |-> slice, watermark |-> watermark,
                   read |-> {}, truncated |-> FALSE]
  BY DEF Window!Plan, Window!NoFetch
<1>2. Window!NoTime \in Int
  BY DEF Window!NoTime
<1>3. /\ mark.at \in Int /\ mark.slice \in Nat /\ now \in 0..MaxNow /\ now \in Int
      /\ mark.at = Window!NoTime \/ mark.at >= -2 * Overlap
      /\ mark.at <= now /\ exhausted \in BOOLEAN
  BY WindowConstants DEF WindowTypes
<1>4. /\ watermark = Window!NoTime \/ (watermark >= -2 * Overlap /\ watermark <= now)
      /\ watermark \in Int
  BY <1>2, <1>3, BootstrapBounds
<1>5. /\ after \in Int /\ before \in Int /\ slice \in Nat /\ whole \in BOOLEAN
      /\ before = Window!NoTime \/ before < now
      /\ whole => before = Window!NoTime
  <2> HIDE DEF watermark
  <2> QED
    BY <1>2, <1>3, <1>4, WindowConstants
<1>6. WindowInv => ~whole /\ watermark = mark.at /\ after = mark.at - Overlap
  BY <1>3 DEF WindowInv, Window!NoTime
<1>7. Window!NoTime <= now
  BY <1>3 DEF Window!NoTime
<1> HIDE DEF watermark, after, before, slice
<1>8. fetch' \in Fetches /\ fetch'.read = {} /\ fetch'.pc = "planned"
  BY <1>1, <1>3, <1>4, <1>5 DEF Fetches
<1>9. Bounded(fetch)'
  BY <1>1, <1>2, <1>3, <1>4, <1>5, <1>7 DEF Bounded
<1>10. WindowTypes'
  BY <1>1, <1>3, <1>8, <1>9, WindowFrame
<1>11. WindowInv => WindowInv'
  BY <1>1, <1>6, <1>8 DEF WindowInv, Behind, Window!TradeIds
<1> QED
  BY <1>10, <1>11

LEMMA FetchKeeps ==
  ASSUME WindowTypes, Window!Fetch
  PROVE  WindowTypes' /\ (WindowInv => WindowInv')
<1> DEFINE window == Window!Window(fetch)
<1>1. /\ UNCHANGED <<now, trade, persisted, mark, exhausted>> /\ fetch.pc = "planned"
      /\ \E read \in SUBSET window, truncated \in BOOLEAN :
            /\ fetch' = [fetch EXCEPT !.pc = "read", !.read = read, !.truncated = truncated]
            /\ ~truncated => read = window
  <2>0. fetch.pc = "planned" /\ UNCHANGED <<now, trade, persisted, mark, exhausted>>
    BY DEF Window!Fetch
  <2>1. fetch.truncated \in BOOLEAN /\ fetch \in Fetches
    BY DEF WindowTypes, Fetches
  <2>2. CASE fetch' = [fetch EXCEPT !.pc = "read", !.read = window]
    <3>1. fetch' = [fetch EXCEPT !.pc = "read", !.read = window, !.truncated = fetch.truncated]
      BY <2>1, <2>2 DEF Fetches
    <3> QED
      BY <2>0, <2>1, <3>1
  <2>3. CASE \E read \in SUBSET window :
                fetch' = [fetch EXCEPT !.pc = "read", !.read = read, !.truncated = TRUE]
    BY <2>0, <2>3
  <2>4. \/ fetch' = [fetch EXCEPT !.pc = "read", !.read = window]
        \/ \E read \in SUBSET window :
                fetch' = [fetch EXCEPT !.pc = "read", !.read = read, !.truncated = TRUE]
    BY DEF Window!Fetch, Window!kSubset
  <2> QED
    BY <2>2, <2>3, <2>4
<1>2. PICK read \in SUBSET window, truncated \in BOOLEAN :
            /\ fetch' = [fetch EXCEPT !.pc = "read", !.read = read, !.truncated = truncated]
            /\ ~truncated => read = window
  BY <1>1
<1>3. window \subseteq Window!Shown
  BY DEF Window!Window
<1>4. Window!Shown \subseteq Window!TradeIds
  BY DEF Window!Shown
<1>5. fetch \in Fetches /\ now \in 0..MaxNow /\ now \in Int /\ exhausted \in BOOLEAN
      /\ Bounded(fetch)
  BY <1>1, WindowConstants DEF WindowTypes
<1> HIDE DEF window
<1>6. /\ fetch' \in Fetches /\ fetch'.read = read /\ fetch'.pc = "read"
      /\ fetch'.truncated = truncated /\ fetch'.after = fetch.after
      /\ fetch'.before = fetch.before /\ fetch'.planned = fetch.planned
      /\ fetch'.bootstrap = fetch.bootstrap /\ fetch'.watermark = fetch.watermark
  BY <1>2, <1>3, <1>4, <1>5 DEF Fetches
<1>7. Bounded(fetch)'
  BY <1>1, <1>5, <1>6 DEF Bounded
<1>8. WindowTypes'
  BY <1>1, <1>3, <1>5, <1>6, <1>7, WindowFrame
<1>9. window = Window!Window(fetch)'
  BY <1>1, <1>6 DEF window, Window!Window, Window!Shown, Window!TradeIds
<1>10. WindowInv => WindowInv'
  BY <1>1, <1>2, <1>6, <1>9 DEF WindowInv, Behind, Window!TradeIds
<1> QED
  BY <1>8, <1>10

LEMMA PersistKeeps ==
  ASSUME WindowTypes, Window!Persist
  PROVE  WindowTypes' /\ (WindowInv => WindowInv')
<1>1. /\ UNCHANGED <<now, trade, mark, exhausted>> /\ fetch.pc = "read"
      /\ persisted' = persisted \cup fetch.read
      /\ fetch' = [fetch EXCEPT !.pc = "persisted"]
  BY DEF Window!Persist
<1>2. fetch \in Fetches
  BY DEF WindowTypes
<1>3. /\ fetch' \in Fetches /\ fetch'.pc = "persisted" /\ fetch'.read = fetch.read
      /\ fetch'.truncated = fetch.truncated /\ fetch'.after = fetch.after
      /\ fetch'.before = fetch.before /\ fetch'.planned = fetch.planned
      /\ fetch'.bootstrap = fetch.bootstrap /\ fetch'.watermark = fetch.watermark
  BY <1>1, <1>2 DEF Fetches
<1>4. persisted' \subseteq Window!Matched
  BY <1>1, ShownMatched DEF WindowTypes
<1>5. Window!Matched = Window!Matched' /\ Window!Shown = Window!Shown'
  BY <1>1 DEF Window!Matched, Window!Shown, Window!TradeIds
<1>6. Bounded(fetch)'
  BY <1>1, <1>3 DEF WindowTypes, Bounded
<1>7. WindowTypes'
  BY <1>1, <1>3, <1>4, <1>5, <1>6 DEF WindowTypes, Window!TradeIds
<1>8. Window!Window(fetch) = Window!Window(fetch)'
  BY <1>1, <1>3 DEF Window!Window, Window!Shown, Window!TradeIds
<1>9. WindowInv => WindowInv'
  BY <1>1, <1>3, <1>8 DEF WindowInv, Behind, Window!TradeIds
<1> QED
  BY <1>7, <1>9

LEMMA RunDiesKeeps ==
  ASSUME WindowTypes, Window!RunDies
  PROVE  WindowTypes' /\ (WindowInv => WindowInv')
<1>1. UNCHANGED <<now, trade, persisted, mark, exhausted>> /\ fetch' = Window!NoFetch
  BY DEF Window!RunDies
<1>2. fetch' \in Fetches /\ fetch'.pc = "idle" /\ fetch'.read = {}
  BY <1>1 DEF Fetches, Window!NoFetch, Window!NoTime
<1>3. now \in 0..MaxNow /\ now \in Int /\ exhausted \in BOOLEAN
  BY WindowConstants DEF WindowTypes
<1>4. WindowTypes'
  BY <1>1, <1>2, <1>3, WindowFrame
<1>5. WindowInv => WindowInv'
  BY <1>1, <1>2 DEF WindowInv, Behind, Window!TradeIds
<1> QED
  BY <1>4, <1>5

\* The watermark a run that was read to its end stores is one of the moments
\* it is the greatest of: the end of its window, the watermark it was planned
\* with, or the time of a trade it read.
LEMMA AdvancedBounds ==
  ASSUME WindowTypes, fetch.pc = "persisted"
  PROVE  LET edge == IF fetch.before # Window!NoTime THEN fetch.before ELSE fetch.planned
             mark1 == Window!Advanced(fetch)
         IN /\ mark1 \in Int /\ mark1 <= now
            /\ mark1 >= edge /\ mark1 >= fetch.watermark
            /\ \A t \in fetch.read : mark1 >= trade[t].at
            /\ \/ mark1 \in {edge, fetch.watermark}
               \/ \E t \in fetch.read : mark1 = trade[t].at
<1> DEFINE edge == IF fetch.before # Window!NoTime THEN fetch.before ELSE fetch.planned
           S == {edge, fetch.watermark} \cup {trade[t].at : t \in fetch.read}
           low == IF edge <= fetch.watermark THEN edge ELSE fetch.watermark
           bottom == IF low <= 0 THEN low ELSE 0
<1>1. /\ fetch \in Fetches /\ Bounded(fetch) /\ fetch.read \subseteq Window!Shown
      /\ now \in Int /\ now >= 0
  BY WindowConstants DEF WindowTypes
<1>2. edge \in Int /\ edge <= now /\ fetch.watermark \in Int /\ fetch.watermark <= now
  BY <1>1 DEF Fetches, Bounded
<1>3. \A t \in fetch.read : trade[t].at \in Int /\ 0 <= trade[t].at /\ trade[t].at <= now
  <2>1. \A t \in fetch.read : t \in Window!TradeIds /\ t \in Window!Matched
    BY <1>1, ShownMatched
  <2> QED
    BY <2>1 DEF WindowTypes, TradeTimes, Window!Matched, Window!Times
<1>4. Window!Advanced(fetch) = Window!Max(S)
  BY DEF Window!Advanced
<1> HIDE DEF edge
<1>5. bottom \in Int /\ bottom <= edge /\ bottom <= fetch.watermark /\ bottom <= 0
  BY <1>2
<1> HIDE DEF bottom, low
<1>6. S \subseteq bottom..now /\ S # {}
  BY <1>1, <1>2, <1>3, <1>5
<1>7. edge \in S /\ fetch.watermark \in S /\ \A t \in fetch.read : trade[t].at \in S
  OBVIOUS
<1>8. \A n \in S : n \in {edge, fetch.watermark} \/ \E t \in fetch.read : n = trade[t].at
  OBVIOUS
<1> HIDE DEF S
<1>9. Window!Max(S) \in S /\ \A n \in S : Window!Max(S) >= n
  BY <1>1, <1>5, <1>6, MaxProperties, Zenon
<1>10. Window!Max(S) \in Int /\ Window!Max(S) <= now
  <2>1. Window!Max(S) \in bottom..now
    BY <1>6, <1>9, Zenon
  <2> QED
    BY <1>1, <1>5, <2>1
<1> QED
  BY <1>4, <1>7, <1>8, <1>9, <1>10 DEF edge

\* A narrower slice is one: at least one unit.
LEMMA NarrowerBounds ==
  ASSUME WindowTypes, fetch.pc # "idle"
  PROVE  Window!Narrower(fetch) \in Nat
<1> DEFINE half == IF fetch.slice = 0 THEN (fetch.planned - fetch.after) \div 2
                   ELSE fetch.slice \div 2
           top == IF half <= 1 THEN 1 ELSE half
           bottom == IF half <= 1 THEN half ELSE 1
<1>1. fetch.slice \in Nat /\ fetch.planned \in Int /\ fetch.after \in Int
  BY DEF WindowTypes, Fetches
<1>2. half \in Int
  BY <1>1
<1>3. Window!Narrower(fetch) = Window!Max({half, 1})
  BY DEF Window!Narrower
<1> HIDE DEF half
<1>4. {half, 1} \subseteq bottom..top /\ top \in Int /\ bottom \in Int
  BY <1>2
<1> HIDE DEF top, bottom
<1>5. Window!Max({half, 1}) \in {half, 1} /\ \A n \in {half, 1} : Window!Max({half, 1}) >= n
  <2>1. {half, 1} # {}
    OBVIOUS
  <2> QED
    BY <1>4, <2>1, MaxProperties, Zenon
<1>6. Window!Max({half, 1}) >= 1 /\ Window!Max({half, 1}) \in Int
  BY <1>2, <1>5
<1> QED
  BY <1>3, <1>6

\* Where a window was read to its end, what lies an overlap behind the new
\* watermark lies an overlap behind the old one, or has been ingested and was
\* in the window: it was read.
LEMMA AdvancedBehind ==
  ASSUME WindowTypes, WindowInv, fetch.pc = "persisted", ~fetch.truncated,
         NEW t \in Window!TradeIds, trade[t].at < Window!Advanced(fetch) - Overlap
  PROVE  t \in persisted
<1> DEFINE edge == IF fetch.before # Window!NoTime THEN fetch.before ELSE fetch.planned
           mark1 == Window!Advanced(fetch)
<1>1. /\ mark.at \in Int /\ now \in Int /\ fetch.watermark = mark.at
      /\ fetch.after = mark.at - Overlap /\ fetch.after \in Int
      /\ fetch.before \in Int /\ fetch.planned \in Int /\ fetch.planned <= now
      /\ fetch.before = Window!NoTime \/ fetch.before <= fetch.planned
      /\ fetch.read = Window!Window(fetch) /\ fetch.read \subseteq persisted
      /\ fetch.read \subseteq Window!TradeIds
  BY WindowConstants DEF WindowTypes, WindowInv, Bounded, Fetches
<1>2. /\ trade[t].at \in Int /\ trade[t].shown \in Int
      /\ trade[t].shown <= trade[t].at + Overlap
  BY WindowConstants DEF WindowTypes, TradeTimes, Window!Times
<1>3. CASE trade[t].at < mark.at - Overlap
  BY <1>3 DEF WindowInv, Behind
<1>4. CASE trade[t].at >= mark.at - Overlap
  <2>1. /\ mark1 \in Int /\ mark1 <= now
        /\ \/ mark1 \in {edge, mark.at}
           \/ \E u \in fetch.read : mark1 = trade[u].at
    BY <1>1, AdvancedBounds
  <2>2. mark1 # mark.at
    BY <1>1, <1>2, <1>4, WindowConstants
  <2>3. \A u \in fetch.read : fetch.before = Window!NoTime \/ trade[u].at <= fetch.before
    BY <1>1 DEF Window!Window
  <2>4. fetch.before = Window!NoTime \/ mark1 <= fetch.before
    <3>1. CASE mark1 = edge
      BY <1>1, <3>1
    <3>2. CASE \E u \in fetch.read : mark1 = trade[u].at
      BY <2>3, <3>2
    <3> QED
      BY <2>1, <2>2, <3>1, <3>2
  <2> HIDE DEF mark1, edge
  <2>5. trade[t].at < mark1 - Overlap
    BY DEF mark1
  <2>6. trade[t].shown <= now
    BY <1>1, <1>2, <2>1, <2>5, WindowConstants
  <2>7. fetch.before = Window!NoTime \/ trade[t].at <= fetch.before
    BY <1>1, <1>2, <2>1, <2>4, <2>5, WindowConstants
  <2>8. t \in Window!Window(fetch)
    BY <1>1, <1>4, <2>6, <2>7 DEF Window!Window, Window!Shown
  <2> QED
    BY <1>1, <2>8
<1> QED
  BY <1>1, <1>2, <1>3, <1>4, WindowConstants

LEMMA CommitKeeps ==
  ASSUME WindowTypes, Window!Commit
  PROVE  WindowTypes' /\ (WindowInv => WindowInv')
<1>1. UNCHANGED <<now, trade, persisted>> /\ fetch.pc = "persisted" /\ fetch' = Window!NoFetch
  BY DEF Window!Commit
<1>2. fetch' \in Fetches /\ fetch'.pc = "idle" /\ fetch'.read = {}
  BY <1>1 DEF Fetches, Window!NoFetch, Window!NoTime
<1>3. /\ now \in 0..MaxNow /\ now \in Int /\ now <= now /\ exhausted \in BOOLEAN
      /\ mark \in [at : Int, slice : Nat] /\ mark.at \in Int
      /\ mark.at = Window!NoTime \/ mark.at >= -2 * Overlap
      /\ mark.at <= now
  BY WindowConstants DEF WindowTypes
<1>4. CASE exhausted' = TRUE /\ UNCHANGED mark
  <2>1. /\ UNCHANGED <<trade, persisted, mark>> /\ exhausted' \in BOOLEAN
        /\ now' \in 0..MaxNow /\ now <= now' /\ fetch'.read \subseteq Window!Shown
        /\ fetch'.pc # "idle" => Bounded(fetch)'
    BY <1>1, <1>2, <1>3, <1>4
  <2>3. WindowTypes'
    BY <1>2, <2>1, WindowFrame
  <2>2. WindowInv => WindowInv'
    BY <1>1, <1>2, <1>4 DEF WindowInv, Behind, Window!TradeIds
  <2> QED
    BY <2>2, <2>3
<1>5. ASSUME UNCHANGED exhausted, mark' \in [at : Int, slice : Nat],
             mark'.at = Window!NoTime \/ mark'.at >= -2 * Overlap, mark'.at <= now,
             WindowInv => mark'.at >= 0,
             WindowInv => \A t \in Window!TradeIds :
                             trade[t].at < mark'.at - Overlap => t \in persisted
      PROVE  WindowTypes' /\ (WindowInv => WindowInv')
  <2>1. WindowTypes'
    BY <1>1, <1>2, <1>3, <1>5
       DEF WindowTypes, Window!Matched, Window!Shown, Window!TradeIds
  <2>2. WindowInv => WindowInv'
    BY <1>1, <1>2, <1>5 DEF WindowInv, Behind, Window!TradeIds
  <2> QED
    BY <2>1, <2>2
<1>6. CASE /\ fetch.truncated /\ UNCHANGED exhausted
           /\ mark' = [mark EXCEPT !.slice = Window!Narrower(fetch)]
  <2>0. Window!Narrower(fetch) \in Nat
    BY <1>1, NarrowerBounds
  <2>1. mark' \in [at : Int, slice : Nat] /\ mark'.at = mark.at
    BY <1>3, <1>6, <2>0
  <2> QED
    BY <1>3, <1>5, <1>6, <2>1 DEF WindowInv, Behind
<1>7. CASE /\ ~fetch.truncated /\ UNCHANGED exhausted
           /\ mark' = [at |-> Window!Advanced(fetch), slice |-> 0]
  <2>1. /\ Window!Advanced(fetch) \in Int /\ Window!Advanced(fetch) <= now
        /\ Window!Advanced(fetch) >= fetch.watermark
        /\ fetch.before = Window!NoTime => Window!Advanced(fetch) >= fetch.planned
    BY <1>1, AdvancedBounds
  <2>2. mark' \in [at : Int, slice : Nat] /\ mark'.at = Window!Advanced(fetch)
    BY <1>7, <2>1
  <2>3. mark'.at >= -2 * Overlap
    <3>1. Bounded(fetch) /\ fetch \in Fetches
      BY <1>1 DEF WindowTypes
    <3>2. fetch.watermark \in Int /\ fetch.planned \in Int
      BY <3>1 DEF Fetches
    <3>3. \/ fetch.watermark >= -2 * Overlap
          \/ fetch.before = Window!NoTime /\ fetch.planned >= 0
      BY <3>1 DEF Bounded
    <3> QED
      BY <2>1, <2>2, <3>2, <3>3, WindowConstants
  <2>4. WindowInv => mark'.at >= 0
    <3>1. WindowInv => fetch.watermark = mark.at /\ mark.at >= 0
      BY <1>1 DEF WindowInv
    <3>2. fetch.watermark \in Int
      BY DEF WindowTypes, Fetches
    <3> QED
      BY <1>3, <2>1, <2>2, <3>1, <3>2
  <2>5. WindowInv => \A t \in Window!TradeIds :
                        trade[t].at < mark'.at - Overlap => t \in persisted
    BY <1>1, <1>7, <2>2, AdvancedBehind
  <2> QED
    BY <1>5, <1>7, <2>1, <2>2, <2>3, <2>4, <2>5
<1>8. \/ exhausted' = TRUE /\ UNCHANGED mark
      \/ mark' = Window!NextMark(fetch) /\ UNCHANGED exhausted
  BY DEF Window!Commit
<1> QED
  BY <1>4, <1>6, <1>7, <1>8 DEF Window!NextMark

LEMMA WindowNext ==
  ASSUME WindowTypes, [Window!Next]_windowVars
  PROVE  WindowTypes' /\ (WindowInv => WindowInv')
<1>1. CASE UNCHANGED windowVars
  <2>1. UNCHANGED <<now, trade, persisted, mark, fetch, exhausted>>
    BY <1>1 DEF windowVars
  <2>2. WindowTypes'
    BY <2>1 DEF WindowTypes, Bounded, Window!Matched, Window!Shown, Window!TradeIds
  <2>3. Window!Window(fetch) = Window!Window(fetch)'
    BY <2>1 DEF Window!Window, Window!Shown, Window!TradeIds
  <2>4. WindowInv => WindowInv'
    BY <2>1, <2>3 DEF WindowInv, Behind, Window!TradeIds
  <2> QED
    BY <2>2, <2>4
<1> QED
  BY <1>1, TickKeeps, PlanKeeps, FetchKeeps, PersistKeeps, CommitKeeps, RunDiesKeeps
     DEF Window!Next

(* Whatever the lateness of trades, the caps, the slices, the runs that    *)
(* fail and the order in which all of it happens: where a watermark is     *)
(* stored, a trade an overlap behind it is persisted.                      *)
THEOREM NothingIsSkipped ==
  ASSUME Start = "row" PROVE Spec => []NothingBehindTheWatermark
<1>1. Init => WindowTypes /\ WindowInv
  BY WindowInit DEF Init
<1>2. WindowTypes /\ WindowInv /\ [Next]_feedVars => (WindowTypes /\ WindowInv)'
  BY WindowSteps, WindowNext
<1>3. WindowTypes /\ WindowInv => NothingBehindTheWatermark
  BY DEF WindowInv, Behind, NothingBehindTheWatermark, Window!NothingBehindTheWatermark,
         Window!Matched
<1> QED
  BY <1>1, <1>2, <1>3, PTL DEF Spec, feedVars

-----------------------------------------------------------------------------
(* The market stream *)

LEMMA StreamConstants ==
    /\ Prices \subseteq Nat \ {0} /\ Prices # {} /\ IsFiniteSet(Prices) /\ MaxTime \in Nat \ {0, 1}
    /\ QueueCap \in Nat \ {0} /\ MaxCuts \in Nat /\ MaxExtra \in Nat
    /\ StreamWorlds \subseteq SUBSET Stream!WorldKinds
    /\ Assets # {} /\ Assets \subseteq Nat /\ IsFiniteSet(Assets)
<1>1. IsFiniteSet(Prices) <=> Stream!IsFiniteSet(Prices)
  BY DEF IsFiniteSet, Stream!IsFiniteSet
<1>2. IsFiniteSet(Assets) <=> Stream!IsFiniteSet(Assets)
  BY DEF IsFiniteSet, Stream!IsFiniteSet
<1> QED
  BY <1>1, <1>2, FeedsAssumption DEF Stream!BookAssumption, Stream!StreamAssumption

\* A finite set of naturals has a greatest element: the one the fewest are
\* greater than.
LEMMA GreatestOfFinite ==
  ASSUME NEW S, S \subseteq Nat, S # {}, IsFiniteSet(S)
  PROVE  \E m \in S : \A n \in S : n <= m
<1> DEFINE above(x) == {y \in S : y > x}
           sizes == {Cardinality(above(x)) : x \in S}
<1>1. \A x \in S : IsFiniteSet(above(x)) /\ Cardinality(above(x)) \in Nat
  <2>1. \A x \in S : above(x) \subseteq S
    OBVIOUS
  <2>2. \A x \in S : IsFiniteSet(above(x))
    BY <2>1, FS_Subset
  <2> QED
    BY <2>2, FS_CardinalityType
<1>2. sizes \subseteq Nat /\ sizes # {}
  BY <1>1
<1>3. PICK c \in sizes : \A d \in sizes : c <= d
  <2> HIDE DEF sizes
  <2> QED
    BY <1>2, LeastNatural
<1>4. PICK m \in S : c = Cardinality(above(m))
  BY <1>3
<1>5. ASSUME NEW n \in S, ~(n <= m) PROVE FALSE
  <2>1. n > m /\ m \in Nat /\ n \in Nat
    BY <1>5
  <2>2. above(n) \subseteq above(m) /\ n \in above(m) /\ n \notin above(n)
    <3>1. ASSUME NEW y \in S, y > n PROVE y > m
      <4>1. y \in Nat
        OBVIOUS
      <4> QED
        BY <2>1, <3>1, <4>1
    <3>2. ~(n > n)
      BY <2>1
    <3> QED
      BY <2>1, <3>1, <3>2
  <2>3. /\ Cardinality(above(n)) <= Cardinality(above(m))
        /\ Cardinality(above(n)) = Cardinality(above(m)) => above(n) = above(m)
    <3>1. IsFiniteSet(above(m))
      BY <1>1
    <3> HIDE DEF above
    <3> QED
      BY <2>2, <3>1, FS_Subset
  <2>4. Cardinality(above(n)) \in sizes
    OBVIOUS
  <2>5. c <= Cardinality(above(n)) /\ c \in Nat /\ Cardinality(above(n)) \in Nat
    BY <1>1, <1>2, <1>3, <2>4
  <2>6. above(n) # above(m)
    BY <2>2
  <2> HIDE DEF above
  <2> QED
    BY <1>4, <2>3, <2>5, <2>6
<1> QED
  BY <1>4, <1>5

LEMMA TopOfLevels ==
  ASSUME NEW levels \in SUBSET Prices
  PROVE  /\ Stream!TopOf(levels) \in levels \cup {0} /\ Stream!TopOf(levels) \in Stream!Tops
         /\ \A p \in levels : p <= Stream!TopOf(levels)
<1> DEFINE S == levels \cup {0}
<1>1. S \subseteq Nat /\ S # {} /\ IsFiniteSet(S)
  <2>1. IsFiniteSet(levels)
    BY StreamConstants, FS_Subset
  <2>2. IsFiniteSet(S)
    BY <2>1, FS_AddElement
  <2> QED
    BY <2>2, StreamConstants
<1> HIDE DEF S
<1>2. PICK m \in S : \A n \in S : n <= m
  BY <1>1, GreatestOfFinite
<1>3. Stream!Max(S) = CHOOSE x \in S : \A y \in S : x >= y
  BY DEF Stream!Max
<1>4. \A n \in S : m >= n
  BY <1>1, <1>2
<1>5. Stream!Max(S) \in S /\ \A y \in S : Stream!Max(S) >= y
  BY <1>2, <1>3, <1>4
<1>6. Stream!Max(S) \in S /\ \A y \in S : y <= Stream!Max(S)
  BY <1>1, <1>5
<1> QED
  BY <1>6 DEF S, Stream!TopOf, Stream!Tops

\* Messages as the exchange sends them.
Sound(message) ==
    /\ message \in Stream!Message
    /\ message.event_type = "price_change" => message.price \in Prices
    /\ message.event_type = "best_bid_ask" => message.best \in Stream!Tops

BookTypes(book1) ==
    /\ book1.ready \in BOOLEAN /\ book1.reason \in Stream!Reasons /\ book1.snapshot_loaded \in BOOLEAN
    /\ book1.levels \in SUBSET Prices /\ book1.last \in 0..MaxTime
    /\ book1.advertised \in Stream!Tops /\ book1.advertised_at \in 0..MaxTime
    /\ book1.alignment_pending \in BOOLEAN

LEMMA BookTypesOK == \A book1 \in Stream!OrderBookState : BookTypes(book1)
  BY DEF BookTypes, Stream!OrderBookState

LEMMA SoundFields ==
  ASSUME NEW message, Sound(message)
  PROVE  /\ message.event_type \in {"book", "price_change", "best_bid_ask"}
         /\ message.at \in 1..MaxTime /\ message.levels \in SUBSET Prices
         /\ message.rests \in BOOLEAN /\ message.malformed \in BOOLEAN
         /\ message.best \in Stream!Tops \cup {Stream!NotAdvertised}
         /\ message.event_type = "price_change" => message.price \in Prices
         /\ message.event_type = "best_bid_ask" => message.best \in Stream!Tops
         /\ message.nth \in Int /\ message.truth \in SUBSET Prices
  BY DEF Sound, Stream!Message

LEMMA UnreadyType ==
  ASSUME NEW book1 \in Stream!OrderBookState, NEW reason \in Stream!Reasons
  PROVE  Stream!Unready(book1, reason) \in Stream!OrderBookState
  BY DEF Stream!Unready, Stream!OrderBookState

LEMMA ReadyType ==
  ASSUME NEW book1 \in Stream!OrderBookState
  PROVE  Stream!Ready(book1) \in Stream!OrderBookState
  BY DEF Stream!Ready, Stream!OrderBookState, Stream!Reasons

LEMMA RememberType ==
  ASSUME NEW book1 \in Stream!OrderBookState, NEW message, Sound(message),
         message.best \in Stream!Tops
  PROVE  Stream!RememberAdvertised(book1, message) \in Stream!OrderBookState
<1>1. message.at \in 0..MaxTime
  BY SoundFields
<1>2. (message.best # Stream!TopOf(book1.levels)) \in BOOLEAN
  OBVIOUS
<1> DEFINE pending1 == message.best # Stream!TopOf(book1.levels)
<1> HIDE DEF pending1
<1>3. [book1 EXCEPT !.advertised = message.best, !.advertised_at = message.at,
                    !.alignment_pending = pending1] \in Stream!OrderBookState
  BY <1>1, <1>2 DEF Stream!OrderBookState, pending1
<1> QED
  BY <1>3 DEF Stream!RememberAdvertised, pending1

LEMMA ResolveType ==
  ASSUME NEW book1 \in Stream!OrderBookState, NEW message, Sound(message)
  PROVE  Stream!ResolveAfterDepth(book1, message) \in Stream!OrderBookState
<1> DEFINE asked == IF message.event_type = "price_change" /\ message.best # Stream!NotAdvertised
                    THEN Stream!RememberAdvertised(book1, message) ELSE book1
<1>1. asked \in Stream!OrderBookState
  BY SoundFields, RememberType
<1>2. [book1 EXCEPT !.alignment_pending = FALSE] \in Stream!OrderBookState
  BY DEF Stream!OrderBookState
<1>3. {"BEST_PRICE_MISMATCH", "BEST_PRICE_PENDING_DEPTH"} \subseteq Stream!Reasons
  BY DEF Stream!Reasons
<1>4. Stream!ResolveAfterDepth(book1, message) =
        IF book1.alignment_pending
        THEN IF Stream!TopOf(book1.levels) = book1.advertised
             THEN Stream!Ready([book1 EXCEPT !.alignment_pending = FALSE])
             ELSE Stream!Unready(book1, IF Stream!IsBarrier(book1, message)
                                        THEN "BEST_PRICE_MISMATCH" ELSE "BEST_PRICE_PENDING_DEPTH")
        ELSE IF asked.alignment_pending
             THEN Stream!Unready(asked, "BEST_PRICE_PENDING_DEPTH") ELSE Stream!Ready(asked)
  BY DEF Stream!ResolveAfterDepth
<1> HIDE DEF asked
<1>5. (IF Stream!IsBarrier(book1, message) THEN "BEST_PRICE_MISMATCH"
       ELSE "BEST_PRICE_PENDING_DEPTH") \in Stream!Reasons
  BY <1>3
<1> QED
  BY <1>1, <1>2, <1>3, <1>4, <1>5, ReadyType, UnreadyType

LEMMA DeltaType ==
  ASSUME NEW book1 \in Stream!OrderBookState, NEW message, Sound(message),
         message.event_type = "price_change"
  PROVE  Stream!ApplyDelta(book1, message) \in Stream!OrderBookState
<1> DEFINE taken == [book1 EXCEPT !.levels = Stream!ApplyLevel(@, message), !.last = message.at]
<1>1. /\ message.price \in Prices /\ message.at \in 0..MaxTime
      /\ {"MALFORMED_DELTA", "DELTA_BEFORE_SNAPSHOT"} \subseteq Stream!Reasons
  BY SoundFields DEF Stream!Reasons
<1>2. Stream!ApplyLevel(book1.levels, message) \in SUBSET Prices
  BY <1>1 DEF Stream!OrderBookState, Stream!ApplyLevel
<1>3. taken \in Stream!OrderBookState
  <2>1. taken = [book1 EXCEPT !.levels = Stream!ApplyLevel(book1.levels, message),
                              !.last = message.at]
    OBVIOUS
  <2> QED
    BY <1>1, <1>2, <2>1 DEF Stream!OrderBookState
<1>4. [book1 EXCEPT !.reason = "DELTA_BEFORE_SNAPSHOT"] \in Stream!OrderBookState
  BY <1>1 DEF Stream!OrderBookState
<1>5. Stream!Changed(book1, message) \in Stream!OrderBookState
  <2>1. CASE message.malformed
    BY <1>1, <2>1, UnreadyType DEF Stream!Changed
  <2>2. CASE ~message.malformed
    <3>1. Stream!Changed(book1, message) = Stream!ResolveAfterDepth(taken, message)
      BY <2>2 DEF Stream!Changed
    <3> HIDE DEF taken
    <3> QED
      BY <1>3, <3>1, ResolveType
  <2> QED
    BY <2>1, <2>2
<1> QED
  BY <1>4, <1>5 DEF Stream!ApplyDelta

LEMMA BestType ==
  ASSUME NEW book1 \in Stream!OrderBookState, NEW message, Sound(message),
         message.event_type = "best_bid_ask"
  PROVE  Stream!ApplyBest(book1, message) \in Stream!OrderBookState
<1>1. "BEST_PRICE_PENDING_DEPTH" \in Stream!Reasons
  BY DEF Stream!Reasons
<1>2. Stream!RememberAdvertised(book1, message) \in Stream!OrderBookState
  BY SoundFields, RememberType
<1> QED
  BY <1>1, <1>2, UnreadyType, ReadyType DEF Stream!ApplyBest

LEMMA SnapshotType ==
  ASSUME NEW book1 \in Stream!OrderBookState, NEW message, Sound(message)
  PROVE  /\ Stream!ApplyBook(book1, message) \in Stream!OrderBookState
         /\ [book1 EXCEPT !.levels = message.levels, !.snapshot_loaded = TRUE, !.ready = FALSE,
                          !.reason = "STALE_EXCHANGE_TIMESTAMP", !.last = message.at]
               \in Stream!OrderBookState
<1>1. /\ message.levels \in SUBSET Prices /\ message.at \in 0..MaxTime
      /\ "STALE_EXCHANGE_TIMESTAMP" \in Stream!Reasons
  BY SoundFields DEF Stream!Reasons
<1> DEFINE laid == [book1 EXCEPT !.levels = message.levels, !.snapshot_loaded = TRUE,
                                 !.last = message.at]
<1>2. laid \in Stream!OrderBookState
  BY <1>1 DEF Stream!OrderBookState
<1>3. Stream!ApplyBook(book1, message) = Stream!ResolveAfterDepth(laid, message)
  BY DEF Stream!ApplyBook
<1>4. [book1 EXCEPT !.levels = message.levels, !.snapshot_loaded = TRUE, !.ready = FALSE,
                    !.reason = "STALE_EXCHANGE_TIMESTAMP", !.last = message.at]
      = Stream!Unready(laid, "STALE_EXCHANGE_TIMESTAMP")
  BY DEF Stream!Unready, Stream!OrderBookState
<1> HIDE DEF laid
<1> QED
  BY <1>1, <1>2, <1>3, <1>4, ResolveType, UnreadyType

\* One message makes a book of a book.
LEMMA ApplyType ==
  ASSUME NEW book1 \in Stream!OrderBookState, NEW message, Sound(message), NEW verdict
  PROVE  Stream!Apply(book1, message, verdict) \in Stream!OrderBookState
<1>1. /\ message.event_type \in {"book", "price_change", "best_bid_ask"}
      /\ "STALE_EXCHANGE_TIMESTAMP" \in Stream!Reasons
  BY SoundFields DEF Stream!Reasons
<1>2. Stream!Applied(book1, message) \in Stream!OrderBookState
  BY <1>1, SnapshotType, DeltaType, BestType DEF Stream!Applied
<1>3. CASE message.event_type = "book"
  BY <1>2, <1>3, SnapshotType DEF Stream!Apply, Stream!ApplyStale
<1>4. CASE message.event_type = "best_bid_ask"
  BY <1>1, <1>2, <1>4, BestType, UnreadyType DEF Stream!Apply, Stream!ApplyStale
<1>5. CASE message.event_type = "price_change"
  <2>1. Stream!ApplyStaleDelta(book1, message) \in Stream!OrderBookState
    BY <1>1, <1>5, DeltaType, UnreadyType DEF Stream!ApplyStaleDelta
  <2> QED
    BY <1>2, <1>5, <2>1 DEF Stream!Apply, Stream!ApplyStale
<1> QED
  BY <1>1, <1>3, <1>4, <1>5

-----------------------------------------------------------------------------
(* The variables of the stream and its control *)

Deltas == [at : 1..MaxTime, nth : Int, price : Prices, rests : BOOLEAN, best : Stream!Tops,
           truth : SUBSET Prices]
Venues == [levels : SUBSET Prices, clock : 1..MaxTime, nth : Int, owed : Seq(Deltas),
           snapshot : BOOLEAN, listens : BOOLEAN]
Connections == [at : {"down", "dialing", "up"}, reading : BOOLEAN, resync : BOOLEAN,
                gate : BOOLEAN, subscribed : SUBSET Assets]
Loops == [pc : {"sleep", "refresh", "sent", "wait", "drop"}, add : SUBSET Assets,
          wanted : SUBSET Assets]
MarketFrames == [kind : {"market"}, asset : Assets, message : {m \in Stream!Message : Sound(m)}]
ResolutionFrame == [kind |-> Stream!Resolved]
StreamFrames == MarketFrames \cup {ResolutionFrame}
Heard == [nth : Int, truth : SUBSET Prices]

\* What the exchange and the subscriptions are.
VenueTypes ==
    /\ exchange \in [Assets -> Venues] /\ wanted \in SUBSET Assets /\ conn \in Connections
    /\ loop \in Loops /\ world \in StreamWorlds

\* What the client keeps of the books.
ViewTypes ==
    /\ books \in [Assets -> Stream!OrderBookState] /\ heard \in [Assets -> Heard]
    /\ advertised \in [Assets -> Stream!Tops \cup {Stream!NotAdvertised}]

\* Only a connection that is up is read, and it ends with an empty queue.
QueueTypes ==
    /\ queue \in Seq(StreamFrames) /\ Len(queue) <= QueueCap
    /\ conn.reading => conn.at = "up"
    /\ conn.at # "up" => queue = <<>>

IsResolution(frame) == frame.kind = Stream!Resolved
Waits(q) == \E i \in 1..Len(q) : IsResolution(q[i])
Single(q) == \A i, j \in 1..Len(q) : IsResolution(q[i]) /\ IsResolution(q[j]) => i = j

\* The resolution is queued once, and stays until it is stored.
ResolutionInv ==
    /\ resolution \in {"open", "received", "stored"}
    /\ Single(queue) /\ (resolution # "received" => ~Waits(queue))
    /\ "raised" \notin world /\ resolution = "received" => Waits(queue)

StreamInv == VenueTypes /\ ViewTypes /\ QueueTypes /\ ResolutionInv

LEMMA FrameKinds ==
  ASSUME NEW frame \in StreamFrames
  PROVE  /\ IsResolution(frame) <=> frame = ResolutionFrame
         /\ frame.kind = "market" <=> frame \in MarketFrames
         /\ frame.kind = "market" <=> ~IsResolution(frame)
         /\ frame \in MarketFrames => frame.asset \in Assets /\ Sound(frame.message)
  BY DEF StreamFrames, MarketFrames, ResolutionFrame, IsResolution, Stream!Resolved

LEMMA ClearedType == Stream!Cleared \in Stream!OrderBookState
<1>1. 0 \in 0..MaxTime
  BY StreamConstants
<1> QED
  BY <1>1 DEF Stream!Cleared, Stream!OrderBookState, Stream!Reasons, Stream!Tops

LEMMA NotReadyTypes == Stream!MarkNotReady => ViewTypes'
<1> SUFFICES ASSUME Stream!MarkNotReady PROVE ViewTypes'
  OBVIOUS
<1>1. Stream!Unheard \in Heard
  BY DEF Stream!Unheard, Heard
<1> QED
  BY <1>1, ClearedType DEF Stream!MarkNotReady, ViewTypes

\* A full queue keeps its resolution, and nothing else.
LEMMA SaturatedEffect ==
  ASSUME queue \in Seq(StreamFrames), NEW frame \in StreamFrames,
         Single(Append(queue, frame))
  PROVE  /\ Stream!Saturated(frame) \in Seq(StreamFrames)
         /\ Len(Stream!Saturated(frame)) <= 1
         /\ Single(Stream!Saturated(frame))
         /\ Waits(Stream!Saturated(frame)) <=> Waits(Append(queue, frame))
<1> DEFINE frames1 == Append(queue, frame)
           stay == {n \in DOMAIN frames1 : frames1[n].kind = Stream!Resolved}
           kept == [n \in 1..Cardinality(stay) |-> ResolutionFrame]
<1>1. Stream!Saturated(frame) = kept
  <2>1. Stream!Cardinality(stay) = Cardinality(stay)
    BY DEF Stream!Cardinality, Cardinality
  <2> QED
    BY <2>1 DEF Stream!Saturated, ResolutionFrame
<1>2. frames1 \in Seq(StreamFrames) /\ DOMAIN frames1 = 1..Len(frames1) /\ Len(frames1) \in Nat
  BY AppendProperties, LenProperties
<1> HIDE DEF frames1
<1>3. ASSUME NEW c \in Nat, Cardinality(stay) = c
      PROVE  /\ kept \in Seq(StreamFrames) /\ Len(kept) = c
             /\ \A i \in 1..c : kept[i] = ResolutionFrame
  <2>1. kept = [n \in 1..c |-> ResolutionFrame]
    BY <1>3
  <2>2. kept \in [1..c -> StreamFrames]
    BY <2>1 DEF StreamFrames
  <2>3. \A i \in 1..c : kept[i] = ResolutionFrame
    BY <2>1
  <2> HIDE DEF kept
  <2>4. kept \in Seq(StreamFrames) /\ Len(kept) = c
    BY <2>2
  <2> QED
    BY <2>3, <2>4
<1> HIDE DEF kept
<1>4. IsResolution(ResolutionFrame)
  BY DEF IsResolution, ResolutionFrame
<1>5. CASE stay = {}
  <2>1. Cardinality(stay) = 0
    BY <1>5, FS_EmptySet
  <2>2. kept \in Seq(StreamFrames) /\ Len(kept) = 0
    BY <1>3, <2>1
  <2>3. ~Waits(frames1)
    BY <1>2, <1>5 DEF Waits, IsResolution
  <2>4. Single(kept) /\ ~Waits(kept)
    BY <2>2 DEF Waits, Single
  <2> QED
    BY <1>1, <2>2, <2>3, <2>4 DEF frames1
<1>6. CASE stay # {}
  <2>1. PICK n \in stay : TRUE
    BY <1>6
  <2>2. stay = {n}
    BY <1>2, <2>1 DEF Single, IsResolution, frames1
  <2>3. Cardinality(stay) = 1
    BY <2>2, FS_Singleton
  <2>4. kept \in Seq(StreamFrames) /\ Len(kept) = 1 /\ \A i \in 1..1 : kept[i] = ResolutionFrame
    BY <1>3, <2>3
  <2>5. 1 \in 1..1
    OBVIOUS
  <2>6. Waits(kept)
    BY <1>4, <2>4, <2>5 DEF Waits
  <2>7. Waits(frames1)
    BY <1>2, <2>1 DEF Waits, IsResolution
  <2>8. Single(kept)
    BY <2>4 DEF Single
  <2> QED
    BY <1>1, <2>4, <2>6, <2>7, <2>8 DEF frames1
<1> QED
  BY <1>5, <1>6

LEMMA AppendFrame ==
  ASSUME queue \in Seq(StreamFrames), Single(queue), NEW frame \in StreamFrames,
         IsResolution(frame) => ~Waits(queue)
  PROVE  /\ Append(queue, frame) \in Seq(StreamFrames)
         /\ Len(Append(queue, frame)) = Len(queue) + 1 /\ Len(queue) \in Nat
         /\ Single(Append(queue, frame))
         /\ Waits(Append(queue, frame)) <=> Waits(queue) \/ IsResolution(frame)
<1> DEFINE longer == Append(queue, frame)
<1>1. /\ longer \in Seq(StreamFrames) /\ Len(longer) = Len(queue) + 1 /\ Len(queue) \in Nat
      /\ \A i \in 1..Len(queue) : longer[i] = queue[i]
      /\ longer[Len(queue) + 1] = frame
  BY AppendProperties, LenProperties
<1> HIDE DEF longer
<1>2. ASSUME NEW i \in 1..Len(longer)
      PROVE  \/ i \in 1..Len(queue) /\ longer[i] = queue[i]
             \/ i = Len(queue) + 1 /\ longer[i] = frame
  BY <1>1
<1>3. Waits(queue) \/ IsResolution(frame) => Waits(longer)
  <2>1. ASSUME NEW i \in 1..Len(queue), IsResolution(queue[i]) PROVE Waits(longer)
    <3>1. i \in 1..Len(longer) /\ longer[i] = queue[i]
      BY <1>1
    <3> QED
      BY <2>1, <3>1 DEF Waits
  <2>2. ASSUME IsResolution(frame) PROVE Waits(longer)
    <3>1. Len(queue) + 1 \in 1..Len(longer)
      BY <1>1
    <3> QED
      BY <1>1, <2>2, <3>1 DEF Waits
  <2> QED
    BY <2>1, <2>2 DEF Waits
<1>4. Waits(longer) => Waits(queue) \/ IsResolution(frame)
  BY <1>2 DEF Waits
<1>5. Single(longer)
  <2> SUFFICES ASSUME NEW i \in 1..Len(longer), NEW j \in 1..Len(longer),
                      IsResolution(longer[i]), IsResolution(longer[j])
               PROVE  i = j
    BY DEF Single
  <2>1. CASE IsResolution(frame)
    BY <1>2, <2>1 DEF Waits
  <2>2. CASE ~IsResolution(frame)
    BY <1>2, <2>2 DEF Single
  <2> QED
    BY <2>1, <2>2
<1> QED
  BY <1>1, <1>3, <1>4, <1>5 DEF longer

\* A frame that is queued, whether there is room or not.
LEMMA EnqueueEffect ==
  ASSUME StreamInv, NEW frame \in StreamFrames, Stream!Enqueue(frame),
         IsResolution(frame) => resolution # "received"
  PROVE  /\ conn' \in Connections /\ conn'.at = "up" /\ ViewTypes'
         /\ conn'.subscribed = conn.subscribed
         /\ QueueTypes'
         /\ Single(queue') /\ (Waits(queue') <=> Waits(queue) \/ IsResolution(frame))
         /\ UNCHANGED <<wanted, loop, world>>
<1>1. /\ queue \in Seq(StreamFrames) /\ Len(queue) <= QueueCap /\ Single(queue)
      /\ conn \in Connections /\ conn.reading /\ conn.at = "up"
      /\ IsResolution(frame) => ~Waits(queue)
      /\ QueueCap \in Nat \ {0} /\ UNCHANGED <<wanted, loop, world>>
  BY StreamConstants DEF StreamInv, VenueTypes, QueueTypes, ResolutionInv, Stream!Enqueue
<1>2. /\ Append(queue, frame) \in Seq(StreamFrames)
      /\ Len(Append(queue, frame)) = Len(queue) + 1 /\ Len(queue) \in Nat
      /\ Single(Append(queue, frame))
      /\ Waits(Append(queue, frame)) <=> Waits(queue) \/ IsResolution(frame)
  BY <1>1, AppendFrame
<1>3. CASE Len(queue) < QueueCap
  <2>1. queue' = Append(queue, frame) /\ UNCHANGED <<conn, books, heard, advertised>>
    BY <1>3 DEF Stream!Enqueue, Stream!data
  <2>2. ViewTypes'
    BY <2>1 DEF StreamInv, ViewTypes
  <2> QED
    BY <1>1, <1>2, <1>3, <2>1, <2>2 DEF QueueTypes
<1>4. CASE ~(Len(queue) < QueueCap)
  <2>1. /\ queue' = Stream!Saturated(frame) /\ Stream!MarkNotReady
        /\ conn' = [conn EXCEPT !.resync = TRUE, !.reading = FALSE]
    BY <1>4 DEF Stream!Enqueue
  <2>2. /\ queue' \in Seq(StreamFrames) /\ Len(queue') <= 1 /\ Single(queue')
        /\ Waits(queue') <=> Waits(Append(queue, frame))
    BY <1>1, <1>2, <2>1, SaturatedEffect
  <2>3. conn' \in Connections /\ conn'.at = "up" /\ conn'.subscribed = conn.subscribed
    BY <1>1, <2>1 DEF Connections
  <2>4. Len(queue') <= QueueCap
    BY <1>1, <2>2, LenProperties
  <2> QED
    BY <1>1, <1>2, <2>1, <2>2, <2>3, <2>4, NotReadyTypes DEF QueueTypes
<1> QED
  BY <1>3, <1>4

\* What holds of the queue and the views holds when neither changes.
LEMMA SideStep ==
  ASSUME StreamInv, UNCHANGED <<queue, resolution, world>>,
         exchange' \in [Assets -> Venues], wanted' \in SUBSET Assets, conn' \in Connections,
         loop' \in Loops, conn'.reading => conn'.at = "up", conn'.at # "up" => conn.at # "up",
         ViewTypes'
  PROVE  StreamInv'
  BY DEF StreamInv, VenueTypes, QueueTypes, ResolutionInv, Waits, Single

LEMMA SameViews ==
  ASSUME ViewTypes, UNCHANGED <<books, heard, advertised>>
  PROVE  ViewTypes'
  BY DEF ViewTypes

\* A venue replaced by one of its kind.
LEMMA VenueStep ==
  ASSUME exchange \in [Assets -> Venues], NEW a \in Assets, NEW v \in Venues
  PROVE  [exchange EXCEPT ![a] = v] \in [Assets -> Venues]
  OBVIOUS

LEMMA VenueFields ==
  ASSUME NEW v \in Venues
  PROVE  /\ v.levels \in SUBSET Prices /\ v.clock \in 1..MaxTime /\ v.nth \in Int
         /\ v.owed \in Seq(Deltas) /\ v.snapshot \in BOOLEAN /\ v.listens \in BOOLEAN
         /\ \A s \in BOOLEAN : [v EXCEPT !.snapshot = s] \in Venues
         /\ \A o \in Seq(Deltas) : [v EXCEPT !.owed = o] \in Venues
         /\ \A l \in BOOLEAN :
               [v EXCEPT !.listens = l, !.snapshot = FALSE, !.owed = <<>>] \in Venues
<1>1. <<>> \in Seq(Deltas)
  BY EmptySeq
<1>2. ASSUME NEW l \in BOOLEAN
      PROVE  [v EXCEPT !.listens = l, !.snapshot = FALSE, !.owed = <<>>] \in Venues
  BY <1>1 DEF Venues
<1> QED
  BY <1>2 DEF Venues

\* The messages the exchange makes of a venue.
LEMMA SnapshotSound ==
  ASSUME NEW v \in Venues
  PROVE  Sound(Stream!SnapshotOf(v))
<1>1. v.levels \in SUBSET Prices /\ v.clock \in 1..MaxTime /\ v.nth \in Int
  BY VenueFields
<1> QED
  BY <1>1 DEF Stream!SnapshotOf, Sound, Stream!Message, Stream!Tops, Stream!NotAdvertised

LEMMA DeltaSound ==
  ASSUME NEW c \in Deltas, NEW best \in {c.best, Stream!NotAdvertised}, NEW bad \in BOOLEAN
  PROVE  Sound(Stream!DeltaOf(c, best, bad))
<1>1. /\ c.at \in 1..MaxTime /\ c.nth \in Int /\ c.price \in Prices /\ c.rests \in BOOLEAN
      /\ best \in Stream!Tops \cup {Stream!NotAdvertised} /\ c.truth \in SUBSET Prices
  BY DEF Deltas
<1> QED
  BY <1>1 DEF Sound, Stream!Message, Stream!Tops, Stream!DeltaOf

LEMMA BestSound ==
  ASSUME NEW v \in Venues
  PROVE  Sound(Stream!BestOf(v))
<1>1. Stream!TopOf(v.levels) \in Stream!Tops /\ v.clock \in 1..MaxTime
  BY VenueFields, TopOfLevels
<1> QED
  BY <1>1 DEF Sound, Stream!Message, Stream!Tops, Stream!BestOf

LEMMA MarketFrame ==
  ASSUME NEW a \in Assets, NEW message, Sound(message)
  PROVE  Stream!Frame(a, message) \in StreamFrames /\ ~IsResolution(Stream!Frame(a, message))
<1>1. Stream!Frame(a, message) \in MarketFrames
  BY DEF Stream!Frame, MarketFrames, Sound
<1>2. ~IsResolution(Stream!Frame(a, message))
  BY DEF Stream!Frame, IsResolution, Stream!Resolved
<1> QED
  BY <1>1, <1>2 DEF StreamFrames

\* A market message is queued and the exchange moves on.
LEMMA MarketSend ==
  ASSUME StreamInv, NEW a \in Assets, NEW message, Sound(message),
         Stream!Enqueue(Stream!Frame(a, message)), exchange' \in [Assets -> Venues],
         resolution' = resolution
  PROVE  StreamInv'
<1>1. /\ conn' \in Connections /\ ViewTypes' /\ QueueTypes' /\ Single(queue')
      /\ Waits(queue') <=> Waits(queue)
      /\ UNCHANGED <<wanted, loop, world>>
  BY MarketFrame, EnqueueEffect
<1>2. VenueTypes'
  BY <1>1 DEF StreamInv, VenueTypes
<1>3. ResolutionInv'
  BY <1>1 DEF StreamInv, ResolutionInv, Waits, Single
<1> QED
  BY <1>1, <1>2, <1>3 DEF StreamInv

LEMMA SendKeeps ==
  ASSUME StreamInv, NEW a \in Assets,
         \/ Stream!SendBook(a) \/ Stream!SendBookAgain(a) \/ Stream!SendDelta(a)
         \/ Stream!SendBest(a)
  PROVE  StreamInv'
<1>1. exchange \in [Assets -> Venues] /\ exchange[a] \in Venues
  BY DEF StreamInv, VenueTypes
<1>2. CASE Stream!SendBook(a)
  <2>1. /\ Stream!Enqueue(Stream!Frame(a, Stream!SnapshotOf(exchange[a])))
        /\ exchange' = [exchange EXCEPT ![a] = [exchange[a] EXCEPT !.snapshot = TRUE]]
        /\ resolution' = resolution
    BY <1>2 DEF Stream!SendBook
  <2>2. exchange' \in [Assets -> Venues]
    BY <1>1, <2>1, VenueFields, VenueStep
  <2> QED
    BY <1>1, <2>1, <2>2, SnapshotSound, MarketSend
<1>3. CASE Stream!SendBookAgain(a)
  <2>1. /\ Stream!Enqueue(Stream!Frame(a, Stream!SnapshotOf(exchange[a])))
        /\ exchange' = exchange /\ resolution' = resolution
    BY <1>3 DEF Stream!SendBookAgain
  <2> QED
    BY <1>1, <2>1, SnapshotSound, MarketSend
<1>4. CASE Stream!SendDelta(a)
  <2> DEFINE c == Head(exchange[a].owed)
  <2>0. exchange[a].owed \in Seq(Deltas) /\ exchange[a].owed # <<>>
    BY <1>1, <1>4, VenueFields DEF Stream!SendDelta
  <2>1. c \in Deltas /\ Tail(exchange[a].owed) \in Seq(Deltas)
    BY <2>0, HeadTailProperties
  <2>2. PICK best \in {c.best, Stream!NotAdvertised}, bad \in {FALSE, "malformed" \in world} :
          Stream!Enqueue(Stream!Frame(a, Stream!DeltaOf(c, best, bad)))
    BY <1>4 DEF Stream!SendDelta
  <2>3. /\ exchange' = [exchange EXCEPT ![a] = [exchange[a] EXCEPT !.owed = Tail(exchange[a].owed)]]
        /\ resolution' = resolution
    BY <1>4 DEF Stream!SendDelta
  <2>4. exchange' \in [Assets -> Venues]
    BY <1>1, <2>1, <2>3, VenueFields, VenueStep
  <2>5. bad \in BOOLEAN
    <3>1. ("malformed" \in world) \in BOOLEAN
      OBVIOUS
    <3> QED
      BY <3>1
  <2> HIDE DEF c
  <2> QED
    BY <2>1, <2>2, <2>3, <2>4, <2>5, DeltaSound, MarketSend
<1>5. CASE Stream!SendBest(a)
  <2>1. /\ Stream!Enqueue(Stream!Frame(a, Stream!BestOf(exchange[a])))
        /\ exchange' = exchange /\ resolution' = resolution
    BY <1>5 DEF Stream!SendBest
  <2> QED
    BY <1>1, <2>1, BestSound, MarketSend
<1> QED
  BY <1>2, <1>3, <1>4, <1>5

LEMMA SendResolutionKeeps ==
  ASSUME StreamInv, Stream!SendResolution
  PROVE  StreamInv'
<1>1. /\ resolution = "open" /\ resolution' = "received" /\ exchange' = exchange
      /\ Stream!Enqueue(ResolutionFrame)
  BY DEF Stream!SendResolution, ResolutionFrame
<1>2. ResolutionFrame \in StreamFrames /\ IsResolution(ResolutionFrame)
  BY DEF StreamFrames, IsResolution, ResolutionFrame
<1>3. /\ conn' \in Connections /\ ViewTypes' /\ QueueTypes' /\ Single(queue') /\ Waits(queue')
      /\ UNCHANGED <<wanted, loop, world>>
  BY <1>1, <1>2, EnqueueEffect
<1>4. VenueTypes'
  BY <1>1, <1>3 DEF StreamInv, VenueTypes
<1>5. ResolutionInv'
  BY <1>1, <1>3 DEF ResolutionInv, Waits, Single
<1> QED
  BY <1>3, <1>4, <1>5 DEF StreamInv

\* The changes of a transaction, one delta each.
LEMMA TradeEffect ==
  ASSUME NEW v \in Venues, v.clock < MaxTime, NEW levels \in SUBSET Prices,
         NEW order \in Stream!SetToSeqs(Stream!Difference(v.levels, levels))
  PROVE  LET done(n) == {order[m] : m \in 1..n}
             after(n) == (levels \cap done(n)) \cup (v.levels \ done(n))
             deltas == [n \in 1..Len(order) |->
                [at |-> v.clock + 1, nth |-> v.nth + n, price |-> order[n],
                 rests |-> order[n] \in levels, best |-> Stream!TopOf(levels), truth |-> after(n)]]
         IN /\ deltas \in Seq(Deltas) /\ Len(deltas) = Len(order) /\ Len(order) \in Nat
            /\ order \in Seq(Stream!Difference(v.levels, levels))
<1> DEFINE D == Stream!Difference(v.levels, levels)
           done(n) == {order[m] : m \in 1..n}
           after(n) == (levels \cap done(n)) \cup (v.levels \ done(n))
           deltas == [n \in 1..Len(order) |->
                [at |-> v.clock + 1, nth |-> v.nth + n, price |-> order[n],
                 rests |-> order[n] \in levels, best |-> Stream!TopOf(levels), truth |-> after(n)]]
<1>1. v.levels \in SUBSET Prices /\ v.clock + 1 \in 1..MaxTime /\ v.nth \in Int
  <2>1. v.levels \in SUBSET Prices /\ v.clock \in 1..MaxTime /\ v.nth \in Int
    BY VenueFields
  <2>2. v.clock + 1 \in 1..MaxTime
    BY <2>1, StreamConstants
  <2> QED
    BY <2>1, <2>2
<1>2. D \subseteq Prices
  BY <1>1 DEF Stream!Difference
<1>3. Stream!Cardinality(D) = Cardinality(D) /\ Cardinality(D) \in Nat
  <2>1. Stream!Cardinality(D) = Cardinality(D)
    BY DEF Stream!Cardinality, Cardinality
  <2>2. IsFiniteSet(D)
    BY <1>2, StreamConstants, FS_Subset
  <2> QED
    BY <2>1, <2>2, FS_CardinalityType
<1> HIDE DEF D
<1>4. order \in [1..Cardinality(D) -> D]
  BY <1>3 DEF Stream!SetToSeqs, D
<1>5. order \in Seq(D) /\ Len(order) = Cardinality(D) /\ \A n \in 1..Len(order) : order[n] \in D
  BY <1>3, <1>4
<1>6. Stream!TopOf(levels) \in Stream!Tops
  BY TopOfLevels
<1>7. ASSUME NEW n \in 1..Len(order)
      PROVE  [at |-> v.clock + 1, nth |-> v.nth + n, price |-> order[n],
              rests |-> order[n] \in levels, best |-> Stream!TopOf(levels), truth |-> after(n)]
                \in Deltas
  <2>1. after(n) \in SUBSET Prices /\ (order[n] \in levels) \in BOOLEAN
    BY <1>1
  <2>2. v.nth + n \in Int /\ order[n] \in Prices
    BY <1>1, <1>2, <1>3, <1>5
  <2> HIDE DEF after
  <2> QED
    BY <1>1, <1>6, <2>1, <2>2 DEF Deltas
<1>8. deltas \in [1..Len(order) -> Deltas] /\ Len(order) \in Nat
  <2> HIDE DEF after
  <2> QED
    BY <1>3, <1>5, <1>7
<1> HIDE DEF deltas
<1>9. deltas \in Seq(Deltas) /\ Len(deltas) = Len(order)
  BY <1>8
<1> QED
  BY <1>5, <1>8, <1>9 DEF deltas, D

LEMMA ExchangeKeeps ==
  ASSUME StreamInv, \/ \E a \in Assets : Stream!Trade(a) \/ Stream!Omit(a)
                    \/ Stream!Rotate
  PROVE  StreamInv'
<1>1. exchange \in [Assets -> Venues] /\ wanted \in SUBSET Assets /\ conn \in Connections /\ loop \in Loops
      /\ ViewTypes /\ (conn.reading => conn.at = "up")
  BY DEF StreamInv, VenueTypes, QueueTypes
<1>2. UNCHANGED <<conn, queue, loop, books, heard, advertised, resolution, world>>
  BY DEF Stream!Trade, Stream!Omit, Stream!Rotate, Stream!data
<1>3. exchange' \in [Assets -> Venues] /\ wanted' \in SUBSET Assets
  <2>1. ASSUME NEW a \in Assets, Stream!Trade(a) PROVE exchange' \in [Assets -> Venues] /\ wanted' = wanted
    <3> DEFINE v == exchange[a]
    <3>1. v \in Venues /\ v.clock < MaxTime /\ wanted' = wanted
      BY <1>1, <2>1 DEF Stream!Trade
    <3>2. PICK levels \in (SUBSET Prices) \ {v.levels} :
            \E order \in Stream!SetToSeqs(Stream!Difference(v.levels, levels)) :
        LET done(n) == {order[m] : m \in 1..n}
            after(n) == (levels \cap done(n)) \cup (v.levels \ done(n))
            deltas == [n \in 1..Len(order) |->
                [at |-> v.clock + 1, nth |-> v.nth + n, price |-> order[n],
                 rests |-> order[n] \in levels, best |-> Stream!TopOf(levels), truth |-> after(n)]]
        IN exchange' = [exchange EXCEPT ![a] = [v EXCEPT
               !.levels = levels, !.clock = @ + 1, !.nth = @ + Len(order),
               !.owed = @ \o deltas]]
      BY <2>1 DEF Stream!Trade
    <3>3. PICK order \in Stream!SetToSeqs(Stream!Difference(v.levels, levels)) :
        LET done(n) == {order[m] : m \in 1..n}
            after(n) == (levels \cap done(n)) \cup (v.levels \ done(n))
            deltas == [n \in 1..Len(order) |->
                [at |-> v.clock + 1, nth |-> v.nth + n, price |-> order[n],
                 rests |-> order[n] \in levels, best |-> Stream!TopOf(levels), truth |-> after(n)]]
        IN exchange' = [exchange EXCEPT ![a] = [v EXCEPT
               !.levels = levels, !.clock = @ + 1, !.nth = @ + Len(order),
               !.owed = @ \o deltas]]
      BY <3>2
    <3> DEFINE done(n) == {order[m] : m \in 1..n}
               after(n) == (levels \cap done(n)) \cup (v.levels \ done(n))
               deltas == [n \in 1..Len(order) |->
                [at |-> v.clock + 1, nth |-> v.nth + n, price |-> order[n],
                 rests |-> order[n] \in levels, best |-> Stream!TopOf(levels), truth |-> after(n)]]
    <3> DEFINE w == [v EXCEPT !.levels = levels, !.clock = v.clock + 1, !.nth = v.nth + Len(order),
                              !.owed = v.owed \o deltas]
    <3>4. exchange' = [exchange EXCEPT ![a] = w]
      BY <3>3
    <3>5. deltas \in Seq(Deltas) /\ Len(order) \in Nat
      BY <3>1, TradeEffect
    <3> HIDE DEF deltas
    <3>6. w \in Venues
      <4> HIDE DEF v
      <4>0. v.clock \in 1..MaxTime /\ v.nth \in Int /\ v.owed \in Seq(Deltas)
        BY <3>1, VenueFields
      <4>1. v.clock + 1 \in 1..MaxTime /\ v.nth + Len(order) \in Int /\ v.owed \in Seq(Deltas)
        BY <3>1, <3>5, <4>0, StreamConstants
      <4>2. v.owed \o deltas \in Seq(Deltas)
        BY <3>5, <4>1, ConcatProperties
      <4> QED
        BY <3>1, <4>1, <4>2 DEF Venues
    <3> HIDE DEF w, v
    <3> QED
      BY <1>1, <3>1, <3>4, <3>6, VenueStep
  <2>2. ASSUME NEW a \in Assets, Stream!Omit(a) PROVE exchange' \in [Assets -> Venues] /\ wanted' = wanted
    <3>1. exchange[a] \in Venues /\ exchange[a].owed # <<>> /\ wanted' = wanted
          /\ exchange' = [exchange EXCEPT ![a] = [exchange[a] EXCEPT !.owed = Tail(exchange[a].owed)]]
      BY <1>1, <2>2 DEF Stream!Omit
    <3>2. exchange[a].owed \in Seq(Deltas)
      BY <3>1, VenueFields
    <3>3. Tail(exchange[a].owed) \in Seq(Deltas)
      BY <3>1, <3>2, HeadTailProperties
    <3> QED
      BY <1>1, <3>1, <3>3, VenueFields, VenueStep
  <2>3. CASE Stream!Rotate
    BY <1>1, <2>3 DEF Stream!Rotate
  <2> QED
    BY <1>1, <2>1, <2>2, <2>3
<1> QED
  BY <1>1, <1>2, <1>3, SameViews, SideStep

\* A connection ends: nothing of it is left.
LEMMA DisconnectEffect ==
  ASSUME StreamInv, Stream!Disconnect, "raised" \in world \/ queue = <<>>
  PROVE  StreamInv'
<1>1. /\ conn' = Stream!Down /\ loop' = Stream!Resting /\ queue' = <<>>
      /\ exchange' = Stream!Deaf(Assets) /\ Stream!MarkNotReady
      /\ UNCHANGED <<wanted, resolution, world>>
  BY DEF Stream!Disconnect
<1>2. conn' \in Connections /\ ~conn'.reading /\ loop' \in Loops
  BY <1>1 DEF Stream!Down, Connections, Stream!Resting, Loops
<1>3. exchange' \in [Assets -> Venues]
  BY <1>1, VenueFields DEF Stream!Deaf, StreamInv, VenueTypes
<1>4. VenueTypes' /\ ViewTypes'
  BY <1>1, <1>2, <1>3, NotReadyTypes DEF StreamInv, VenueTypes
<1>5. /\ queue' \in Seq(StreamFrames) /\ Len(queue') = 0 /\ 0 <= QueueCap
      /\ ~Waits(queue') /\ Single(queue')
  BY <1>1, EmptySeq, StreamConstants DEF Waits, Single
<1>6. QueueTypes'
  BY <1>1, <1>2, <1>5 DEF QueueTypes
<1>7. queue = <<>> => ~Waits(queue)
  BY DEF Waits
<1>8. ResolutionInv'
  BY <1>1, <1>5, <1>7 DEF StreamInv, ResolutionInv, Waits, Single
<1> QED
  BY <1>4, <1>6, <1>8 DEF StreamInv

LEMMA ConnectionKeeps ==
  ASSUME StreamInv,
         \/ Stream!Dial \/ Stream!Connect \/ Stream!Cut \/ Stream!ReconciliationEnds
         \/ Stream!ReconciliationRaises \/ Stream!PipelineEnds
  PROVE  StreamInv'
<1>1. exchange \in [Assets -> Venues] /\ wanted \in SUBSET Assets /\ conn \in Connections /\ loop \in Loops
      /\ ViewTypes /\ (conn.reading => conn.at = "up")
  BY DEF StreamInv, VenueTypes, QueueTypes
<1>2. CASE Stream!Dial
  <2>1. /\ conn.at = "down" /\ conn' \in Connections /\ conn'.at = "dialing"
        /\ conn'.reading = conn.reading
    <3>1. conn.at = "down" /\ conn' = [conn EXCEPT !.at = "dialing", !.subscribed = wanted]
      BY <1>2 DEF Stream!Dial
    <3> QED
      BY <1>1, <3>1 DEF Connections
  <2>2. UNCHANGED <<exchange, wanted, queue, loop, books, heard, advertised, resolution, world>>
    BY <1>2 DEF Stream!Dial, Stream!data
  <2> QED
    BY <1>1, <2>1, <2>2, SameViews, SideStep
<1>3. CASE Stream!Connect
  <2>1. /\ conn.at = "dialing" /\ Stream!MarkNotReady /\ exchange' = Stream!Listening(conn.subscribed)
        /\ UNCHANGED <<wanted, queue, loop, resolution, world>>
    BY <1>3 DEF Stream!Connect
  <2>2. conn' \in Connections /\ conn'.at = "up"
    <3>1. ("gated" \in world) \in BOOLEAN
      OBVIOUS
    <3> DEFINE gated == "gated" \in world
    <3>2. conn' = [conn EXCEPT !.at = "up", !.reading = TRUE, !.resync = FALSE, !.gate = gated]
      BY <1>3 DEF Stream!Connect
    <3> HIDE DEF gated
    <3>3. gated \in BOOLEAN
      BY <3>1 DEF gated
    <3> QED
      BY <1>1, <3>2, <3>3 DEF Connections
  <2>3. exchange' \in [Assets -> Venues]
    BY <1>1, <2>1, VenueFields DEF Stream!Listening
  <2> QED
    BY <1>1, <2>1, <2>2, <2>3, NotReadyTypes, SideStep
<1>4. CASE Stream!Cut
  <2>1. conn' \in Connections /\ ~conn'.reading /\ conn'.at = conn.at
    BY <1>1, <1>4 DEF Stream!Cut, Connections
  <2>2. UNCHANGED <<exchange, wanted, queue, loop, books, heard, advertised, resolution, world>>
    BY <1>4 DEF Stream!Cut, Stream!data
  <2> QED
    BY <1>1, <2>1, <2>2, SameViews, SideStep
<1>5. CASE Stream!ReconciliationEnds
  <2>1. conn' \in Connections /\ conn'.reading = conn.reading /\ conn'.at = conn.at
    BY <1>1, <1>5 DEF Stream!ReconciliationEnds, Connections
  <2>2. UNCHANGED <<exchange, wanted, queue, loop, books, heard, advertised, resolution, world>>
    BY <1>5 DEF Stream!ReconciliationEnds, Stream!data
  <2> QED
    BY <1>1, <2>1, <2>2, SameViews, SideStep
<1>6. CASE Stream!ReconciliationRaises
  BY <1>6, DisconnectEffect DEF Stream!ReconciliationRaises
<1>7. CASE Stream!PipelineEnds
  BY <1>7, DisconnectEffect DEF Stream!PipelineEnds
<1> QED
  BY <1>2, <1>3, <1>4, <1>5, <1>6, <1>7

\* What the processor makes of one message.
LEMMA ProcessEffect ==
  ASSUME ViewTypes, conn \in Connections, NEW a \in Assets, NEW message, Sound(message),
         NEW verdict, Stream!ProcessMessage(a, message, verdict)
  PROVE  /\ ViewTypes' /\ conn' \in Connections /\ conn'.at = conn.at
         /\ conn'.reading => conn.reading
<1> DEFINE before == Stream!Ensured(conn.subscribed)
           after == Stream!Apply(before[a], message, verdict)
           hidden == Stream!Rejected(before[a], message, verdict)
           read == message.nth > heard[a].nth
                   /\ ~(hidden /\ message.event_type = "book" /\ before[a].snapshot_loaded)
<1>1. /\ books \in [Assets -> Stream!OrderBookState] /\ heard \in [Assets -> Heard]
      /\ advertised \in [Assets -> Stream!Tops \cup {Stream!NotAdvertised}]
  BY DEF ViewTypes
<1>2. before \in [Assets -> Stream!OrderBookState]
  BY <1>1, ClearedType DEF Stream!Ensured
<1>3. \/ /\ conn' = [conn EXCEPT !.resync = TRUE, !.reading = FALSE] /\ Stream!MarkNotReady
      \/ /\ books' = [before EXCEPT ![a] = after]
         /\ heard' = [heard EXCEPT ![a] =
                IF read THEN [nth |-> message.nth, truth |-> message.truth] ELSE heard[a]]
         /\ advertised' = [advertised EXCEPT ![a] = IF hidden THEN advertised[a] ELSE message.best]
         /\ conn' = conn
  BY DEF Stream!ProcessMessage
<1> HIDE DEF before
<1>4. after \in Stream!OrderBookState
  BY <1>2, ApplyType
<1> HIDE DEF after, hidden, read
<1>5. CASE conn' = [conn EXCEPT !.resync = TRUE, !.reading = FALSE] /\ Stream!MarkNotReady
  <2>1. conn' \in Connections /\ conn'.at = conn.at /\ ~conn'.reading
    BY <1>5 DEF Connections
  <2> QED
    BY <1>5, <2>1, NotReadyTypes
<1>6. CASE /\ books' = [before EXCEPT ![a] = after]
           /\ heard' = [heard EXCEPT ![a] =
                  IF read THEN [nth |-> message.nth, truth |-> message.truth] ELSE heard[a]]
           /\ advertised' = [advertised EXCEPT ![a] = IF hidden THEN advertised[a] ELSE message.best]
           /\ conn' = conn
  <2>1. books' \in [Assets -> Stream!OrderBookState]
    BY <1>2, <1>4, <1>6
  <2>2. [nth |-> message.nth, truth |-> message.truth] \in Heard
    BY SoundFields DEF Heard
  <2>3. heard' \in [Assets -> Heard]
    BY <1>1, <1>6, <2>2
  <2>4. advertised' \in [Assets -> Stream!Tops \cup {Stream!NotAdvertised}]
    BY <1>1, <1>6, SoundFields
  <2> QED
    BY <1>6, <2>1, <2>3, <2>4 DEF ViewTypes
<1> QED
  BY <1>3, <1>5, <1>6

\* The queue without its head.
LEMMA TailFrame ==
  ASSUME QueueTypes, Single(queue), queue # <<>>
  PROVE  /\ Head(queue) \in StreamFrames /\ Tail(queue) \in Seq(StreamFrames)
         /\ Len(Tail(queue)) <= QueueCap
         /\ Single(Tail(queue))
         /\ IF IsResolution(Head(queue)) THEN ~Waits(Tail(queue)) ELSE Waits(Tail(queue)) <=> Waits(queue)
<1> DEFINE shorter == Tail(queue)
<1>1. /\ queue \in Seq(StreamFrames) /\ Len(queue) <= QueueCap /\ QueueCap \in Nat /\ Len(queue) \in Nat
      /\ Head(queue) = queue[1] /\ Head(queue) \in StreamFrames /\ shorter \in Seq(StreamFrames)
      /\ Len(shorter) = Len(queue) - 1
      /\ \A i \in 1..Len(shorter) : shorter[i] = queue[i + 1]
  BY HeadTailProperties, LenProperties, StreamConstants DEF QueueTypes
<1> HIDE DEF shorter
<1>2. 1 \in 1..Len(queue)
  <2>1. Len(queue) # 0
    BY <1>1, EmptySeq
  <2> QED
    BY <1>1, <2>1
<1>3. \A i \in 1..Len(shorter) : i + 1 \in 1..Len(queue) /\ i + 1 # 1 /\ shorter[i] = queue[i + 1]
  BY <1>1
<1>4. Single(shorter)
  <2> SUFFICES ASSUME NEW i \in 1..Len(shorter), NEW j \in 1..Len(shorter),
                      IsResolution(shorter[i]), IsResolution(shorter[j])
               PROVE  i = j
    BY DEF Single
  <2>1. i + 1 = j + 1
    BY <1>3 DEF Single
  <2> QED
    BY <2>1
<1>5. IsResolution(Head(queue)) => ~Waits(shorter)
  BY <1>1, <1>2, <1>3 DEF Waits, Single
<1>6. Waits(shorter) => Waits(queue)
  BY <1>3 DEF Waits
<1>7. ASSUME Waits(queue), ~IsResolution(Head(queue)) PROVE Waits(shorter)
  <2>1. PICK i \in 1..Len(queue) : IsResolution(queue[i])
    BY <1>7 DEF Waits
  <2>2. i # 1
    BY <1>1, <1>7, <2>1
  <2>3. i - 1 \in 1..Len(shorter) /\ i - 1 + 1 = i
    BY <1>1, <2>2
  <2>4. shorter[i - 1] = queue[i]
    BY <1>1, <2>3
  <2> QED
    BY <2>1, <2>3, <2>4 DEF Waits
<1>8. Len(shorter) <= QueueCap
  BY <1>1
<1> QED
  BY <1>1, <1>4, <1>5, <1>6, <1>7, <1>8 DEF shorter

LEMMA ProcessorKeeps ==
  ASSUME StreamInv, Stream!Process \/ Stream!ProcessResolution
  PROVE  StreamInv'
<1>1. /\ conn.at = "up" /\ queue # <<>> /\ queue' = Tail(queue)
      /\ UNCHANGED <<exchange, wanted, loop, world>>
      /\ IF Head(queue).kind = "market" THEN Stream!Process ELSE Stream!ProcessResolution
  BY DEF Stream!Process, Stream!ProcessResolution, Stream!Resolved
<1>2. /\ QueueTypes /\ Single(queue) /\ VenueTypes /\ ViewTypes /\ conn \in Connections
      /\ ResolutionInv
  BY DEF StreamInv, VenueTypes, ResolutionInv
<1>3. /\ Head(queue) \in StreamFrames /\ queue' \in Seq(StreamFrames)
      /\ Len(queue') <= QueueCap /\ Single(queue')
      /\ IF IsResolution(Head(queue)) THEN ~Waits(queue') ELSE Waits(queue') <=> Waits(queue)
  BY <1>1, <1>2, TailFrame
<1>4. CASE Head(queue).kind = "market"
  <2>1. /\ Head(queue) \in MarketFrames /\ ~IsResolution(Head(queue)) /\ Stream!Process
        /\ Head(queue).asset \in Assets /\ Sound(Head(queue).message)
    BY <1>1, <1>3, <1>4, FrameKinds
  <2>2. /\ ViewTypes' /\ conn' \in Connections /\ conn'.at = conn.at
        /\ conn'.reading => conn.reading
    <3>1. CASE UNCHANGED <<conn, books, heard, advertised>>
      BY <1>2, <3>1, SameViews
    <3>2. ASSUME NEW verdict,
                 Stream!ProcessMessage(Head(queue).asset, Head(queue).message, verdict)
          PROVE  /\ ViewTypes' /\ conn' \in Connections /\ conn'.at = conn.at
                 /\ conn'.reading => conn.reading
      BY <1>2, <2>1, <3>2, ProcessEffect
    <3> QED
      BY <2>1, <3>1, <3>2 DEF Stream!Process, Stream!data
  <2>3. resolution' = resolution
    BY <2>1 DEF Stream!Process
  <2>4. VenueTypes' /\ QueueTypes' /\ ResolutionInv'
    BY <1>1, <1>2, <1>3, <2>1, <2>2, <2>3 DEF VenueTypes, QueueTypes, ResolutionInv, Waits, Single
  <2> QED
    BY <2>2, <2>4 DEF StreamInv
<1>5. CASE Head(queue).kind # "market"
  <2>1. Stream!ProcessResolution /\ IsResolution(Head(queue))
    BY <1>1, <1>3, <1>5, FrameKinds
  <2>2. resolution' = "stored" /\ UNCHANGED <<conn, books, heard, advertised>>
    BY <2>1 DEF Stream!ProcessResolution, Stream!data
  <2>3. VenueTypes' /\ ViewTypes' /\ QueueTypes' /\ ResolutionInv'
    BY <1>1, <1>2, <1>3, <2>1, <2>2, SameViews
       DEF VenueTypes, QueueTypes, ResolutionInv, Waits, Single
  <2> QED
    BY <2>3 DEF StreamInv
<1> QED
  BY <1>4, <1>5

LEMMA LoopKeeps ==
  ASSUME StreamInv,
         \/ Stream!LoopWakes \/ Stream!LoopSubscribes \/ Stream!LoopNotes \/ Stream!LoopReady
         \/ Stream!LoopTimesOut \/ Stream!LoopFinishes
  PROVE  StreamInv'
<1>1. /\ exchange \in [Assets -> Venues] /\ wanted \in SUBSET Assets /\ conn \in Connections
      /\ loop \in Loops /\ ViewTypes
  BY DEF StreamInv, VenueTypes
<1>2. /\ conn.reading /\ conn.at = "up" /\ UNCHANGED <<wanted, queue, resolution, world>>
  BY DEF StreamInv, QueueTypes, Stream!LoopWakes, Stream!LoopSubscribes, Stream!LoopNotes,
         Stream!LoopReady, Stream!LoopTimesOut, Stream!LoopFinishes, Stream!data
<1>3. ASSUME NEW assets PROVE Stream!Ensured(assets) \in [Assets -> Stream!OrderBookState]
  BY <1>1, ClearedType DEF Stream!Ensured, ViewTypes
<1>4. CASE Stream!LoopWakes
  <2>1. loop' \in Loops /\ UNCHANGED <<exchange, conn, heard, advertised>>
    BY <1>1, <1>4 DEF Stream!LoopWakes, Loops
  <2>2. ViewTypes'
    BY <1>1, <1>3, <1>4, <2>1 DEF ViewTypes, Stream!LoopWakes
  <2> QED
    BY <1>1, <1>2, <2>1, <2>2, SideStep
<1>5. CASE Stream!LoopSubscribes
  <2>1. loop' \in Loops /\ UNCHANGED <<conn, books, heard, advertised>>
    BY <1>1, <1>5 DEF Stream!LoopSubscribes, Loops, Stream!data
  <2>2. exchange' \in [Assets -> Venues]
    BY <1>1, <1>5, VenueFields DEF Stream!LoopSubscribes, Stream!Listening
  <2> QED
    BY <1>1, <1>2, <2>1, <2>2, SameViews, SideStep
<1>6. CASE Stream!LoopNotes
  <2>1. loop' \in Loops /\ UNCHANGED <<exchange, books, heard, advertised>>
    BY <1>1, <1>6 DEF Stream!LoopNotes, Loops, Stream!data
  <2>2. conn' \in Connections /\ conn'.at = conn.at
    <3>1. conn' = [conn EXCEPT !.subscribed = conn.subscribed \cup loop.add]
      BY <1>6 DEF Stream!LoopNotes
    <3> QED
      BY <1>1, <3>1 DEF Connections, Loops
  <2> QED
    BY <1>1, <1>2, <2>1, <2>2, SameViews, SideStep
<1>7. CASE Stream!LoopReady
  <2>1. loop' \in Loops /\ UNCHANGED <<exchange, conn, books, heard, advertised>>
    BY <1>1, <1>7 DEF Stream!LoopReady, Loops, Stream!data
  <2> QED
    BY <1>1, <1>2, <2>1, SameViews, SideStep
<1>8. CASE Stream!LoopTimesOut
  <2>1. conn' \in Connections /\ conn'.at = conn.at
    BY <1>1, <1>8 DEF Stream!LoopTimesOut, Connections
  <2>2. UNCHANGED <<exchange, loop, books, heard, advertised>>
    BY <1>8 DEF Stream!LoopTimesOut, Stream!data
  <2> QED
    BY <1>1, <1>2, <2>1, <2>2, SameViews, SideStep
<1>9. CASE Stream!LoopFinishes
  <2>1. loop' \in Loops
    BY <1>9 DEF Stream!LoopFinishes, Stream!Resting, Loops
  <2>2. conn' \in Connections /\ conn'.at = conn.at
    <3>1. conn' = [conn EXCEPT !.subscribed = loop.wanted]
      BY <1>9 DEF Stream!LoopFinishes
    <3> QED
      BY <1>1, <3>1 DEF Connections, Loops
  <2>3. exchange' \in [Assets -> Venues]
    BY <1>1, <1>9, VenueFields DEF Stream!LoopFinishes, Stream!Deaf
  <2>4. ViewTypes'
    <3>1. Stream!Unheard \in Heard
      BY DEF Stream!Unheard, Heard
    <3>2. heard' \in [Assets -> Heard]
      BY <1>1, <1>9, <3>1 DEF ViewTypes, Stream!LoopFinishes
    <3>3. advertised' \in [Assets -> Stream!Tops \cup {Stream!NotAdvertised}]
      BY <1>1, <1>9 DEF ViewTypes, Stream!LoopFinishes
    <3>4. books' \in [Assets -> Stream!OrderBookState]
      BY <1>3, <1>9 DEF Stream!LoopFinishes
    <3> QED
      BY <3>2, <3>3, <3>4 DEF ViewTypes
  <2> QED
    BY <1>1, <1>2, <2>1, <2>2, <2>3, <2>4, SideStep
<1> QED
  BY <1>4, <1>5, <1>6, <1>7, <1>8, <1>9

LEMMA StreamInvInit == Stream!Init => StreamInv
<1> SUFFICES ASSUME Stream!Init PROVE StreamInv
  OBVIOUS
<1>1. Stream!QuietVenue \in Venues /\ Stream!Late \in Venues
  <2>1. Stream!Min(Prices) \in Prices
    <3>1. PICK m \in Prices : \A n \in Prices : m <= n
      BY StreamConstants, LeastNatural
    <3> QED
      BY <3>1 DEF Stream!Min
  <2>2. <<>> \in Seq(Deltas) /\ 1 \in 1..MaxTime /\ MaxTime - 1 \in 1..MaxTime /\ 0 \in Int
    BY EmptySeq, StreamConstants
  <2>3. Stream!QuietVenue \in Venues
    BY <2>1, <2>2 DEF Stream!QuietVenue, Venues
  <2> HIDE DEF Venues
  <2>4. ASSUME NEW v \in Venues, NEW t \in 1..MaxTime PROVE [v EXCEPT !.clock = t] \in Venues
    BY DEF Venues
  <2> QED
    BY <2>2, <2>3, <2>4 DEF Stream!Late
<1>2. Stream!Min(Assets) \in Assets
  <2>1. PICK m \in Assets : \A n \in Assets : m <= n
    BY StreamConstants, LeastNatural
  <2> QED
    BY <2>1 DEF Stream!Min
<1>3. exchange \in [Assets -> Venues] /\ wanted \in SUBSET Assets /\ world \in StreamWorlds
  BY <1>1, <1>2 DEF Stream!Init, Stream!Current
<1>4. conn \in Connections /\ ~conn.reading /\ loop \in Loops
  BY DEF Stream!Init, Stream!Down, Connections, Stream!Resting, Loops
<1>5. ViewTypes
  <2>1. Stream!Unheard \in Heard
    BY DEF Stream!Unheard, Heard
  <2> QED
    BY <2>1, ClearedType DEF Stream!Init, ViewTypes
<1>6. QueueTypes
  <2>1. queue = <<>> /\ queue \in Seq(StreamFrames) /\ Len(queue) = 0 /\ 0 <= QueueCap
    BY EmptySeq, StreamConstants DEF Stream!Init
  <2> QED
    BY <1>4, <2>1 DEF QueueTypes
<1>7. ResolutionInv
  BY EmptySeq DEF Stream!Init, ResolutionInv, Waits, Single
<1> QED
  BY <1>3, <1>4, <1>5, <1>6, <1>7 DEF StreamInv, VenueTypes

LEMMA StreamInvNext ==
  ASSUME StreamInv, [Stream!Next]_streamVars
  PROVE  StreamInv'
<1>1. CASE UNCHANGED streamVars
  BY <1>1 DEF streamVars, StreamInv, VenueTypes, ViewTypes, QueueTypes, ResolutionInv, Waits, Single
<1>2. CASE \E a \in Assets : Stream!SendBook(a) \/ Stream!SendBookAgain(a) \/ Stream!SendDelta(a)
                                \/ Stream!SendBest(a)
  BY <1>2, SendKeeps
<1>3. CASE Stream!SendResolution
  BY <1>3, SendResolutionKeeps
<1>4. CASE (\E a \in Assets : Stream!Trade(a) \/ Stream!Omit(a)) \/ Stream!Rotate
  BY <1>4, ExchangeKeeps
<1>5. CASE \/ Stream!Dial \/ Stream!Connect \/ Stream!Cut \/ Stream!ReconciliationEnds
           \/ Stream!ReconciliationRaises \/ Stream!PipelineEnds
  BY <1>5, ConnectionKeeps
<1>6. CASE Stream!Process \/ Stream!ProcessResolution
  BY <1>6, ProcessorKeeps
<1>7. CASE \/ Stream!LoopWakes \/ Stream!LoopSubscribes \/ Stream!LoopNotes \/ Stream!LoopReady
           \/ Stream!LoopTimesOut \/ Stream!LoopFinishes
  BY <1>7, LoopKeeps
<1> QED
  BY <1>1, <1>2, <1>3, <1>4, <1>5, <1>6, <1>7 DEF Stream!Next

(* A market_resolved frame that was queued is stored: whatever the capacity *)
(* of the queue, the saturations, the resynchronisations and the rotations, *)
(* it waits in the queue until the processor takes it, unless a             *)
(* reconciliation raised.                                                   *)
THEOREM QueuedResolutionSurvives == Spec => []ResolutionSurvives
<1>1. Init => StreamInv
  BY StreamInvInit DEF Init
<1>2. StreamInv /\ [Next]_feedVars => StreamInv'
  BY StreamSteps, StreamInvNext
<1>3. StreamInv => ResolutionSurvives
  BY DEF StreamInv, ResolutionInv, Waits, IsResolution, ResolutionSurvives,
         Stream!ResolutionSurvives
<1> QED
  BY <1>1, <1>2, <1>3, PTL DEF Spec, feedVars

-----------------------------------------------------------------------------
(* The types of all parts *)

(* Every variable of every module keeps its type, whatever the instance. *)
THEOREM FeedsTypeCorrect == Spec => []TypeOK
<1> DEFINE Inv == StreamInv /\ UserInv /\ RowInv /\ FrameInv /\ WindowTypes
<1>1. Init => Inv
  BY StreamInvInit, UserInvInit, RowInvInit, FrameInvInit, WindowInit DEF Init
<1>2. Inv /\ [Next]_feedVars => Inv'
  BY StreamSteps, StreamInvNext, PrivateSteps, UserInvNext, RowSteps, RowInvNext,
     FrameSteps, FrameInvNext, WindowSteps, WindowNext
<1>3. Inv => TypeOK
  <2> SUFFICES ASSUME Inv PROVE TypeOK
    OBVIOUS
  <2>1. Stream!TypeOK
    <3>1. /\ queue \in Seq(StreamFrames) /\ Len(queue) <= QueueCap /\ Len(queue) \in Nat
          /\ QueueCap \in Nat
      BY LenProperties, StreamConstants DEF StreamInv, QueueTypes
    <3>2. \A n \in 1..Len(queue) : queue[n].kind = "market" =>
             queue[n].asset \in Assets /\ queue[n].message \in Stream!Message
      <4>1. \A n \in 1..Len(queue) : queue[n] \in StreamFrames
        BY <3>1, ElementOfSeq
      <4> QED
        BY <4>1, FrameKinds DEF Sound
    <3>3. Len(queue) <= QueueCap + 1
      BY <3>1
    <3> QED
      BY <3>2, <3>3 DEF StreamInv, ViewTypes, VenueTypes, Loops, ResolutionInv, Stream!TypeOK
  <2>2. Private!TypeOK /\ Frames!TypeOK
    BY DEF UserInv, FrameInv
  <2>3. Row!TypeOK
    BY DEF RowInv, RowValues, Rows, Row!TypeOK
  <2>4. Window!TypeOK
    BY WindowTypesOK
  <2> QED
    BY <2>1, <2>2, <2>3, <2>4 DEF TypeOK
<1> QED
  BY <1>1, <1>2, <1>3, PTL DEF Spec, feedVars
=============================================================================
