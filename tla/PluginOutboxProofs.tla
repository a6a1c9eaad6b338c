------------------------- MODULE PluginOutboxProofs -------------------------
(***************************************************************************)
(* Proofs about PluginOutbox, for any number of plugins, events, failures  *)
(* and changes of a manifest, and for lines of any size.                   *)
(***************************************************************************)
EXTENDS PluginOutbox, SequenceTheorems, WellFoundedInduction, TLAPS

(* Lines without an event are corrupt, the others are in the order of their  *)
(* numbers, which end at b.                                                  *)
GoodQueue(q, b) ==
  /\ \A i \in 1 .. Len(q) : q[i].id <= b /\ (q[i].id = 0 => q[i].kind = "corrupt")
  /\ \A i, j \in 1 .. Len(q) : i < j /\ q[i].id # 0 /\ q[j].id # 0 => q[i].id < q[j].id

(* The last event a plugin can have met: the loop of emit() is not done with *)
(* those from cursor on.                                                     *)
Newest(s) == IF pc = "emit" /\ s >= cursor THEN count.events - 1 ELSE count.events

Heard(s) == {received[s][i] : i \in 1 .. Len(received[s])}

QueuesAreSorted == \A s \in Subs : GoodQueue(outbox[s], Newest(s))
HeardAreOld == \A s \in Subs : \A x \in Heard(s) : x <= Newest(s)

(* What emit() is about to append, and what drain() has gone past.           *)
EventIsNew == pc = "emit" => event.id = count.events /\ event.id > 0 /\ event.kind \in Kinds
PassedIsDone ==
  pc = "deliver" =>
    /\ raw = outbox[cursor]
    /\ \A i \in 1 .. pos - 1 : raw[i].id \in {0} \cup Heard(cursor) \cup shed[cursor]

(* What waits in an outbox is newer than all its server has heard of.        *)
WaitingIsNewer ==
  \A s \in Subs : \A x \in Ids(outbox[s]) \ (Heard(s) \cup shed[s]) : \A y \in Heard(s) : y < x

Counts == count \in [events : 0 .. MaxEvents, faults : Nat, edits : Nat]

IInv ==
  /\ TypeOK /\ Counts
  /\ EventIsNew /\ QueuesAreSorted /\ HeardAreOld /\ PassedIsDone /\ WaitingIsNewer
  /\ NothingIsLost /\ DeliveredInOrder

USE OutboxAssumption
-----------------------------------------------------------------------------
(* Queues.                                                                 *)

LEMMA IdsAre ==
  ASSUME NEW q \in Seq(Line)
  PROVE  /\ Ids(q) = {q[i].id : i \in 1 .. Len(q)} \ {0}
         /\ Ids(q) \subseteq 1 .. MaxEvents
<1>1. \A i \in 1 .. Len(q) : q[i].id \in 0 .. MaxEvents
  <2>1. \A i \in 1 .. Len(q) : q[i] \in Line
    OBVIOUS
  <2> QED
    BY <2>1 DEF Line
<1>2. DOMAIN q = 1 .. Len(q)
  OBVIOUS
<1> QED
  BY <1>1, <1>2 DEF Ids

LEMMA FromIs ==
  ASSUME NEW q \in Seq(Line), NEW k \in 1 .. Len(q) + 1
  PROVE  /\ From(q, k) \in Seq(Line) /\ Len(From(q, k)) = Len(q) - k + 1
         /\ \A i \in 1 .. Len(From(q, k)) : k + i - 1 \in k .. Len(q) /\ From(q, k)[i] = q[k + i - 1]
         /\ \A j \in k .. Len(q) : j - k + 1 \in 1 .. Len(From(q, k)) /\ From(q, k)[j - k + 1] = q[j]
<1>1. \A i \in k .. Len(q) : q[i] \in Line
  OBVIOUS
<1>2. k \in Int /\ Len(q) \in Nat
  OBVIOUS
<1> DEFINE n == Len(q)
<1>3. /\ SubSeq(q, k, n) \in Seq(Line)
      /\ Len(SubSeq(q, k, n)) = IF k <= n THEN n - k + 1 ELSE 0
      /\ \A i \in 1 .. n - k + 1 : SubSeq(q, k, n)[i] = q[k + i - 1]
  BY <1>1, <1>2, SubSeqProperties
<1> QED
  BY <1>2, <1>3 DEF From

LEMMA FrontIs ==
  ASSUME NEW q \in Seq(Line), NEW n \in Nat, n <= Len(q)
  PROVE  /\ SubSeq(q, 1, n) \in Seq(Line) /\ Len(SubSeq(q, 1, n)) = n
         /\ \A i \in 1 .. n : SubSeq(q, 1, n)[i] = q[i]
<1>1. \A i \in 1 .. n : q[i] \in Line
  OBVIOUS
<1>2. /\ SubSeq(q, 1, n) \in Seq(Line)
      /\ Len(SubSeq(q, 1, n)) = IF 1 <= n THEN n - 1 + 1 ELSE 0
      /\ \A i \in 1 .. n - 1 + 1 : SubSeq(q, 1, n)[i] = q[1 + i - 1]
  BY <1>1, SubSeqProperties
<1>3. n - 1 + 1 = n /\ (n = 0 \/ 1 <= n)
  OBVIOUS
<1>4. \A i \in 1 .. n : 1 + i - 1 = i
  OBVIOUS
<1> QED
  BY <1>2, <1>3, <1>4

LEMMA NoLineIsLine == NoLine \in Line
  BY DEF NoLine, Line

LEMMA AppendedIs ==
  ASSUME NEW q \in Seq(Line), NEW line \in Line
  PROVE  /\ Appended(q, line) \in Seq(Line)
         /\ \A i \in 1 .. Len(Appended(q, line)) :
              \/ i \in 1 .. Len(q) /\ Appended(q, line)[i] = q[i]
              \/ /\ i = Len(Appended(q, line))
                 /\ \/ Appended(q, line)[i] = line
                    \/ Appended(q, line)[i].id = 0 /\ Appended(q, line)[i].kind = "corrupt"
<1>1. CASE q # <<>> /\ Last(q).torn
  <2> DEFINE glue == [NoLine EXCEPT !.size = Last(q).size + line.size]
  <2>1. Len(q) \in Nat /\ Len(q) > 0 /\ Last(q) \in Line
    BY <1>1 DEF Last
  <2>2. glue \in Line /\ glue.id = 0 /\ glue.kind = "corrupt"
    <3>1. Last(q).size + line.size \in Nat /\ 0 \in 0 .. MaxEvents
      BY <2>1 DEF Line
    <3> QED
      BY <3>1, Zenon DEF NoLine, Line
  <2>3. PICK n \in Nat : n = Len(q) - 1
    BY <2>1
  <2>4. /\ SubSeq(q, 1, n) \in Seq(Line) /\ Len(SubSeq(q, 1, n)) = n
        /\ \A i \in 1 .. n : SubSeq(q, 1, n)[i] = q[i]
    BY <2>1, <2>3, FrontIs
  <2>5. Appended(q, line) = Append(SubSeq(q, 1, n), glue)
    BY <1>1, <2>3 DEF Appended, Front
  <2> HIDE DEF glue
  <2> QED
    BY <2>1, <2>2, <2>3, <2>4, <2>5
<1>2. CASE ~(q # <<>> /\ Last(q).torn)
  <2>1. Appended(q, line) = Append(q, line)
    BY <1>2 DEF Appended
  <2> QED
    BY <2>1
<1> QED
  BY <1>1, <1>2

LEMMA GoodFrom ==
  ASSUME NEW q \in Seq(Line), NEW k \in 1 .. Len(q) + 1, NEW b \in Int, GoodQueue(q, b)
  PROVE  GoodQueue(From(q, k), b)
<1> DEFINE f == From(q, k)
<1>1. /\ Len(f) = Len(q) - k + 1 /\ Len(q) \in Nat
      /\ \A i \in 1 .. Len(f) : k + i - 1 \in 1 .. Len(q) /\ f[i] = q[k + i - 1]
  <2>1. Len(q) \in Nat
    OBVIOUS
  <2>2. /\ Len(f) = Len(q) - k + 1
        /\ \A i \in 1 .. Len(f) : k + i - 1 \in k .. Len(q) /\ f[i] = q[k + i - 1]
    BY FromIs
  <2> HIDE DEF f
  <2> QED
    BY <2>1, <2>2
<1> HIDE DEF f
<1>2. Len(f) \in Int /\ k \in Int
  BY <1>1
<1>3. \A i \in 1 .. Len(f) : f[i].id <= b /\ (f[i].id = 0 => f[i].kind = "corrupt")
  BY <1>1 DEF GoodQueue
<1>4. ASSUME NEW i \in 1 .. Len(f), NEW j \in 1 .. Len(f), i < j, f[i].id # 0, f[j].id # 0
      PROVE  f[i].id < f[j].id
  <2>1. k + i - 1 < k + j - 1
    BY <1>2, <1>4
  <2> QED
    BY <1>1, <1>4, <2>1 DEF GoodQueue
<1>5. GoodQueue(f, b)
  BY <1>3, <1>4 DEF GoodQueue
<1> QED
  BY <1>5 DEF f

LEMMA GoodAppended ==
  ASSUME NEW q \in Seq(Line), NEW line \in Line, NEW b \in Int, NEW c \in Int, GoodQueue(q, b), b <= c,
         \/ line.id = 0 /\ line.kind = "corrupt" /\ 0 <= c
         \/ line.id > b /\ line.id # 0 /\ line.id <= c
  PROVE  GoodQueue(Appended(q, line), c)
<1> DEFINE a == Appended(q, line)
<1>1. /\ a \in Seq(Line)
      /\ \A i \in 1 .. Len(a) :
           \/ i \in 1 .. Len(q) /\ a[i] = q[i]
           \/ /\ i = Len(a)
              /\ a[i] = line \/ (a[i].id = 0 /\ a[i].kind = "corrupt")
  BY AppendedIs
<1> HIDE DEF a
<1>2. \A i \in 1 .. Len(q) : q[i].id \in Int
  <2>1. \A i \in 1 .. Len(q) : q[i] \in Line
    OBVIOUS
  <2> QED
    BY <2>1 DEF Line
<1>3. line.id \in Nat
  BY DEF Line
<1>4. \A i \in 1 .. Len(a) : a[i].id <= c /\ (a[i].id = 0 => a[i].kind = "corrupt")
  <2> TAKE i \in 1 .. Len(a)
  <2>1. CASE i \in 1 .. Len(q) /\ a[i] = q[i]
    BY <1>2, <2>1 DEF GoodQueue
  <2>2. CASE a[i] = line
    BY <2>2
  <2>3. CASE a[i].id = 0 /\ a[i].kind = "corrupt"
    BY <1>3, <2>3
  <2> QED
    BY <1>1, <2>1, <2>2, <2>3
<1>5. ASSUME NEW i \in 1 .. Len(a), NEW j \in 1 .. Len(a), i < j, a[i].id # 0, a[j].id # 0
      PROVE  a[i].id < a[j].id
  <2>1. i \in 1 .. Len(q) /\ a[i] = q[i]
    BY <1>1, <1>5
  <2>2. CASE j \in 1 .. Len(q) /\ a[j] = q[j]
    BY <1>5, <2>1, <2>2 DEF GoodQueue
  <2>3. CASE a[j] = line
    BY <1>2, <1>3, <1>5, <2>1, <2>3 DEF GoodQueue
  <2> QED
    BY <1>1, <1>5, <2>2, <2>3
<1> QED
  BY <1>4, <1>5 DEF GoodQueue, a

LEMMA GoodEmpty == ASSUME NEW b PROVE GoodQueue(<<>>, b) /\ <<>> \in Seq(Line) /\ Ids(<<>>) = {}
  BY DEF GoodQueue, Ids

-----------------------------------------------------------------------------
(***************************************************************************)
(* Types.                                                                  *)
(***************************************************************************)
LEMMA EmptyIs == <<>> \in Seq(Line) /\ 1 \in Nat \ {0} /\ Len(<<>>) = 0 /\ 1 \in Subs
  BY DEF Subs

(* The loops of emit() and of drain() go on.                                 *)
LEMMA EmitNextTypes ==
  ASSUME TypeOK, EmitNext
  PROVE  /\ pc' \in {"idle", "emit"} /\ cursor' \in Subs /\ event' \in Line
         /\ UNCHANGED <<mask, manifest, raw, pos, run, stalled, received>>
<1>1. cursor \in 1 .. NumSubs
  BY DEF TypeOK, Subs
<1>2. CASE cursor = NumSubs
  BY <1>2, NoLineIsLine, EmptyIs DEF EmitNext, drainVars
<1>3. CASE cursor # NumSubs
  BY <1>1, <1>3 DEF EmitNext, drainVars, TypeOK, Subs
<1> QED
  BY <1>2, <1>3

LEMMA DrainNextTypes ==
  ASSUME TypeOK, DrainNext
  PROVE  /\ pc' \in {"idle", "open"} /\ cursor' \in Subs /\ run' \in 0 .. MaxRun
         /\ raw' \in Seq(Line) /\ pos' \in Nat \ {0} /\ pos' <= Len(raw') + 1
         /\ stalled' \in BOOLEAN
<1>1. cursor \in 1 .. NumSubs
  BY DEF TypeOK, Subs
<1>2. pc' \in {"idle", "open"} /\ cursor' \in Subs /\ run' \in 0 .. MaxRun
  <2>1. CASE cursor = NumSubs \/ run = 0
    BY <2>1, EmptyIs DEF DrainNext
  <2>2. CASE ~(cursor = NumSubs \/ run = 0)
    BY <1>1, <2>2 DEF DrainNext, TypeOK, Subs
  <2> QED
    BY <2>1, <2>2
<1>4. raw' = <<>> /\ pos' = 1 /\ stalled' = FALSE
  BY DEF DrainNext
<1>5. raw' \in Seq(Line) /\ pos' \in Nat \ {0} /\ stalled' \in BOOLEAN
  BY <1>4, EmptyIs
<1>6. pos' <= Len(raw') + 1
  <2>1. Len(raw') = 0
    BY <1>4, EmptyIs
  <2> QED
    BY <1>4, <2>1
<1> QED
  BY <1>2, <1>5, <1>6

LEMMA TornIsLine == Torn(1) \in Line /\ Torn(1).id = 0 /\ Torn(1).kind = "corrupt"
<1>1. 0 \in 0 .. MaxEvents /\ 1 \in Nat
  OBVIOUS
<1> QED
  BY <1>1, Zenon DEF Torn, Line

(* What is shed was in the file.                                             *)
LEMMA ShedTypes ==
  ASSUME TypeOK, NEW s \in Subs, NEW S \in SUBSET Ids(outbox[s])
  PROVE  [shed EXCEPT ![s] = @ \cup S] \in [Subs -> SUBSET (1 .. MaxEvents)]
<1>1. S \subseteq 1 .. MaxEvents
  BY IdsAre DEF TypeOK
<1> QED
  BY <1>1 DEF TypeOK

LEMMA TypesStep == ASSUME TypeOK, Counts, EventIsNew, QueuesAreSorted, PassedIsDone, Next
                   PROVE  TypeOK' /\ Counts'
<1>0. /\ count.events \in 0 .. MaxEvents /\ count.faults \in Nat /\ count.edits \in Nat
      /\ cursor \in Subs /\ event \in Line
  BY DEF Counts, TypeOK
<1>1. CASE Emit
  <2>1. count' = [count EXCEPT !.events = @ + 1] /\ count.events < MaxEvents
    BY <1>1 DEF Emit
  <2>2. Counts'
    BY <1>0, <2>1 DEF Counts
  <2>3. PICK k \in Kinds, n \in Sizes :
          \/ UNCHANGED <<pc, event>>
          \/ /\ pc' = "emit"
             /\ event' = [id |-> count.events + 1, kind |-> k, size |-> n, torn |-> FALSE]
    BY <1>1 DEF Emit
  <2>4. n \in Nat /\ count.events + 1 \in 0 .. MaxEvents
    BY <1>0, <2>1
  <2>5. [id |-> count.events + 1, kind |-> k, size |-> n, torn |-> FALSE] \in Line
    BY <2>4, Zenon DEF Line
  <2>6. event' \in Line /\ pc' \in {"idle", "emit", "open", "deliver"}
    BY <2>3, <2>5 DEF TypeOK
  <2> QED
    BY <1>1, <2>2, <2>6 DEF Emit, TypeOK, drainVars
<1>2. CASE EmitSkips
  BY <1>2, EmitNextTypes DEF EmitSkips, TypeOK, Counts
<1>3. CASE EmitAppends
  <2> DEFINE q == Appended(Kept(cursor), event)
  <2>1. Kept(cursor) \in Seq(Line)
    BY <1>0, EmptyIs DEF Kept, TypeOK
  <2>2. q \in Seq(Line)
    BY <1>0, <2>1, AppendedIs
  <2>3. event.id \in 1 .. MaxEvents
    BY <1>0, <1>3 DEF EmitAppends, EventIsNew
  <2> HIDE DEF q
  <2>4. /\ outbox' = [outbox EXCEPT ![cursor] = q]
        /\ queued' = [queued EXCEPT ![cursor] = @ \cup {event.id}]
        /\ glued' = [glued EXCEPT ![cursor] = @ \cup ({event.id} \ Ids(q))]
        /\ shed' = [shed EXCEPT ![cursor] = @ \cup (Ids(outbox[cursor]) \ Ids(q))]
        /\ UNCHANGED count /\ EmitNext
    BY <1>3 DEF EmitAppends, q
  <2>5. shed' \in [Subs -> SUBSET (1 .. MaxEvents)]
    BY <1>0, <2>4, ShedTypes
  <2>6. outbox' \in [Subs -> Seq(Line)]
    BY <2>2, <2>4 DEF TypeOK
  <2>7. queued' \in [Subs -> SUBSET (1 .. MaxEvents)] /\ glued' \in [Subs -> SUBSET (1 .. MaxEvents)]
    BY <2>3, <2>4 DEF TypeOK
  <2> QED
    BY <2>4, <2>5, <2>6, <2>7, EmitNextTypes DEF TypeOK, Counts
<1>4. CASE EmitFails
  <2>1. /\ Kept(cursor) \in Seq(Line) /\ outbox[cursor] \in Seq(Line)
        /\ Appended(Kept(cursor), Torn(1)) \in Seq(Line)
    BY <1>0, EmptyIs, TornIsLine, AppendedIs DEF Kept, TypeOK
  <2>2. PICK q \in {outbox[cursor], Kept(cursor), Appended(Kept(cursor), Torn(1))} :
         /\ outbox' = [outbox EXCEPT ![cursor] = q]
         /\ shed' = [shed EXCEPT ![cursor] = @ \cup (Ids(outbox[cursor]) \ Ids(q))]
    BY <1>4 DEF EmitFails
  <2>3. outbox' \in [Subs -> Seq(Line)]
    BY <2>1, <2>2 DEF TypeOK
  <2>4. shed' \in [Subs -> SUBSET (1 .. MaxEvents)]
    BY <1>0, <2>2, ShedTypes
  <2>5. Counts' /\ EmitNext /\ UNCHANGED <<queued, glued>>
    BY <1>4 DEF EmitFails, Fault, Counts
  <2> QED
    BY <2>3, <2>4, <2>5, EmitNextTypes DEF TypeOK
<1>5. CASE StartDrain
  BY <1>5 DEF StartDrain, TypeOK, Counts, drainVars
<1>6. CASE SkipQueue
  <2>1. Counts'
    BY <1>6 DEF SkipQueue, Fault, Counts
  <2> QED
    BY <1>6, <2>1, DrainNextTypes, EmptyIs DEF SkipQueue, TypeOK
<1>7. CASE ClearQueue
  <2>1. shed' \in [Subs -> SUBSET (1 .. MaxEvents)]
    BY <1>0, <1>7, ShedTypes DEF ClearQueue
  <2>2. outbox' \in [Subs -> Seq(Line)]
    BY <1>7, EmptyIs DEF ClearQueue, TypeOK
  <2> QED
    BY <1>7, <2>1, <2>2, DrainNextTypes, EmptyIs DEF ClearQueue, TypeOK, Counts
<1>8. CASE OpenQueue
  <2>1. raw' \in Seq(Line) /\ pos' = 1
    BY <1>0, <1>8 DEF OpenQueue, TypeOK
  <2>2. Len(raw') \in Nat
    BY <2>1
  <2> QED
    <3>1. pos' <= Len(raw') + 1 /\ pos' \in Nat \ {0}
      BY <2>1, <2>2
    <3>2. stalled' \in BOOLEAN /\ pc' = "deliver" /\ raw' \in Seq(Line)
      BY <1>8, <2>1 DEF OpenQueue
    <3> QED
      BY <1>8, <3>1, <3>2 DEF OpenQueue, TypeOK, Counts
<1>9. CASE DropLine \/ Deliver \/ DeliveryFails
  <2>1. /\ pc = "deliver" /\ raw = outbox[cursor] /\ pos \in Nat \ {0} /\ pos <= Len(raw) /\ run > 0
        /\ raw \in Seq(Line)
    BY <1>9 DEF DropLine, Deliver, DeliveryFails, MoreToDeliver, PassedIsDone, TypeOK
  <2>2. raw[pos].id \in 0 .. MaxEvents /\ ({raw[pos].id} \ {0}) \subseteq Ids(outbox[cursor])
    <3>1. pos \in 1 .. Len(raw) /\ raw[pos] \in Line
      BY <2>1
    <3> QED
      <4>1. raw[pos].id \in 0 .. MaxEvents
        BY <3>1 DEF Line
      <4>2. outbox[cursor] \in Seq(Line)
        BY <2>1
      <4> QED
        BY <2>1, <3>1, <4>1, <4>2, IdsAre
  <2>3. CASE DropLine
    <3>1. shed' \in [Subs -> SUBSET (1 .. MaxEvents)]
      BY <1>0, <2>2, <2>3, ShedTypes DEF DropLine
    <3>2. pos' \in Nat \ {0} /\ pos' <= Len(raw) + 1 /\ run' \in 0 .. MaxRun
      BY <2>1, <2>3 DEF DropLine, TypeOK
    <3> QED
      BY <2>3, <3>1, <3>2 DEF DropLine, TypeOK, Counts
  <2>4. CASE Deliver \/ DeliveryFails
    <3>1. raw[pos].kind \in Kinds
      BY <1>0, <2>4 DEF Deliver, DeliveryFails, Undeliverable, TypeOK, Manifest
    <3>2. raw[pos].id # 0
      BY <1>0, <2>1, <3>1 DEF QueuesAreSorted, GoodQueue
    <3>3. raw[pos].id \in 1 .. MaxEvents
      BY <2>2, <3>2
    <3>4. received[cursor] \in Seq(1 .. MaxEvents)
      BY <1>0 DEF TypeOK
    <3>5. Append(received[cursor], raw[pos].id) \in Seq(1 .. MaxEvents)
      BY <3>3, <3>4
    <3>6. received' \in [Subs -> Seq(1 .. MaxEvents)]
      BY <2>4, <3>5 DEF Deliver, DeliveryFails, TypeOK
    <3>7. CASE Deliver
      <4>1. pos' \in Nat \ {0} /\ pos' <= Len(raw) + 1 /\ run' \in 0 .. MaxRun
        BY <2>1, <3>7 DEF Deliver, TypeOK
      <4> QED
        BY <3>6, <3>7, <4>1 DEF Deliver, TypeOK, Counts
    <3>8. CASE DeliveryFails
      <4>1. Counts'
        BY <3>8 DEF DeliveryFails, Fault, Counts
      <4> QED
        BY <3>6, <3>8, <4>1 DEF DeliveryFails, AfterFailure, TypeOK
    <3> QED
      BY <2>4, <3>7, <3>8
  <2> QED
    BY <1>9, <2>3, <2>4
<1>10. CASE FinishQueue
  <2>1. raw \in Seq(Line) /\ pos \in 1 .. Len(raw) + 1
    BY DEF TypeOK
  <2>2. From(raw, pos) \in Seq(Line)
    BY <2>1, FromIs
  <2>3. outbox' \in [Subs -> Seq(Line)]
    BY <1>10, <2>2 DEF FinishQueue, TypeOK
  <2>4. Counts'
    BY <1>10 DEF FinishQueue, Fault, Counts
  <2> QED
    BY <1>10, <2>3, <2>4, DrainNextTypes, EmptyIs DEF FinishQueue, TypeOK
<1>11. CASE EditManifest
  <2>1. Counts'
    BY <1>11 DEF EditManifest, Counts
  <2>2. manifest' \in [Subs -> Manifest]
    BY <1>11 DEF EditManifest, TypeOK
  <2> QED
    BY <1>11, <2>1, <2>2 DEF EditManifest, TypeOK, drainVars
<1>12. Declared \in [Subs -> SUBSET Kinds]
  BY DEF Declared, TypeOK, Manifest
<1>13. CASE refreshSubscriptions
  BY <1>12, <1>13 DEF refreshSubscriptions, TypeOK, Counts, drainVars
<1>14. CASE PowerCut
  <2>1. Counts'
    BY <1>14 DEF PowerCut, Fault, Counts
  <2> QED
    <3>1. pc' = "idle" /\ mask' = Declared /\ cursor' = 1 /\ event' = NoLine
      BY <1>14 DEF PowerCut
    <3>2. raw' = <<>> /\ pos' = 1 /\ run' = MaxRun /\ stalled' = FALSE
      BY <1>14 DEF PowerCut
    <3>3. UNCHANGED <<outbox, manifest, received, queued, glued, shed>>
      BY <1>14 DEF PowerCut
    <3>4. Len(raw') = 0
      BY <3>2, EmptyIs
    <3>5. pos' <= Len(raw') + 1 /\ pos' \in Nat \ {0}
      BY <3>2, <3>4
    <3>6. run' \in 0 .. MaxRun /\ raw' \in Seq(Line) /\ stalled' \in BOOLEAN
      <4>1. MaxRun \in 0 .. MaxRun
        OBVIOUS
      <4> QED
        BY <3>2, <4>1, EmptyIs
    <3>7. cursor' \in Subs /\ event' \in Line /\ mask' \in [Subs -> SUBSET Kinds]
      BY <1>12, <3>1, NoLineIsLine, EmptyIs
    <3> QED
      BY <2>1, <3>1, <3>3, <3>5, <3>6, <3>7 DEF TypeOK
<1> QED
  BY <1>1, <1>2, <1>3, <1>4, <1>5, <1>6, <1>7, <1>8, <1>9, <1>10, <1>11, <1>13, <1>14
     DEF Next, Drain

-----------------------------------------------------------------------------
(***************************************************************************)
(* Where emit() and drain() are.                                           *)
(***************************************************************************)
LEMMA EventStep == ASSUME IInv, Next PROVE EventIsNew'
<1>1. CASE Emit
  <2>1. count' = [count EXCEPT !.events = @ + 1] /\ count.events \in Nat
    BY <1>1 DEF Emit, IInv, Counts
  <2>2. PICK k \in Kinds, n \in Sizes :
          \/ UNCHANGED <<pc, event>> /\ pc = "idle"
          \/ event' = [id |-> count.events + 1, kind |-> k, size |-> n, torn |-> FALSE]
    BY <1>1 DEF Emit
  <2>3. count'.events = count.events + 1
    BY <2>1 DEF IInv, Counts
  <2> QED
    BY <2>1, <2>2, <2>3 DEF EventIsNew
<1>2. CASE EmitSkips \/ EmitAppends
  BY <1>2 DEF EmitSkips, EmitAppends, EmitNext, EventIsNew, IInv
<1>3. CASE EmitFails
  <2>1. count'.events = count.events
    BY <1>3 DEF EmitFails, Fault, IInv, Counts
  <2> QED
    BY <1>3, <2>1 DEF EmitFails, EmitNext, EventIsNew, IInv
<1>4. ASSUME pc' # "emit" PROVE EventIsNew'
  BY <1>4 DEF EventIsNew
<1> QED
  BY <1>1, <1>2, <1>3, <1>4
     DEF Next, Drain, StartDrain, SkipQueue, ClearQueue, OpenQueue, DropLine, Deliver,
         DeliveryFails, FinishQueue, DrainNext, EditManifest, refreshSubscriptions, PowerCut

(* Every step leaves the number of events alone, or is Emit.                 *)
LEMMA EventsStep == ASSUME IInv, Next PROVE Emit \/ count'.events = count.events
  BY DEF Next, Drain, EmitSkips, EmitAppends, EmitFails, StartDrain, SkipQueue, ClearQueue,
         OpenQueue, DropLine, Deliver, DeliveryFails, FinishQueue, EditManifest,
         refreshSubscriptions, PowerCut, Fault, IInv, Counts

(* The newest event a plugin can have met is never an older one than before, *)
(* and it is the event emit() has just been through with.                    *)
LEMMA NewestStep ==
  ASSUME IInv, Next, NEW s \in Subs
  PROVE  /\ Newest(s) \in Int /\ Newest(s)' \in Int /\ Newest(s) <= Newest(s)'
         /\ pc = "emit" /\ cursor = s => event.id > Newest(s)
         /\ (EmitAppends \/ EmitFails) /\ cursor = s => event.id <= Newest(s)'
<1>1. /\ count.events \in Nat /\ count'.events \in Nat /\ cursor \in Int /\ s \in Int
      /\ cursor \in 1 .. NumSubs
  BY TypesStep DEF IInv, Counts, TypeOK, Subs
<1>2. Newest(s) \in Int /\ Newest(s)' \in Int
  BY <1>1 DEF Newest
<1>3. pc = "emit" /\ cursor = s => event.id > Newest(s)
  BY <1>1 DEF Newest, IInv, EventIsNew
<1>4. CASE Emit
  <2>1. count'.events = count.events + 1 /\ pc = "idle"
    BY <1>4 DEF Emit, IInv, Counts
  <2> QED
    BY <1>1, <1>2, <1>3, <1>4, <2>1
       DEF Newest, Emit, EmitAppends, EmitFails
<1>5. CASE count'.events = count.events /\ pc = "emit"
  <2>1. CASE EmitNext
    <3>1. pc' # "emit" \/ cursor' = cursor + 1
      BY <2>1 DEF EmitNext
    <3>2. event.id = count.events
      BY <1>5 DEF IInv, EventIsNew
    <3> QED
      BY <1>1, <1>2, <1>3, <1>5, <3>1, <3>2 DEF Newest
  <2>2. CASE ~EmitNext
    <3>1. pc' # "emit"
      BY <1>5, <2>2 DEF Next, Drain, EmitSkips, EmitAppends, EmitFails, StartDrain, SkipQueue,
         ClearQueue, OpenQueue, DropLine, Deliver, DeliveryFails, FinishQueue, EditManifest,
         refreshSubscriptions, PowerCut, Emit
    <3> QED
      BY <1>1, <1>2, <1>3, <1>5, <2>2, <3>1 DEF Newest, EmitAppends, EmitFails
  <2> QED
    BY <2>1, <2>2
<1>6. CASE count'.events = count.events /\ pc # "emit" /\ ~Emit
  <2>1. pc' # "emit"
    BY <1>6 DEF Next, Drain, EmitSkips, EmitAppends, EmitFails, StartDrain, SkipQueue,
         ClearQueue, OpenQueue, DropLine, Deliver, DeliveryFails, FinishQueue, EditManifest,
         refreshSubscriptions, PowerCut, DrainNext
  <2> QED
    BY <1>1, <1>2, <1>3, <1>6, <2>1 DEF Newest, EmitAppends, EmitFails
<1> QED
  BY <1>4, <1>5, <1>6, EventsStep

LEMMA PassedStep == ASSUME IInv, Next PROVE PassedIsDone'
<1>0. cursor \in Subs /\ pos \in Nat
  BY DEF IInv, TypeOK
<1>1. CASE OpenQueue
  BY <1>1 DEF OpenQueue, PassedIsDone
<1>2. CASE DropLine
  <2>1. /\ pc = "deliver" /\ raw = outbox[cursor] /\ pos' = pos + 1
        /\ UNCHANGED <<raw, outbox, cursor, received, pc>>
        /\ shed' = [shed EXCEPT ![cursor] = @ \cup ({raw[pos].id} \ {0})]
    BY <1>2 DEF DropLine, IInv, PassedIsDone
  <2>2. shed'[cursor] = shed[cursor] \cup ({raw[pos].id} \ {0}) /\ Heard(cursor)' = Heard(cursor)
    BY <1>0, <2>1 DEF IInv, TypeOK, Heard
  <2>3. \A i \in 1 .. pos : i \in 1 .. pos - 1 \/ i = pos
    BY <1>0
  <2> QED
    BY <1>0, <2>1, <2>2, <2>3 DEF IInv, PassedIsDone
<1>3. CASE Deliver
  <2>1. /\ pc = "deliver" /\ raw = outbox[cursor] /\ pos' = pos + 1
        /\ UNCHANGED <<raw, outbox, cursor, shed, pc>>
        /\ received' = [received EXCEPT ![cursor] = Append(@, raw[pos].id)]
    BY <1>3 DEF Deliver, IInv, PassedIsDone
  <2>2. received[cursor] \in Seq(1 .. MaxEvents)
    BY <1>0 DEF IInv, TypeOK
  <2>3. Heard(cursor)' = Heard(cursor) \cup {raw[pos].id}
    <3>1. received'[cursor] = Append(received[cursor], raw[pos].id)
      BY <1>0, <2>1 DEF IInv, TypeOK
    <3> QED
      BY <2>1, <2>2, <3>1 DEF Heard
  <2>4. \A i \in 1 .. pos : i \in 1 .. pos - 1 \/ i = pos
    BY <1>0
  <2> QED
    BY <1>0, <2>1, <2>3, <2>4 DEF IInv, PassedIsDone
<1>4. CASE DeliveryFails
  <2>1. /\ pc = "deliver" /\ raw = outbox[cursor] /\ pos' = pos
        /\ UNCHANGED <<raw, outbox, cursor, shed, pc>>
        /\ \/ received' = received
           \/ received' = [received EXCEPT ![cursor] = Append(@, raw[pos].id)]
    BY <1>4 DEF DeliveryFails, AfterFailure, IInv, PassedIsDone
  <2>2. received[cursor] \in Seq(1 .. MaxEvents)
    BY <1>0 DEF IInv, TypeOK
  <2>3. Heard(cursor) \subseteq Heard(cursor)'
    <3>1. received'[cursor] \in {received[cursor], Append(received[cursor], raw[pos].id)}
      BY <1>0, <2>1 DEF IInv, TypeOK
    <3>2. CASE received'[cursor] = received[cursor]
      BY <2>1, <3>2 DEF Heard
    <3>3. CASE received'[cursor] = Append(received[cursor], raw[pos].id)
      BY <2>1, <2>2, <3>3 DEF Heard
    <3> QED
      BY <3>1, <3>2, <3>3
  <2> QED
    BY <1>0, <2>1, <2>3 DEF IInv, PassedIsDone
<1>5. ASSUME pc' # "deliver" PROVE PassedIsDone'
  BY <1>5 DEF PassedIsDone
<1> QED
  BY <1>1, <1>2, <1>3, <1>4, <1>5
     DEF Next, Drain, Emit, EmitSkips, EmitAppends, EmitFails, EmitNext, StartDrain, SkipQueue,
         ClearQueue, FinishQueue, DrainNext, EditManifest, refreshSubscriptions, PowerCut

-----------------------------------------------------------------------------
(***************************************************************************)
(* What a step does to the queue of a plugin, and to what its server has   *)
(* heard.                                                                  *)
(***************************************************************************)
LEMMA GoodIsMonotone ==
  ASSUME NEW q \in Seq(Line), NEW b \in Int, NEW c \in Int, b <= c, GoodQueue(q, b)
  PROVE  GoodQueue(q, c)
<1>1. \A i \in 1 .. Len(q) : q[i].id \in Int
  <2>1. \A i \in 1 .. Len(q) : q[i] \in Line
    OBVIOUS
  <2> QED
    BY <2>1 DEF Line
<1> QED
  BY <1>1 DEF GoodQueue

LEMMA KeptIs ==
  ASSUME IInv, NEW s \in Subs
  PROVE  Kept(s) \in Seq(Line) /\ GoodQueue(Kept(s), Newest(s)) /\ Ids(Kept(s)) \subseteq Ids(outbox[s])
  BY GoodEmpty DEF Kept, IInv, TypeOK, QueuesAreSorted

LEMMA AppendedIds ==
  ASSUME NEW q \in Seq(Line), NEW line \in Line
  PROVE  Ids(Appended(q, line)) \subseteq Ids(q) \cup ({line.id} \ {0})
<1> DEFINE a == Appended(q, line)
<1>1. /\ a \in Seq(Line)
      /\ \A i \in 1 .. Len(a) :
           \/ i \in 1 .. Len(q) /\ a[i] = q[i]
           \/ a[i] = line \/ a[i].id = 0
  BY AppendedIs
<1> HIDE DEF a
<1>2. Ids(a) \subseteq Ids(q) \cup ({line.id} \ {0})
  BY <1>1, IdsAre
<1> QED
  BY <1>2 DEF a

LEMMA HeardStep ==
  ASSUME IInv, Next, NEW s \in Subs
  PROVE  /\ shed[s] \subseteq shed'[s]
         /\ \/ received'[s] = received[s] /\ Heard(s)' = Heard(s)
            \/ /\ pc = "deliver" /\ cursor = s /\ UNCHANGED <<outbox, shed>> /\ pos \in 1 .. Len(raw)
               /\ received'[s] = Append(received[s], raw[pos].id)
               /\ Heard(s)' = Heard(s) \cup {raw[pos].id}
<1>0. cursor \in Subs /\ pos \in Nat \ {0} /\ raw \in Seq(Line)
  BY DEF IInv, TypeOK
<1>1. CASE Deliver \/ DeliveryFails
  <2>1. /\ pc = "deliver" /\ pos <= Len(raw) /\ UNCHANGED <<outbox, shed>>
        /\ \/ received' = received
           \/ received' = [received EXCEPT ![cursor] = Append(@, raw[pos].id)]
    BY <1>1 DEF Deliver, DeliveryFails, MoreToDeliver
  <2>2. received[s] \in Seq(1 .. MaxEvents)
    BY DEF IInv, TypeOK
  <2>3. CASE received'[s] = received[s]
    BY <2>1, <2>3 DEF Heard
  <2>4. CASE received'[s] # received[s]
    <3>1. cursor = s /\ received'[s] = Append(received[s], raw[pos].id)
      BY <1>0, <2>1, <2>4 DEF IInv, TypeOK
    <3>2. Heard(s)' = Heard(s) \cup {raw[pos].id}
      BY <2>2, <3>1 DEF Heard
    <3> QED
      BY <1>0, <2>1, <3>1, <3>2
  <2> QED
    BY <2>3, <2>4
<1>2. CASE ~(Deliver \/ DeliveryFails)
  <2>1. received' = received
    BY <1>2 DEF Next, Drain, Emit, EmitSkips, EmitAppends, EmitFails, EmitNext, StartDrain,
       SkipQueue, ClearQueue, OpenQueue, DropLine, FinishQueue, EditManifest,
       refreshSubscriptions, PowerCut
  <2>2. shed[s] \subseteq shed'[s]
    <3>1. \/ shed' = shed
          \/ \E S : shed' = [shed EXCEPT ![cursor] = @ \cup S]
      BY <1>2 DEF Next, Drain, Emit, EmitSkips, EmitAppends, EmitFails, StartDrain,
         SkipQueue, ClearQueue, OpenQueue, DropLine, FinishQueue, EditManifest,
         refreshSubscriptions, PowerCut
    <3> QED
      BY <1>0, <3>1 DEF IInv, TypeOK
  <2> QED
    BY <2>1, <2>2 DEF Heard
<1> QED
  BY <1>1, <1>2

LEMMA QueueStep ==
  ASSUME IInv, Next, NEW s \in Subs
  PROVE  /\ GoodQueue(outbox'[s], Newest(s)')
         /\ \A x \in Ids(outbox'[s]) :
              x \in Ids(outbox[s]) \/ (pc = "emit" /\ cursor = s /\ x = event.id)
         /\ \A x \in Ids(outbox[s]) : x \in Ids(outbox'[s]) \cup Heard(s)' \cup shed'[s]
<1>0. /\ cursor \in Subs /\ outbox \in [Subs -> Seq(Line)] /\ shed \in [Subs -> SUBSET (1 .. MaxEvents)]
      /\ GoodQueue(outbox[s], Newest(s)) /\ outbox[s] \in Seq(Line) /\ event \in Line
  BY DEF IInv, TypeOK, QueuesAreSorted
<1>n. Newest(s) \in Int /\ Newest(s)' \in Int /\ Newest(s) <= Newest(s)'
  BY NewestStep
<1>1. CASE outbox'[s] = outbox[s]
  BY <1>0, <1>1, <1>n, GoodIsMonotone
<1>2. CASE EmitAppends /\ cursor = s
  <2> DEFINE q == Appended(Kept(s), event)
  <2>1. outbox'[s] = q /\ shed'[s] = shed[s] \cup (Ids(outbox[s]) \ Ids(q)) /\ pc = "emit"
    BY <1>0, <1>2 DEF EmitAppends
  <2>2. event.id > Newest(s) /\ event.id <= Newest(s)' /\ event.id # 0
    BY <1>2, <2>1, NewestStep DEF IInv, EventIsNew
  <2>3. GoodQueue(q, Newest(s)')
    BY <1>0, <1>n, <2>2, KeptIs, GoodAppended
  <2>4. Ids(q) \subseteq Ids(outbox[s]) \cup {event.id}
    BY <1>0, KeptIs, AppendedIds
  <2> HIDE DEF q
  <2> QED
    BY <1>2, <2>1, <2>3, <2>4
<1>3. CASE EmitFails /\ cursor = s
  <2>1. PICK q \in {outbox[s], Kept(s), Appended(Kept(s), Torn(1))} :
          outbox'[s] = q /\ shed'[s] = shed[s] \cup (Ids(outbox[s]) \ Ids(q))
    BY <1>0, <1>3 DEF EmitFails
  <2>2. event.id <= Newest(s)' /\ event.id > 0
    BY <1>3, NewestStep DEF IInv, EventIsNew, EmitFails
  <2>3. GoodQueue(Appended(Kept(s), Torn(1)), Newest(s)')
    <3>1. event.id \in Int
      BY <1>0 DEF Line
    <3>2. 0 <= Newest(s)'
      BY <1>n, <2>2, <3>1
    <3> QED
      BY <1>n, <3>2, KeptIs, TornIsLine, GoodAppended
  <2>4. GoodQueue(Kept(s), Newest(s)') /\ GoodQueue(outbox[s], Newest(s)')
    BY <1>0, <1>n, KeptIs, GoodIsMonotone
  <2>5. Ids(Appended(Kept(s), Torn(1))) \subseteq Ids(outbox[s])
    BY KeptIs, TornIsLine, AppendedIds
  <2>6. GoodQueue(q, Newest(s)') /\ Ids(q) \subseteq Ids(outbox[s])
    BY <2>3, <2>4, <2>5, KeptIs
  <2> QED
    BY <2>1, <2>6
<1>4. CASE ClearQueue /\ cursor = s
  <2>1. outbox'[s] = <<>> /\ shed'[s] = shed[s] \cup Ids(outbox[s])
    BY <1>0, <1>4 DEF ClearQueue
  <2> QED
    BY <2>1, GoodEmpty
<1>5. CASE FinishQueue /\ cursor = s /\ outbox' = [outbox EXCEPT ![cursor] = From(raw, pos)]
  <2>1. /\ raw = outbox[s] /\ raw \in Seq(Line) /\ pos \in 1 .. Len(raw) + 1
        /\ UNCHANGED <<received, shed>> /\ outbox'[s] = From(raw, pos)
    BY <1>0, <1>5 DEF FinishQueue, IInv, PassedIsDone, TypeOK
  <2>2. GoodQueue(From(raw, pos), Newest(s)')
    BY <1>0, <1>n, <2>1, GoodFrom, GoodIsMonotone, FromIs
  <2>3. ASSUME NEW x \in Ids(raw) PROVE x \in Ids(From(raw, pos)) \cup Heard(s)' \cup shed'[s]
    <3>1. PICK i \in 1 .. Len(raw) : raw[i].id = x /\ x # 0
      BY <2>1, <2>3, IdsAre
    <3>2. CASE i <= pos - 1
      <4>1. x \in Heard(s) \cup shed[s]
        BY <1>5, <3>1, <3>2 DEF FinishQueue, IInv, PassedIsDone
      <4> QED
        BY <2>1, <4>1 DEF Heard
    <3>3. CASE i >= pos
      <4>1. i \in pos .. Len(raw)
        BY <2>1, <3>3
      <4>2. /\ From(raw, pos) \in Seq(Line) /\ i - pos + 1 \in 1 .. Len(From(raw, pos))
            /\ From(raw, pos)[i - pos + 1] = raw[i]
        BY <2>1, <4>1, FromIs
      <4> QED
        BY <3>1, <4>2, IdsAre
    <3> QED
      BY <2>1, <3>2, <3>3
  <2>4. Ids(From(raw, pos)) \subseteq Ids(raw)
    <3> DEFINE f == From(raw, pos)
    <3>1. /\ f \in Seq(Line)
          /\ \A i \in 1 .. Len(f) : pos + i - 1 \in pos .. Len(raw) /\ f[i] = raw[pos + i - 1]
      BY <2>1, FromIs
    <3> HIDE DEF f
    <3>2. \A i \in 1 .. Len(f) : \E j \in 1 .. Len(raw) : f[i] = raw[j]
      BY <2>1, <3>1
    <3>3. ASSUME NEW x \in Ids(f) PROVE x \in Ids(raw)
      <4>1. Ids(f) = {f[i].id : i \in 1 .. Len(f)} \ {0}
        BY <3>1, IdsAre
      <4>2. Ids(raw) = {raw[i].id : i \in 1 .. Len(raw)} \ {0}
        BY <2>1, IdsAre
      <4>3. PICK i \in 1 .. Len(f) : f[i].id = x /\ x # 0
        BY <3>3, <4>1
      <4>4. PICK j \in 1 .. Len(raw) : f[i] = raw[j]
        BY <3>2
      <4> QED
        BY <4>2, <4>3, <4>4
    <3> QED
      BY <3>3 DEF f
  <2> QED
    BY <2>1, <2>2, <2>3, <2>4
<1> QED
  <2>1. \/ outbox' = outbox
        \/ /\ EmitAppends \/ EmitFails \/ ClearQueue \/ FinishQueue
           /\ \E q : outbox' = [outbox EXCEPT ![cursor] = q]
           /\ FinishQueue => outbox' = [outbox EXCEPT ![cursor] = From(raw, pos)]
    BY DEF Next, Drain, Emit, EmitSkips, EmitAppends, EmitFails, StartDrain, SkipQueue,
       ClearQueue, OpenQueue, DropLine, Deliver, DeliveryFails, FinishQueue, EditManifest,
       refreshSubscriptions, PowerCut
  <2>2. cursor # s => outbox'[s] = outbox[s]
    BY <1>0, <2>1
  <2> QED
    BY <1>1, <1>2, <1>3, <1>4, <1>5, <2>1, <2>2

-----------------------------------------------------------------------------
(***************************************************************************)
(* The order of the deliveries, and that nothing is lost.                  *)
(***************************************************************************)
LEMMA HeardIs ==
  ASSUME TypeOK, NEW s \in Subs
  PROVE  Heard(s) \subseteq 1 .. MaxEvents /\ Range(received[s]) = Heard(s)
<1>1. received[s] \in Seq(1 .. MaxEvents)
  BY DEF TypeOK
<1>2. DOMAIN received[s] = 1 .. Len(received[s])
  BY <1>1
<1>3. \A i \in 1 .. Len(received[s]) : received[s][i] \in 1 .. MaxEvents
  BY <1>1
<1> QED
  BY <1>2, <1>3 DEF Heard, Range

LEMMA HeardIsStep ==
  ASSUME IInv, Next, NEW s \in Subs
  PROVE  Heard(s)' \subseteq 1 .. MaxEvents /\ Range(received'[s]) = Heard(s)'
<1>0. TypeOK'
  BY TypesStep DEF IInv
<1>1. received'[s] \in Seq(1 .. MaxEvents)
  BY <1>0 DEF TypeOK
<1>2. DOMAIN received'[s] = 1 .. Len(received'[s])
  BY <1>1
<1>3. \A i \in 1 .. Len(received'[s]) : received'[s][i] \in 1 .. MaxEvents
  BY <1>1
<1>4. Heard(s)' = {received'[s][i] : i \in 1 .. Len(received'[s])}
  BY DEF Heard
<1> QED
  BY <1>2, <1>3, <1>4 DEF Range

(* The line a server has just heard of.                                      *)
LEMMA HeardLine ==
  ASSUME IInv, pc = "deliver", pos \in 1 .. Len(raw)
  PROVE  /\ raw = outbox[cursor] /\ raw \in Seq(Line) /\ raw[pos].id <= Newest(cursor)
         /\ raw[pos].id # 0 => raw[pos].id \in Ids(outbox[cursor])
<1>1. raw = outbox[cursor] /\ raw \in Seq(Line) /\ cursor \in Subs
  BY DEF IInv, TypeOK, PassedIsDone
<1>2. GoodQueue(raw, Newest(cursor))
  BY <1>1 DEF IInv, QueuesAreSorted
<1> QED
  BY <1>1, <1>2, IdsAre DEF GoodQueue

LEMMA HeardAreOldStep == ASSUME IInv, Next PROVE HeardAreOld'
<1> SUFFICES ASSUME NEW s \in Subs, NEW x \in Heard(s)' PROVE x <= Newest(s)'
  BY DEF HeardAreOld
<1>1. Newest(s) \in Int /\ Newest(s)' \in Int /\ Newest(s) <= Newest(s)'
  BY NewestStep
<1>2. x \in Int
  <2>1. Heard(s)' \subseteq 1 .. MaxEvents
    BY HeardIsStep
  <2> QED
    BY <2>1
<1>3. CASE x \in Heard(s)
  BY <1>1, <1>2, <1>3 DEF IInv, HeardAreOld
<1>4. CASE x \notin Heard(s)
  BY <1>1, <1>2, <1>4, HeardStep, HeardLine
<1> QED
  BY <1>3, <1>4

LEMMA WaitingStep == ASSUME IInv, Next PROVE WaitingIsNewer'
<1> SUFFICES ASSUME NEW s \in Subs, NEW x \in Ids(outbox'[s]), x \notin Heard(s)', x \notin shed'[s],
                    NEW y \in Heard(s)'
             PROVE  y < x
  BY DEF WaitingIsNewer, Ids
<1>1. y \in 1 .. MaxEvents
  BY HeardIsStep
<1>2. x \notin Heard(s) /\ x \notin shed[s]
  BY HeardStep
<1>3. CASE y \in Heard(s)
  <2>1. CASE x \in Ids(outbox[s])
    BY <1>2, <1>3, <2>1 DEF IInv, WaitingIsNewer
  <2>2. CASE pc = "emit" /\ cursor = s /\ x = event.id
    <3>1. x > Newest(s) /\ y <= Newest(s) /\ Newest(s) \in Int
      BY <1>3, <2>2, NewestStep DEF IInv, HeardAreOld
    <3>2. x \in Int
      BY <2>2 DEF IInv, TypeOK, Line
    <3> QED
      BY <1>1, <3>1, <3>2
  <2> QED
    BY <2>1, <2>2, QueueStep
<1>4. CASE y \notin Heard(s)
  <2>1. /\ pc = "deliver" /\ cursor = s /\ outbox' = outbox /\ pos \in 1 .. Len(raw) /\ y = raw[pos].id
        /\ raw = outbox[s] /\ raw \in Seq(Line)
    BY <1>4, HeardStep, HeardLine
  <2>2. PICK i \in 1 .. Len(raw) : raw[i].id = x /\ x # 0
    BY <2>1, IdsAre
  <2>3. i > pos
    <3>1. ~(i <= pos - 1)
      BY <1>2, <2>1, <2>2 DEF IInv, PassedIsDone
    <3>2. i # pos
      BY <1>4, <2>1, <2>2, HeardStep
    <3> QED
      BY <2>1, <2>2, <3>1, <3>2
  <2>4. GoodQueue(raw, Newest(s))
    BY <2>1 DEF IInv, QueuesAreSorted
  <2> QED
    BY <1>1, <2>1, <2>2, <2>3, <2>4 DEF GoodQueue
<1> QED
  BY <1>3, <1>4

LEMMA LostStep == ASSUME IInv, Next PROVE NothingIsLost'
<1> SUFFICES ASSUME NEW s \in Subs, NEW x \in queued'[s], x \notin glued'[s]
             PROVE  x \in Ids(outbox'[s]) \cup Heard(s)' \cup shed'[s]
  <2>1. ASSUME NEW s \in Subs PROVE Range(received'[s]) = Heard(s)'
    BY HeardIsStep
  <2> QED
    BY <2>1 DEF NothingIsLost, Ids
<1>0. /\ cursor \in Subs /\ queued \in [Subs -> SUBSET (1 .. MaxEvents)]
      /\ glued \in [Subs -> SUBSET (1 .. MaxEvents)] /\ outbox \in [Subs -> Seq(Line)]
  BY DEF IInv, TypeOK
<1>1. glued[s] \subseteq glued'[s]
  <2>1. \/ glued' = glued
        \/ \E S : glued' = [glued EXCEPT ![cursor] = @ \cup S]
    BY DEF Next, Drain, Emit, EmitSkips, EmitAppends, EmitFails, StartDrain, SkipQueue,
       ClearQueue, OpenQueue, DropLine, Deliver, DeliveryFails, FinishQueue, EditManifest,
       refreshSubscriptions, PowerCut
  <2> QED
    BY <1>0, <2>1
<1>2. CASE x \in queued[s]
  <2>1. x \in Ids(outbox[s]) \cup Heard(s) \cup shed[s]
    BY <1>1, <1>2, HeardIs DEF IInv, NothingIsLost
  <2> QED
    BY <2>1, QueueStep, HeardStep
<1>3. CASE x \notin queued[s]
  <2>1. EmitAppends
    BY <1>3 DEF Next, Drain, Emit, EmitSkips, EmitFails, StartDrain, SkipQueue,
       ClearQueue, OpenQueue, DropLine, Deliver, DeliveryFails, FinishQueue, EditManifest,
       refreshSubscriptions, PowerCut
  <2> DEFINE q == Appended(Kept(cursor), event)
  <2>2. /\ outbox' = [outbox EXCEPT ![cursor] = q]
        /\ queued' = [queued EXCEPT ![cursor] = @ \cup {event.id}]
        /\ glued' = [glued EXCEPT ![cursor] = @ \cup ({event.id} \ Ids(q))]
    BY <2>1 DEF EmitAppends
  <2> HIDE DEF q
  <2>3. cursor = s /\ x = event.id
    BY <1>0, <1>3, <2>2
  <2>4. outbox'[s] = q /\ glued'[s] = glued[s] \cup ({event.id} \ Ids(q))
    BY <1>0, <2>2, <2>3
  <2> QED
    BY <2>3, <2>4
<1> QED
  BY <1>2, <1>3

LEMMA OrderStep == ASSUME IInv, Next PROVE DeliveredInOrder'
<1> SUFFICES ASSUME NEW s \in Subs, NEW i \in DOMAIN received'[s], received'[s][i] \notin shed'[s],
                    \A j \in 1 .. i - 1 : received'[s][j] # received'[s][i],
                    NEW j \in 1 .. i - 1
             PROVE  received'[s][j] < received'[s][i]
  BY DEF DeliveredInOrder
<1>1. received[s] \in Seq(1 .. MaxEvents) /\ shed[s] \subseteq shed'[s]
  BY HeardStep DEF IInv, TypeOK
<1> DEFINE r == received[s]
<1>2. DOMAIN r = 1 .. Len(r) /\ Len(r) \in Nat
  BY <1>1
<1>3. CASE received'[s] = r
  BY <1>1, <1>2, <1>3 DEF IInv, DeliveredInOrder
<1>4. CASE received'[s] # r
  <2> DEFINE e == raw[pos].id
  <2>1. /\ pc = "deliver" /\ cursor = s /\ UNCHANGED <<outbox, shed>> /\ pos \in 1 .. Len(raw)
        /\ received'[s] = Append(r, e)
    BY <1>4, HeardStep
  <2>2. e \in 1 .. MaxEvents /\ e \in Ids(outbox[s])
    <3>1. e \in Heard(s)'
      BY <1>4, HeardStep
    <3>2. Heard(s)' \subseteq 1 .. MaxEvents
      BY HeardIsStep
    <3>3. e # 0
      BY <3>1, <3>2
    <3> QED
      BY <2>1, <3>1, <3>2, <3>3, HeardLine
  <2> HIDE DEF e
  <2>3. /\ DOMAIN received'[s] = 1 .. Len(r) + 1 /\ received'[s][Len(r) + 1] = e
        /\ \A k \in 1 .. Len(r) : received'[s][k] = r[k]
    BY <1>1, <2>1, <2>2
  <2> HIDE DEF r
  <2>4. CASE i \in 1 .. Len(r)
    <3>1. \A k \in 1 .. i : k \in 1 .. Len(r) /\ received'[s][k] = r[k]
      BY <1>2, <2>3, <2>4
    <3>2. i \in DOMAIN r /\ r[i] \notin shed[s] /\ \A k \in 1 .. i - 1 : r[k] # r[i]
      BY <1>1, <1>2, <2>4, <3>1
    <3>3. r[j] < r[i]
      BY <3>2 DEF IInv, DeliveredInOrder, r
    <3> QED
      BY <2>4, <3>1, <3>3
  <2>5. CASE i = Len(r) + 1
    <3>1. \A k \in 1 .. Len(r) : r[k] # e /\ k \in 1 .. i - 1
      BY <1>2, <2>3, <2>5
    <3>2. Heard(s) = {r[k] : k \in 1 .. Len(r)}
      BY DEF Heard, r
    <3>3. e \notin Heard(s) /\ e \notin shed[s]
      BY <2>1, <2>3, <2>5, <3>1, <3>2
    <3>4. j \in 1 .. Len(r) /\ r[j] \in Heard(s)
      BY <1>2, <2>5, <3>2
    <3>5. r[j] < e
      BY <2>2, <3>3, <3>4 DEF IInv, WaitingIsNewer
    <3> QED
      BY <2>3, <2>5, <3>4, <3>5
  <2> QED
    BY <1>2, <2>3, <2>4, <2>5
<1> QED
  BY <1>3, <1>4

-----------------------------------------------------------------------------
(***************************************************************************)
(* The invariant and the theorems.                                         *)
(***************************************************************************)
LEMMA InitInvariant == Init => IInv
<1> SUFFICES ASSUME Init PROVE IInv
  OBVIOUS
<1>1. TypeOK
  <2>1. /\ outbox \in [Subs -> Seq(Line)] /\ raw \in Seq(Line) /\ event \in Line
        /\ received \in [Subs -> Seq(1 .. MaxEvents)]
    BY EmptyIs, NoLineIsLine DEF Init
  <2>2. manifest \in [Subs -> Manifest] /\ mask \in [Subs -> SUBSET Kinds]
    BY DEF Init, Manifest
  <2>3. pos \in Nat \ {0} /\ pos <= Len(raw) + 1 /\ run \in 0 .. MaxRun /\ cursor \in Subs
    BY EmptyIs DEF Init
  <2>4. /\ queued \in [Subs -> SUBSET (1 .. MaxEvents)] /\ glued \in [Subs -> SUBSET (1 .. MaxEvents)]
        /\ shed \in [Subs -> SUBSET (1 .. MaxEvents)]
    BY DEF Init
  <2> QED
    BY <2>1, <2>2, <2>3, <2>4 DEF Init, TypeOK
<1>2. Counts
  <2>1. 0 \in 0 .. MaxEvents /\ 0 \in Nat /\ count = [events |-> 0, faults |-> 0, edits |-> 0]
    BY DEF Init
  <2> QED
    BY <2>1, Zenon DEF Counts
<1>3. EventIsNew /\ PassedIsDone
  BY DEF Init, EventIsNew, PassedIsDone
<1>4. \A s \in Subs : outbox[s] = <<>> /\ received[s] = <<>> /\ queued[s] = {} /\ Heard(s) = {}
  BY DEF Init, Heard
<1>5. QueuesAreSorted
  BY <1>4, GoodEmpty DEF QueuesAreSorted
<1>6. HeardAreOld /\ WaitingIsNewer
  BY <1>4 DEF HeardAreOld, WaitingIsNewer
<1>7. NothingIsLost /\ DeliveredInOrder
  BY <1>4 DEF NothingIsLost, DeliveredInOrder
<1> QED
  BY <1>1, <1>2, <1>3, <1>5, <1>6, <1>7 DEF IInv

LEMMA NextInvariant == IInv /\ [Next]_vars => IInv'
<1> SUFFICES ASSUME IInv, [Next]_vars PROVE IInv'
  OBVIOUS
<1>1. CASE Next
  <2>1. QueuesAreSorted'
    BY <1>1, QueueStep DEF QueuesAreSorted
  <2>2. TypeOK' /\ Counts'
    BY <1>1, TypesStep DEF IInv
  <2> QED
    BY <1>1, <2>1, <2>2, EventStep, PassedStep, HeardAreOldStep, WaitingStep, LostStep, OrderStep
       DEF IInv
<1>2. CASE UNCHANGED vars
  <2>1. /\ UNCHANGED <<outbox, mask, manifest, pc, cursor, event, raw, pos, run, stalled>>
        /\ UNCHANGED <<received, queued, glued, shed, count>>
    BY <1>2 DEF vars
  <2>2. TypeOK' /\ Counts' /\ EventIsNew'
    BY <2>1 DEF IInv, TypeOK, Counts, EventIsNew
  <2>3. \A s : Newest(s)' = Newest(s) /\ Heard(s)' = Heard(s)
    BY <2>1 DEF Newest, Heard
  <2>4. QueuesAreSorted' /\ HeardAreOld' /\ PassedIsDone' /\ WaitingIsNewer'
    BY <2>1, <2>3 DEF IInv, QueuesAreSorted, HeardAreOld, PassedIsDone, WaitingIsNewer
  <2>5. NothingIsLost' /\ DeliveredInOrder'
    BY <2>1 DEF IInv, NothingIsLost, DeliveredInOrder
  <2> QED
    BY <2>2, <2>4, <2>5 DEF IInv
<1> QED
  BY <1>1, <1>2

(* The queues and what the servers have heard of fit together at all times.  *)
THEOREM Invariance == Spec => []IInv
<1> QED
  BY InitInvariant, NextInvariant, PTL DEF Spec

(* Every queue, cursor and history has its type, whatever fails.             *)
THEOREM TypeCorrect == Spec => []TypeOK
<1>1. IInv => TypeOK
  BY DEF IInv
<1> QED
  BY Invariance, <1>1, PTL

(* For any number of plugins, events and failures: an event appended in full *)
(* is queued, delivered or dropped on purpose, and a server hears of the     *)
(* events in their order the first time it hears of them.                    *)
THEOREM Reliable == Spec => []DeliveryIsReliable
<1>1. IInv => DeliveryIsReliable
  BY DEF IInv, DeliveryIsReliable
<1> QED
  BY Invariance, <1>1, PTL

-----------------------------------------------------------------------------
(***************************************************************************)
(* The size of an outbox.                                                  *)
(***************************************************************************)
(* The equation Bytes is defined by, up to the first m lines.                *)
IsBytes(f, q, m) == f = [n \in 0 .. m |-> IF n = 0 THEN 0 ELSE f[n - 1] + q[n].size]

(* A set of natural numbers without a first one is empty: this is the        *)
(* induction the lemmas about a file's size go by.                           *)
LEMMA NoFirst ==
  ASSUME NEW T \in SUBSET Nat, \A n \in T : \E k \in T : k < n
  PROVE  T = {}
<1> DEFINE Less == {ss \in Nat \X Nat : ss[1] < ss[2]}
<1>1. IsWellFoundedOn(Less, Nat)
  BY NatLessThanWellFounded, Zenon DEF OpToRel
<1>2. \A k, n \in Nat : k < n => <<k, n>> \in Less
  OBVIOUS
<1> HIDE DEF Less
<1>3. T # {} => \E n \in T : \A k \in T : ~ (<<k, n>> \in Less)
  BY <1>1, WFMin
<1> QED
  BY <1>2, <1>3

LEMMA BytesExist ==
  ASSUME NEW q
  PROVE  \A m \in Nat : \E f : IsBytes(f, q, m)
<1> DEFINE T == {m \in Nat : ~ \E f : IsBytes(f, q, m)}
<1>1. ASSUME NEW m \in T PROVE \E k \in T : k < m
  <2>1. m # 0
    <3>1. IsBytes([n \in 0 .. 0 |-> 0], q, 0)
      BY DEF IsBytes
    <3> QED
      BY <3>1
  <2>2. m - 1 \in Nat /\ m \in Nat
    BY <2>1
  <2>3. ASSUME NEW f, IsBytes(f, q, m - 1) PROVE FALSE
    <3> DEFINE g == [n \in 0 .. m |-> IF n = m THEN f[m - 1] + q[m].size ELSE f[n]]
    <3>1. ASSUME NEW n \in 0 .. m PROVE g[n] = IF n = 0 THEN 0 ELSE g[n - 1] + q[n].size
      <4>1. n = 0 => g[n] = f[0] /\ f[0] = 0
        BY <2>1, <2>2, <2>3 DEF IsBytes
      <4>2. n # 0 => n - 1 \in 0 .. m - 1 /\ g[n - 1] = f[n - 1]
        BY <2>2
      <4>3. n # 0 /\ n # m => n \in 0 .. m - 1 /\ g[n] = f[n] /\ f[n] = f[n - 1] + q[n].size
        BY <2>2, <2>3 DEF IsBytes
      <4>4. n = m => g[n] = f[n - 1] + q[n].size
        OBVIOUS
      <4> QED
        BY <4>1, <4>2, <4>3, <4>4
    <3>2. g = [n \in 0 .. m |-> g[n]]
      OBVIOUS
    <3> HIDE DEF g
    <3>3. IsBytes(g, q, m)
      BY <3>1, <3>2 DEF IsBytes
    <3> QED
      BY <3>3
  <2>4. ~ \E f : IsBytes(f, q, m - 1)
    BY <2>3
  <2>5. m - 1 \in T /\ m - 1 < m
    BY <2>2, <2>4
  <2> HIDE DEF T
  <2> QED
    BY <2>5
<1>2. T = {}
  <2>1. T \in SUBSET Nat
    OBVIOUS
  <2> HIDE DEF T
  <2> QED
    BY <1>1, <2>1, NoFirst
<1> QED
  BY <1>2

(* The equation holds, and the sums are numbers.                             *)
LEMMA BytesAre ==
  ASSUME NEW q \in Seq(Line)
  PROVE  /\ Bytes(q)[0] = 0
         /\ \A n \in 1 .. Len(q) : Bytes(q)[n] = Bytes(q)[n - 1] + q[n].size
         /\ \A n \in 0 .. Len(q) : Bytes(q)[n] \in Nat
<1> DEFINE b == Bytes(q)
<1>1. Len(q) \in Nat
  OBVIOUS
<1>2. IsBytes(b, q, Len(q))
  <2>1. \E f : IsBytes(f, q, Len(q))
    BY <1>1, BytesExist
  <2>2. b = CHOOSE f : IsBytes(f, q, Len(q))
    BY DEF Bytes, IsBytes
  <2> QED
    BY <2>1, <2>2
<1> HIDE DEF b
<1>3. /\ b[0] = 0
      /\ \A n \in 1 .. Len(q) : b[n] = b[n - 1] + q[n].size
  BY <1>1, <1>2 DEF IsBytes
<1>4. \A n \in 1 .. Len(q) : q[n].size \in Nat
  <2>1. \A n \in 1 .. Len(q) : q[n] \in Line
    OBVIOUS
  <2> QED
    BY <2>1 DEF Line
<1> DEFINE T == {n \in 0 .. Len(q) : b[n] \notin Nat}
<1>5. ASSUME NEW n \in T PROVE \E k \in T : k < n
  <2>1. n # 0
    BY <1>3
  <2>2. n \in 1 .. Len(q) /\ n - 1 \in 0 .. Len(q) /\ n - 1 < n
    BY <1>1, <2>1
  <2>3. b[n - 1] \notin Nat
    BY <1>3, <1>4, <2>2
  <2> QED
    BY <2>2, <2>3
<1>6. T = {}
  <2>1. T \in SUBSET Nat
    BY <1>1
  <2> HIDE DEF T
  <2> QED
    BY <1>5, <2>1, NoFirst
<1>7. \A n \in 0 .. Len(q) : b[n] \in Nat
  BY <1>6
<1> QED
  BY <1>3, <1>7 DEF b

(* Two files with the same lines from some place on grow alike from there.   *)
LEMMA BytesShift ==
  ASSUME NEW q \in Seq(Line), NEW p \in Seq(Line), NEW d \in 0 .. Len(q), NEW m \in 0 .. Len(p),
         d + m <= Len(q), \A i \in 1 .. m : p[i] = q[d + i]
  PROVE  \A n \in 0 .. m : Bytes(q)[d + n] = Bytes(q)[d] + Bytes(p)[n]
<1> DEFINE b == Bytes(q)
           c == Bytes(p)
           T == {n \in 0 .. m : b[d + n] # b[d] + c[n]}
<1>1. Len(q) \in Nat /\ Len(p) \in Nat /\ m \in Nat /\ d \in Nat
  OBVIOUS
<1>2. /\ \A n \in 1 .. Len(q) : b[n] = b[n - 1] + q[n].size
      /\ \A n \in 0 .. Len(q) : b[n] \in Nat
  BY BytesAre
<1>3. /\ c[0] = 0
      /\ \A n \in 1 .. Len(p) : c[n] = c[n - 1] + p[n].size
      /\ \A n \in 0 .. Len(p) : c[n] \in Nat
  BY BytesAre
<1>4. \A n \in 1 .. Len(p) : p[n].size \in Nat
  <2>1. \A n \in 1 .. Len(p) : p[n] \in Line
    OBVIOUS
  <2> QED
    BY <2>1 DEF Line
<1> HIDE DEF b, c
<1>5. ASSUME NEW n \in T PROVE \E k \in T : k < n
  <2>1. n # 0
    BY <1>1, <1>2, <1>3
  <2>2. n \in 1 .. m /\ n - 1 \in 0 .. m /\ n - 1 < n
    BY <1>1, <2>1
  <2>3. b[d + n] = b[d + (n - 1)] + p[n].size
    <3>1. d + n \in 1 .. Len(q) /\ d + n - 1 = d + (n - 1)
      BY <1>1, <2>2
    <3>2. p[n] = q[d + n]
      BY <2>2
    <3> QED
      BY <1>2, <3>1, <3>2
  <2>4. c[n] = c[n - 1] + p[n].size
    BY <1>1, <1>3, <2>2
  <2>5. b[d] \in Nat /\ c[n - 1] \in Nat /\ p[n].size \in Nat /\ b[d + n] # b[d] + c[n]
    BY <1>1, <1>2, <1>3, <1>4, <2>2
  <2>6. b[d + (n - 1)] # b[d] + c[n - 1]
    <3>1. ASSUME b[d + (n - 1)] = b[d] + c[n - 1] PROVE FALSE
      <4>1. b[d + n] = (b[d] + c[n - 1]) + p[n].size
        BY <2>3, <3>1
      <4>2. (b[d] + c[n - 1]) + p[n].size = b[d] + (c[n - 1] + p[n].size)
        BY <2>5
      <4> QED
        BY <2>4, <2>5, <4>1, <4>2
    <3> QED
      BY <3>1
  <2>7. n - 1 \in T
    BY <2>2, <2>6
  <2> HIDE DEF T
  <2> QED
    BY <2>2, <2>7
<1>6. T = {}
  <2>1. T \in SUBSET Nat
    BY <1>1
  <2> HIDE DEF T
  <2> QED
    BY <1>5, <2>1, NoFirst
<1>7. \A n \in 0 .. m : b[d + n] = b[d] + c[n]
  BY <1>6
<1> QED
  BY <1>7 DEF b, c

LEMMA SizeIs ==
  ASSUME NEW q \in Seq(Line)
  PROVE  FileSize(q) \in Nat /\ FileSize(q) = Bytes(q)[Len(q)]
<1>1. Len(q) \in 0 .. Len(q)
  OBVIOUS
<1> QED
  BY <1>1, BytesAre DEF FileSize

LEMMA SizeOfEmpty == FileSize(<<>>) = 0
  BY EmptyIs, BytesAre DEF FileSize

(* Files that share all but the last line differ by the size of that one.    *)
LEMMA SizeOfLast ==
  ASSUME NEW q \in Seq(Line), NEW m \in Nat, m + 1 = Len(q), NEW p \in Seq(Line), m <= Len(p),
         \A i \in 1 .. m : q[i] = p[i]
  PROVE  FileSize(q) = Bytes(p)[m] + q[m + 1].size
<1>1. m \in 0 .. Len(q) /\ m \in 0 .. Len(p) /\ 0 \in 0 .. Len(p)
  OBVIOUS
<1>2. \A n \in 0 .. m : Bytes(p)[0 + n] = Bytes(p)[0] + Bytes(q)[n]
  <2>1. \A i \in 1 .. m : q[i] = p[0 + i]
    OBVIOUS
  <2>2. 0 + m <= Len(p)
    OBVIOUS
  <2> QED
    BY <1>1, <2>1, <2>2, BytesShift
<1>3. Bytes(p)[0 + m] = Bytes(p)[0] + Bytes(q)[m] /\ 0 + m = m
  BY <1>1, <1>2
<1>4. Bytes(p)[0] = 0 /\ Bytes(q)[m] \in Nat
  BY <1>1, BytesAre
<1>5. m + 1 \in 1 .. Len(q) /\ m + 1 - 1 = m
  OBVIOUS
<1>6. Bytes(q)[m + 1] = Bytes(q)[m + 1 - 1] + q[m + 1].size
  BY <1>5, BytesAre
<1> QED
  BY <1>3, <1>4, <1>5, <1>6 DEF FileSize

(* A line is added to the file, glued or not.                                *)
LEMMA SizeOfAppended ==
  ASSUME NEW q \in Seq(Line), NEW line \in Line
  PROVE  FileSize(Appended(q, line)) = FileSize(q) + line.size
<1> DEFINE a == Appended(q, line)
<1>0. line.size \in Nat /\ \A i \in 1 .. Len(q) : q[i].size \in Nat
  <2>1. \A i \in 1 .. Len(q) : q[i] \in Line
    OBVIOUS
  <2> QED
    BY <2>1 DEF Line
<1>1. CASE q # <<>> /\ Last(q).torn
  <2>1. Len(q) \in Nat /\ Len(q) > 0 /\ Last(q) = q[Len(q)]
    BY <1>1 DEF Last
  <2>2. PICK n \in Nat : n = Len(q) - 1
    BY <2>1
  <2> DEFINE glue == [NoLine EXCEPT !.size = q[Len(q)].size + line.size]
  <2>3. glue.size = q[n + 1].size + line.size /\ n + 1 = Len(q)
    BY <2>1, <2>2 DEF NoLine
  <2>4. a = Append(SubSeq(q, 1, n), glue)
    BY <1>1, <2>1, <2>2 DEF Appended, Front
  <2> HIDE DEF glue
  <2>5. /\ SubSeq(q, 1, n) \in Seq(Line) /\ Len(SubSeq(q, 1, n)) = n
        /\ \A i \in 1 .. n : SubSeq(q, 1, n)[i] = q[i]
    BY <2>2, FrontIs
  <2>6. a \in Seq(Line)
    BY AppendedIs
  <2>7. Len(a) = n + 1 /\ a[n + 1] = glue /\ \A i \in 1 .. n : a[i] = q[i]
    BY <2>4, <2>5
  <2> HIDE DEF a
  <2>8. FileSize(a) = Bytes(q)[n] + a[n + 1].size
    BY <2>2, <2>3, <2>6, <2>7, SizeOfLast
  <2>9. FileSize(q) = Bytes(q)[n] + q[n + 1].size
    <3>1. n + 1 = Len(q) /\ n <= Len(q) /\ \A i \in 1 .. n : q[i] = q[i]
      BY <2>1, <2>2
    <3> QED
      BY <3>1, SizeOfLast
  <2>10. Bytes(q)[n] \in Nat /\ q[n + 1].size \in Nat
    <3>1. n \in 0 .. Len(q) /\ n + 1 \in 1 .. Len(q)
      BY <2>1, <2>2
    <3> QED
      BY <1>0, <3>1, BytesAre
  <2>11. FileSize(a) = FileSize(q) + line.size
    BY <1>0, <2>3, <2>7, <2>8, <2>9, <2>10
  <2> QED
    BY <2>11 DEF a
<1>2. CASE ~(q # <<>> /\ Last(q).torn)
  <2>1. a = Append(q, line) /\ Len(q) \in Nat
    BY <1>2 DEF Appended
  <2>2. a \in Seq(Line)
    BY AppendedIs
  <2>3. Len(a) = Len(q) + 1 /\ a[Len(q) + 1] = line /\ \A i \in 1 .. Len(q) : a[i] = q[i]
    BY <2>1
  <2> HIDE DEF a
  <2>4. FileSize(a) = Bytes(q)[Len(q)] + a[Len(q) + 1].size
    <3>1. PICK m \in Nat : m = Len(q)
      BY <2>1
    <3>2. m + 1 = Len(a) /\ m <= Len(q) /\ \A i \in 1 .. m : a[i] = q[i]
      BY <2>3, <3>1
    <3> QED
      BY <2>2, <3>1, <3>2, SizeOfLast
  <2>5. FileSize(a) = FileSize(q) + line.size
    BY <2>3, <2>4, SizeIs
  <2> QED
    BY <2>5 DEF a
<1> QED
  BY <1>1, <1>2

(* What is written back is no longer than what was read.                     *)
LEMMA SizeOfRest ==
  ASSUME NEW q \in Seq(Line), NEW k \in 1 .. Len(q) + 1
  PROVE  FileSize(From(q, k)) <= FileSize(q)
<1> DEFINE f == From(q, k)
<1>1. PICK d \in 0 .. Len(q) : k = d + 1
  <2>1. k - 1 \in 0 .. Len(q) /\ k = (k - 1) + 1
    OBVIOUS
  <2> QED
    BY <2>1
<1>2. /\ f \in Seq(Line) /\ Len(f) = Len(q) - k + 1
      /\ \A i \in 1 .. Len(f) : f[i] = q[k + i - 1]
  BY FromIs
<1> HIDE DEF f
<1>3. Len(f) \in Nat /\ d + Len(f) = Len(q) /\ Len(f) \in 0 .. Len(f) /\ Len(q) \in Nat
  BY <1>1, <1>2
<1>4. \A i \in 1 .. Len(f) : f[i] = q[d + i]
  <2>1. \A i \in 1 .. Len(f) : k + i - 1 = d + i
    BY <1>1, <1>3
  <2> QED
    BY <1>2, <2>1
<1>5. \A n \in 0 .. Len(f) : Bytes(q)[d + n] = Bytes(q)[d] + Bytes(f)[n]
  <2>1. PICK m \in 0 .. Len(f) : m = Len(f)
    BY <1>3
  <2>2. d + m <= Len(q) /\ \A i \in 1 .. m : f[i] = q[d + i]
    BY <1>3, <1>4, <2>1
  <2>3. \A n \in 0 .. m : Bytes(q)[d + n] = Bytes(q)[d] + Bytes(f)[n]
    BY <1>2, <2>2, BytesShift
  <2> QED
    BY <2>1, <2>3
<1>6. FileSize(q) = Bytes(q)[d] + FileSize(f)
  BY <1>2, <1>3, <1>5, SizeIs
<1>7. Bytes(q)[d] \in Nat /\ FileSize(f) \in Nat
  BY <1>1, <1>2, BytesAre, SizeIs
<1>8. FileSize(f) <= FileSize(q)
  BY <1>6, <1>7
<1> QED
  BY <1>8 DEF f

(* The line emit() is about to append is not too long.                       *)
EventFits == pc = "emit" => event.size <= LineMax

SizeInv == OutboxStaysReadable /\ EventFits

LEMMA FitsStep == ASSUME IInv, EventFits, Next PROVE EventFits'
<1>1. CASE Emit
  <2>1. PICK k \in Kinds, n \in Sizes :
          IF n > LineMax
          THEN UNCHANGED <<pc, event>> /\ pc = "idle"
          ELSE event' = [id |-> count.events + 1, kind |-> k, size |-> n, torn |-> FALSE]
    BY <1>1 DEF Emit
  <2>2. n \in Nat
    OBVIOUS
  <2> QED
    BY <2>1, <2>2 DEF EventFits
<1>2. CASE EmitSkips \/ EmitAppends \/ EmitFails
  BY <1>2 DEF EmitSkips, EmitAppends, EmitFails, EmitNext, EventFits
<1>3. ASSUME pc' # "emit" PROVE EventFits'
  BY <1>3 DEF EventFits
<1> QED
  BY <1>1, <1>2, <1>3
     DEF Next, Drain, StartDrain, SkipQueue, ClearQueue, OpenQueue, DropLine, Deliver,
         DeliveryFails, FinishQueue, DrainNext, EditManifest, refreshSubscriptions, PowerCut

(* An outbox over the cap is emptied before a line that fits is added to it. *)
LEMMA SizeStep ==
  ASSUME IInv, SizeInv, Next
  PROVE  OutboxStaysReadable'
<1> SUFFICES ASSUME NEW s \in Subs PROVE FileSize(outbox'[s]) <= Cap + LineMax
  BY DEF OutboxStaysReadable, FileSize, Bytes
<1>0. /\ cursor \in Subs /\ outbox \in [Subs -> Seq(Line)] /\ event \in Line
      /\ FileSize(outbox[s]) <= Cap + LineMax
  BY DEF IInv, TypeOK, SizeInv, OutboxStaysReadable
<1>1. /\ Kept(s) \in Seq(Line) /\ FileSize(Kept(s)) \in Nat /\ FileSize(Kept(s)) <= Cap
  <2>1. outbox[s] \in Seq(Line) /\ <<>> \in Seq(Line)
    BY <1>0, EmptyIs
  <2> QED
    BY <2>1, SizeIs, SizeOfEmpty DEF Kept, OverCap
<1>2. CASE outbox'[s] = outbox[s]
  BY <1>0, <1>2
<1>3. CASE EmitAppends /\ cursor = s
  <2>1. outbox'[s] = Appended(Kept(s), event)
    BY <1>0, <1>3 DEF EmitAppends
  <2>2. event.size \in Nat /\ event.size <= LineMax
    BY <1>0, <1>3 DEF SizeInv, EventFits, EmitAppends, Line
  <2> QED
    BY <1>0, <1>1, <2>1, <2>2, SizeOfAppended
<1>4. CASE EmitFails /\ cursor = s
  <2>1. outbox'[s] \in {outbox[s], Kept(s), Appended(Kept(s), Torn(1))}
    BY <1>0, <1>4 DEF EmitFails
  <2>2. FileSize(Appended(Kept(s), Torn(1))) = FileSize(Kept(s)) + 1
    <3>1. Torn(1).size = 1
      BY DEF Torn
    <3> QED
      BY <1>1, <3>1, TornIsLine, SizeOfAppended
  <2> QED
    BY <1>0, <1>1, <2>1, <2>2
<1>5. CASE ClearQueue /\ cursor = s
  <2>1. outbox'[s] = <<>>
    BY <1>0, <1>5 DEF ClearQueue
  <2> QED
    BY <2>1, SizeOfEmpty
<1>6. CASE FinishQueue /\ cursor = s /\ outbox' = [outbox EXCEPT ![cursor] = From(raw, pos)]
  <2>1. /\ raw = outbox[s] /\ raw \in Seq(Line) /\ pos \in 1 .. Len(raw) + 1
        /\ outbox'[s] = From(raw, pos)
    BY <1>0, <1>6 DEF FinishQueue, IInv, PassedIsDone, TypeOK
  <2>2. FileSize(From(raw, pos)) <= FileSize(raw) /\ FileSize(raw) \in Nat
    BY <2>1, SizeOfRest, SizeIs
  <2>3. FileSize(From(raw, pos)) \in Nat
    BY <2>1, FromIs, SizeIs
  <2> QED
    BY <1>0, <2>1, <2>2, <2>3
<1> QED
  <2>1. \/ outbox' = outbox
        \/ /\ EmitAppends \/ EmitFails \/ ClearQueue \/ FinishQueue
           /\ \E q : outbox' = [outbox EXCEPT ![cursor] = q]
           /\ FinishQueue => outbox' = [outbox EXCEPT ![cursor] = From(raw, pos)]
    BY DEF Next, Drain, Emit, EmitSkips, EmitAppends, EmitFails, StartDrain, SkipQueue,
       ClearQueue, OpenQueue, DropLine, Deliver, DeliveryFails, FinishQueue, EditManifest,
       refreshSubscriptions, PowerCut
  <2>2. cursor # s => outbox'[s] = outbox[s]
    BY <1>0, <2>1
  <2> QED
    BY <1>2, <1>3, <1>4, <1>5, <1>6, <2>1, <2>2

(* However many events are emitted while the device is offline, whatever     *)
(* fails and wherever the power goes: drain() can read every outbox.         *)
THEOREM StaysReadable == Spec => []OutboxStaysReadable
<1>1. Init => SizeInv
  <2>1. Init => OutboxStaysReadable
    BY SizeOfEmpty DEF Init, OutboxStaysReadable
  <2> QED
    BY <2>1 DEF SizeInv, EventFits, Init
<1>2. IInv /\ SizeInv /\ [Next]_vars => SizeInv'
  <2> SUFFICES ASSUME IInv, SizeInv, [Next]_vars PROVE SizeInv'
    OBVIOUS
  <2>1. CASE Next
    BY <2>1, SizeStep, FitsStep DEF SizeInv
  <2>2. CASE UNCHANGED vars
    BY <2>2 DEF vars, SizeInv, OutboxStaysReadable, EventFits
  <2> QED
    BY <2>1, <2>2
<1>3. SizeInv => OutboxStaysReadable
  BY DEF SizeInv
<1> QED
  BY Invariance, <1>1, <1>2, <1>3, PTL DEF Spec
=============================================================================
