---------------------------- MODULE PluginOutbox ----------------------------
(***************************************************************************)
(* src/src/util/PluginEvents.cpp: emit() appends an event to the outbox     *)
(* file of every subscribed plugin; drain() replays the queued lines to     *)
(* each plugin's server while the device is online, stops at the first      *)
(* failure of a plugin and rewrites what is left.  Both run on the main     *)
(* task, one after the other; the power may go between any two steps.       *)
(***************************************************************************)
EXTENDS Naturals, Sequences, FiniteSets, SequencesExt

CONSTANTS
    NumSubs,     \* plugins in the subscription table, in table order
    Kinds,       \* kinds of events
    Sizes,       \* sizes an event line may have
    LineMax,     \* MAX_EVENT_LINE
    Cap,         \* MAX_OUTBOX_BYTES
    MaxRun,      \* maxEvents of drain()
    MaxEvents,   \* bound: events emitted
    MaxFaults,   \* bound: failures of the card, the network and the power
    MaxEdits     \* bound: changes of a plugin's manifest

Subs == 1 .. NumSubs

ASSUME OutboxAssumption ==
    /\ NumSubs \in Nat \ {0} /\ LineMax \in Nat \ {0} /\ Cap \in Nat /\ MaxRun \in Nat
    /\ MaxEvents \in Nat /\ MaxFaults \in Nat /\ MaxEdits \in Nat
    /\ Sizes \subseteq Nat /\ "corrupt" \notin Kinds

VARIABLES
    outbox,    \* per plugin, the lines of events.jsonl
    mask,      \* per plugin, the kinds it was subscribed to at the last refresh
    manifest,  \* per plugin, the kinds device.json declares, and has a request for
    pc,        \* "idle", "emit", "open" or "deliver"
    cursor,    \* the plugin the loop of emit() or drain() is at
    event,     \* the line emit() appends
    raw,       \* the outbox as drain() read it
    pos,       \* the next line of raw
    run,       \* deliveries this drain may still make
    stalled,   \* a delivery of this plugin has failed
    received,  \* history: the ids each plugin's server received, in order
    queued,    \* history: per plugin, the ids whose line was appended in full
    glued,     \* history: of these, the ones appended to a line cut short
    shed,      \* history: per plugin, the ids dropped on purpose
    count      \* events emitted, faults and manifest edits so far

drainVars == <<raw, pos, run, stalled>>
vars == <<outbox, mask, manifest, pc, cursor, event, raw, pos, run, stalled,
          received, queued, glued, shed, count>>

-----------------------------------------------------------------------------
Line == [id : 0 .. MaxEvents, kind : Kinds \cup {"corrupt"}, size : Nat, torn : BOOLEAN]

\* Not every declared event has a request the firmware can run.
Manifest == {m \in [declared : SUBSET Kinds, handled : SUBSET Kinds] : m.handled \subseteq m.declared}

NoLine == [id |-> 0, kind |-> "corrupt", size |-> 0, torn |-> FALSE]

Ids(q)    == {q[i].id : i \in DOMAIN q} \ {0}

\* The bytes of the first n lines of the file, for every n.
Bytes(q) ==
    LET bytes[n \in 0 .. Len(q)] == IF n = 0 THEN 0 ELSE bytes[n - 1] + q[n].size
    IN  bytes
FileSize(q) == Bytes(q)[Len(q)]

Fault == count.faults < MaxFaults /\ count' = [count EXCEPT !.faults = @ + 1]

\* Mutant: the cap of the reader instead of the writer's.
OverReadCap(q) == FileSize(q) > Cap + LineMax

OverCap(q) == FileSize(q) > Cap

Torn(size) == [id |-> 0, kind |-> "corrupt", size |-> size, torn |-> TRUE]

\* A line written after a torn one continues it, and neither can be parsed.
Appended(q, line) ==
    IF q # <<>> /\ Last(q).torn
    THEN Append(Front(q), [NoLine EXCEPT !.size = Last(q).size + line.size])
    ELSE Append(q, line)

-----------------------------------------------------------------------------
(* emit().                                                                 *)

Emit ==
    /\ pc = "idle" /\ count.events < MaxEvents
    /\ \E k \in Kinds, n \in Sizes :
         /\ \E s \in Subs : k \in mask[s]
         /\ IF n > LineMax   \* dropped
            THEN UNCHANGED <<pc, event>>
            ELSE /\ pc' = "emit"
                 /\ event' = [id |-> count.events + 1, kind |-> k, size |-> n, torn |-> FALSE]
    /\ count' = [count EXCEPT !.events = @ + 1]
    /\ UNCHANGED <<outbox, mask, manifest, cursor, drainVars, received, queued, glued, shed>>

\* The loop goes on to the next plugin, or ends.
EmitNext ==
    /\ IF cursor = NumSubs
       THEN pc' = "idle" /\ cursor' = 1 /\ event' = NoLine
       ELSE pc' = "emit" /\ cursor' = cursor + 1 /\ event' = event
    /\ UNCHANGED <<mask, manifest, drainVars, received>>

EmitSkips ==
    /\ pc = "emit" /\ event.kind \notin mask[cursor]
    /\ EmitNext
    /\ UNCHANGED <<outbox, queued, glued, shed, count>>

\* What is in the outbox when the line is written: nothing, if it was over the cap.
Kept(s) == IF OverCap(outbox[s]) THEN <<>> ELSE outbox[s]

EmitAppends ==
    /\ pc = "emit" /\ event.kind \in mask[cursor]
    /\ LET q == Appended(Kept(cursor), event) IN
         /\ outbox' = [outbox EXCEPT ![cursor] = q]
         /\ queued' = [queued EXCEPT ![cursor] = @ \cup {event.id}]
         /\ glued' = [glued EXCEPT ![cursor] = @ \cup ({event.id} \ Ids(q))]
         /\ shed' = [shed EXCEPT ![cursor] = @ \cup (Ids(outbox[cursor]) \ Ids(q))]
    /\ EmitNext
    /\ UNCHANGED count

\* The file cannot be opened, or the line is cut back after a short write, or it
\* is not: then its beginning stays at the end of the file.
EmitFails ==
    /\ pc = "emit" /\ event.kind \in mask[cursor]
    /\ Fault
    /\ \E q \in {outbox[cursor], Kept(cursor), Appended(Kept(cursor), Torn(1))} :
         /\ outbox' = [outbox EXCEPT ![cursor] = q]
         /\ shed' = [shed EXCEPT ![cursor] = @ \cup (Ids(outbox[cursor]) \ Ids(q))]
    /\ EmitNext
    /\ UNCHANGED <<queued, glued>>

-----------------------------------------------------------------------------
(* drain().                                                                *)

StartDrain ==
    /\ pc = "idle"
    /\ \E s \in Subs : outbox[s] # <<>>
    /\ pc' = "open"
    /\ UNCHANGED <<outbox, mask, manifest, cursor, event, drainVars, received, queued, glued, shed, count>>

DrainNext ==
    /\ IF cursor = NumSubs \/ run = 0
       THEN pc' = "idle" /\ cursor' = 1 /\ run' = MaxRun
       ELSE pc' = "open" /\ cursor' = cursor + 1 /\ run' = run
    /\ raw' = <<>> /\ pos' = 1 /\ stalled' = FALSE

\* Mutant: drain() reads no more than the cap emit() checks before it appends.
ReadableUpToCap(s) == mask[s] # {} /\ outbox[s] # <<>> /\ FileSize(outbox[s]) <= Cap

\* The plugin is in the subscription table and has a file drain() can read.
Readable(s) == mask[s] # {} /\ outbox[s] # <<>> /\ FileSize(outbox[s]) <= Cap + LineMax

\* Anything else, or a manifest that cannot be read now, is left for another time.
SkipQueue ==
    /\ pc = "open"
    /\ \/ ~Readable(cursor) /\ UNCHANGED count
       \/ Fault
    /\ DrainNext
    /\ UNCHANGED <<outbox, mask, manifest, event, received, queued, glued, shed>>

\* Without a handler the queue would never advance.
ClearQueue ==
    /\ pc = "open" /\ Readable(cursor) /\ manifest[cursor].handled = {}
    /\ outbox' = [outbox EXCEPT ![cursor] = <<>>]
    /\ shed' = [shed EXCEPT ![cursor] = @ \cup Ids(outbox[cursor])]
    /\ DrainNext
    /\ UNCHANGED <<mask, manifest, event, received, queued, glued, count>>

OpenQueue ==
    /\ pc = "open" /\ Readable(cursor) /\ manifest[cursor].handled # {}
    /\ raw' = outbox[cursor] /\ pos' = 1 /\ stalled' = FALSE
    /\ pc' = "deliver"
    /\ UNCHANGED <<outbox, mask, manifest, cursor, event, run, received, queued, glued, shed, count>>

MoreToDeliver == pos <= Len(raw) /\ run > 0 /\ ~stalled

\* A corrupt line, or one whose event has no handler any more, counts as delivered.
Undeliverable(line) == line.kind \notin manifest[cursor].handled

DropLine ==
    /\ pc = "deliver" /\ MoreToDeliver
    /\ Undeliverable(raw[pos])
    /\ pos' = pos + 1 /\ run' = run - 1
    /\ shed' = [shed EXCEPT ![cursor] = @ \cup ({raw[pos].id} \ {0})]
    /\ UNCHANGED <<outbox, mask, manifest, pc, cursor, event, raw, stalled, received, queued, glued, count>>

\* The server answers 2xx, if need be after a fresh token.
Deliver ==
    /\ pc = "deliver" /\ MoreToDeliver
    /\ ~Undeliverable(raw[pos])
    /\ pos' = pos + 1 /\ run' = run - 1
    /\ received' = [received EXCEPT ![cursor] = Append(@, raw[pos].id)]
    /\ UNCHANGED <<outbox, mask, manifest, pc, cursor, event, raw, stalled, queued, glued, shed, count>>

AfterFailure == [pos |-> pos, stalled |-> TRUE]

\* The request or its answer is lost, or the server refuses: it may have acted.
DeliveryFails ==
    /\ pc = "deliver" /\ MoreToDeliver
    /\ ~Undeliverable(raw[pos])
    /\ Fault
    /\ pos' = AfterFailure.pos /\ stalled' = AfterFailure.stalled
    /\ \E acted \in BOOLEAN :
         received' = IF acted THEN [received EXCEPT ![cursor] = Append(@, raw[pos].id)]
                              ELSE received
    /\ UNCHANGED <<outbox, mask, manifest, pc, cursor, event, raw, run, queued, glued, shed>>

\* Mutant: the line that failed is queued again behind the others.
FromRequeued(q, first) ==
    IF first > Len(q) THEN <<>> ELSE Append(SubSeq(q, first + 1, Len(q)), q[first])

\* What is written back: the lines from the first one not delivered.
From(q, first) == SubSeq(q, first, Len(q))

\* The file is removed when everything was delivered, rewritten when something
\* was, and left alone otherwise; writeFile() keeps the old file when it fails.
FinishQueue ==
    /\ pc = "deliver" /\ ~MoreToDeliver
    /\ \/ outbox' = [outbox EXCEPT ![cursor] = From(raw, pos)] /\ UNCHANGED count
       \/ pos > 1 /\ outbox' = outbox /\ Fault
    /\ DrainNext
    /\ UNCHANGED <<mask, manifest, event, received, queued, glued, shed>>

-----------------------------------------------------------------------------
(* Around them.                                                            *)

EditManifest ==
    /\ pc = "idle" /\ count.edits < MaxEdits
    /\ count' = [count EXCEPT !.edits = @ + 1]
    /\ \E s \in Subs, m \in Manifest : manifest' = [manifest EXCEPT ![s] = m]
    /\ UNCHANGED <<outbox, mask, pc, cursor, event, drainVars, received, queued, glued, shed>>

Declared == [s \in Subs |-> manifest[s].declared]

refreshSubscriptions ==
    /\ pc = "idle"
    /\ mask' = Declared
    /\ UNCHANGED <<outbox, manifest, pc, cursor, event, drainVars, received, queued, glued, shed, count>>

\* The RAM is lost; setup() reads the subscriptions again.
PowerCut ==
    /\ pc # "idle" /\ Fault
    /\ pc' = "idle" /\ mask' = Declared
    /\ cursor' = 1 /\ event' = NoLine
    /\ raw' = <<>> /\ pos' = 1 /\ run' = MaxRun /\ stalled' = FALSE
    /\ UNCHANGED <<outbox, manifest, received, queued, glued, shed>>

-----------------------------------------------------------------------------
Init ==
    /\ outbox = [s \in Subs |-> <<>>]
    /\ mask = [s \in Subs |-> Kinds]
    /\ manifest = [s \in Subs |-> [declared |-> Kinds, handled |-> Kinds]]
    /\ pc = "idle" /\ cursor = 1 /\ event = NoLine
    /\ raw = <<>> /\ pos = 1 /\ run = MaxRun /\ stalled = FALSE
    /\ received = [s \in Subs |-> <<>>]
    /\ queued = [s \in Subs |-> {}] /\ glued = queued /\ shed = queued
    /\ count = [events |-> 0, faults |-> 0, edits |-> 0]

Drain == StartDrain \/ SkipQueue \/ ClearQueue \/ OpenQueue \/ DropLine \/ Deliver \/ FinishQueue

Next ==
    \/ Emit \/ EmitSkips \/ EmitAppends \/ EmitFails
    \/ Drain \/ DeliveryFails
    \/ EditManifest \/ refreshSubscriptions \/ PowerCut

Spec == Init /\ [][Next]_vars

\* The main task runs, and the device comes online again and again.
FairSpec == Spec /\ WF_vars(EmitSkips \/ EmitAppends) /\ WF_vars(Drain)

-----------------------------------------------------------------------------
TypeOK ==
    /\ outbox \in [Subs -> Seq(Line)] /\ raw \in Seq(Line) /\ event \in Line
    /\ mask \in [Subs -> SUBSET Kinds] /\ manifest \in [Subs -> Manifest]
    /\ pc \in {"idle", "emit", "open", "deliver"}
    /\ cursor \in Subs /\ pos \in Nat \ {0} /\ pos <= Len(raw) + 1
    /\ run \in 0 .. MaxRun /\ stalled \in BOOLEAN
    /\ received \in [Subs -> Seq(1 .. MaxEvents)]
    /\ queued \in [Subs -> SUBSET (1 .. MaxEvents)] /\ glued \in [Subs -> SUBSET (1 .. MaxEvents)]
    /\ shed \in [Subs -> SUBSET (1 .. MaxEvents)]

\* "Delivery is at-least-once": an event whose line was appended in full is still
\* in the outbox, or its server has received it, or it was dropped on purpose (over
\* the cap, or without a handler), whatever fails and wherever the power goes.  The
\* one exception is the line that follows a short write truncate() did not undo.
NothingIsLost ==
    \A s \in Subs :
        queued[s] \ glued[s] \subseteq Ids(outbox[s]) \cup Range(received[s]) \cup shed[s]

\* "... and in order": the first time a server hears of an event, it has heard of
\* no later one.  The exception is an event that was passed over for want of a handler
\* and stayed in the file because the rewrite failed: a manifest that handles
\* it again brings it back.
DeliveredInOrder ==
    \A s \in Subs : \A i \in DOMAIN received[s] :
        (received[s][i] \notin shed[s] /\ \A j \in 1 .. i - 1 : received[s][j] # received[s][i])
            => \A j \in 1 .. i - 1 : received[s][j] < received[s][i]

\* "Delivery is at-least-once and in order" (docs/plugin-events.md:26): both of the
\* above, across failures of the card, the network and the power.
DeliveryIsReliable == NothingIsLost /\ DeliveredInOrder

\* The queue never outgrows what drain() can read: otherwise readFileToString()
\* would refuse it and the plugin would never be served again.
OutboxStaysReadable == \A s \in Subs : FileSize(outbox[s]) <= Cap + LineMax

\* Once no more events and failures come, the queue of every subscribed plugin
\* empties: a corrupt line, a removed handler or a busy plugin never wedges it.
QueuesEmpty == <>[](\A s \in Subs : mask[s] # {} => outbox[s] = <<>>)
=============================================================================
