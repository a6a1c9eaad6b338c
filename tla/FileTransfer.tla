----------------------------- MODULE FileTransfer -----------------------------
(***************************************************************************)
(* Files that reach the card over the network: uploads by HTTP POST and by *)
(* WebSocket (CrossPointWebServer), PUT, MOVE and COPY by WebDAV           *)
(* (WebDAVHandler), and the requests that rename, move and delete.         *)
(*                                                                         *)
(* handleClient() takes one HTTP request from its first byte to its answer *)
(* and then lets the WebSocket server deliver what has come in.  So HTTP   *)
(* requests never interleave with each other; a WebSocket upload, which is *)
(* a message at a time, interleaves with all of them.  An HTTP request     *)
(* that writes is several steps here because the power can go inside it.   *)
(*                                                                         *)
(* Each transfer has a number; what a name holds is Absent or the file of  *)
(* a transfer, whole or not.  An open handle whose name was removed or     *)
(* taken by another file writes nowhere: what SdFat does with it is not    *)
(* modelled.  A request refused for its arguments, or because its file     *)
(* cannot be opened or read, changes nothing and is left out.              *)
(***************************************************************************)
EXTENDS Naturals

CONSTANTS
  Paths,         \* names a file can be given
  Clients,       \* connections the WebSocket server can hold
  MaxTransfers,  \* bound: transfers that get as far as opening a file
  MaxFaults      \* bound: failed card operations, cut answers and power cuts in all

NoPath == "NoPath"
NoClient == "NoClient"  \* wsUploadClientNum = 255

ASSUME PathsAssumption == NoPath \notin Paths
ASSUME ClientsAssumption == NoClient \notin Clients
ASSUME MaxTransfersAssumption == MaxTransfers \in Nat
ASSUME MaxFaultsAssumption == MaxFaults \in Nat

VARIABLES
  running,     \* CrossPointWebServer::running
  card,        \* what each name holds
  davtmp,      \* what <name>.davtmp holds
  http,        \* the HTTP request that is writing
  wsUploadInProgress, wsUploadClientNum, wsUploadPath,
  wsTransfer,  \* the number of the WebSocket upload
  connected,   \* WebSocket clients
  transfers,   \* transfers begun
  promised,    \* history: what the owner of a name was last told it holds
  spoiled,     \* history: transfers whose file nobody can vouch for
  faults       \* faults so far

ws == <<wsUploadInProgress, wsUploadClientNum, wsUploadPath, wsTransfer>>
vars == <<running, card, davtmp, http, ws, connected, transfers, promised,
          spoiled, faults>>

Absent == [id |-> 0, whole |-> FALSE]
FileOf(t) == [id |-> t, whole |-> TRUE]
PartOf(t) == [id |-> t, whole |-> FALSE]
Contents == [id : Nat, whole : BOOLEAN]

NoRequest == [kind |-> "none", path |-> NoPath, id |-> 0, existed |-> FALSE]
Requests == [kind : {"upload", "put", "swap", "copy"}, path : Paths,
             id : Nat, existed : BOOLEAN]
Request(k, p) == [kind |-> k, path |-> p, id |-> transfers + 1,
                  existed |-> card[p] # Absent]

TypeOK ==
  /\ running \in BOOLEAN
  /\ card \in [Paths -> Contents] /\ davtmp \in [Paths -> Contents]
  /\ http \in Requests \cup {NoRequest}
  /\ http.kind = "upload" => ~http.existed
  /\ http # NoRequest => running
  /\ wsUploadInProgress \in BOOLEAN
  /\ wsUploadClientNum \in Clients \cup {NoClient}
  /\ wsUploadPath \in Paths \cup {NoPath}
  /\ wsTransfer \in Nat
  /\ connected \subseteq Clients
  /\ transfers \in 0..MaxTransfers
  /\ promised \in [Paths -> Contents]
  /\ spoiled \subseteq Nat
  /\ faults \in 0..MaxFaults

(* Some names hold books that were there before. *)
Init ==
  /\ running = FALSE
  /\ card \in [Paths -> {Absent, FileOf(0)}]
  /\ davtmp = [p \in Paths |-> Absent]
  /\ http = NoRequest
  /\ wsUploadInProgress = FALSE /\ wsUploadClientNum = NoClient
  /\ wsUploadPath = NoPath /\ wsTransfer = 0
  /\ connected = {}
  /\ transfers = 0
  /\ promised = card
  /\ spoiled = {}
  /\ faults = 0

-----------------------------------------------------------------------------
Exists(p) == card[p] # Absent
Serving == running /\ http = NoRequest

Fault == faults < MaxFaults /\ faults' = faults + 1
NoFault == faults' = faults

NewTransfer == transfers < MaxTransfers /\ transfers' = transfers + 1

(* The open WebSocket upload loses its file when a request removes or      *)
(* replaces what stands under one of these names.                          *)
TakenFrom(names) ==
  IF wsUploadInProgress /\ wsUploadPath \in names THEN {wsTransfer} ELSE {}

(* Storage.remove() of the file of transfer t under p, its result unread.  *)
RemoveFile(p, t) ==
  \/ card' = [card EXCEPT ![p] = Absent] /\ spoiled' = spoiled /\ NoFault
  \/ card' = card /\ spoiled' = spoiled \cup {t} /\ Fault

-----------------------------------------------------------------------------
(* HTTP POST to /upload: written in place, under a name nobody has.        *)

HttpUploadStart(p) ==
  /\ Serving
  /\ ~Exists(p)
  /\ NewTransfer
  /\ http' = Request("upload", p)
  /\ card' = [card EXCEPT ![p] = PartOf(transfers + 1)]
  /\ UNCHANGED <<running, davtmp, ws, connected, promised, spoiled, faults>>

(* Mutant: an upload that failed leaves what it wrote. *)
KeepsWhatItWrote ==
  /\ http.kind = "upload"
  /\ http' = NoRequest
  /\ UNCHANGED <<running, card, davtmp, ws, connected, transfers, promised, spoiled, faults>>

(* The body stops coming, the owner of the device cancels, or a flush is   *)
(* short: the file is closed and removed.                                  *)
HttpUploadAborted ==
  /\ http.kind = "upload"
  /\ RemoveFile(http.path, http.id)
  /\ http' = NoRequest
  /\ UNCHANGED <<running, davtmp, ws, connected, transfers, promised>>

HttpUploadEnd ==
  /\ http.kind = "upload"
  /\ \/ /\ card' = [card EXCEPT ![http.path] = FileOf(http.id)]
        /\ spoiled' = spoiled /\ NoFault
     \/ \* close() could not write the last bytes: nobody looks
        /\ card' = card /\ spoiled' = spoiled \cup {http.id} /\ Fault
  /\ promised' = [promised EXCEPT ![http.path] = FileOf(http.id)]
  /\ http' = NoRequest
  /\ UNCHANGED <<running, davtmp, ws, connected, transfers>>

(* END finds the client gone, after a cancel during the last piece: the    *)
(* handler returns with the file still open.                               *)
HttpUploadLeftOpen ==
  /\ http.kind = "upload"
  /\ Fault
  /\ spoiled' = spoiled \cup {http.id}
  /\ http' = NoRequest
  /\ UNCHANGED <<running, card, davtmp, ws, connected, transfers, promised>>

-----------------------------------------------------------------------------
(* WebDAV PUT: a temp file that takes the name when the body is complete.  *)

PutStart(p) ==
  /\ Serving
  /\ NewTransfer
  /\ http' = Request("put", p)
  /\ davtmp' = [davtmp EXCEPT ![p] = PartOf(transfers + 1)]
  /\ UNCHANGED <<running, card, ws, connected, promised, spoiled, faults>>

(* A short write or a body that stops: the temp file is removed.           *)
PutFails ==
  /\ http.kind = "put"
  /\ \/ davtmp' = [davtmp EXCEPT ![http.path] = Absent] /\ NoFault
     \/ davtmp' = davtmp /\ Fault
  /\ http' = NoRequest
  /\ UNCHANGED <<running, card, ws, connected, transfers, promised, spoiled>>

(* The body is complete: what stood there is removed.  Nobody looks at the *)
(* results of the close and of the removal.                                *)
PutRemovesTarget ==
  /\ http.kind = "put"
  /\ \E closed, removed \in BOOLEAN :
       /\ IF closed /\ removed THEN NoFault ELSE Fault
       /\ davtmp' = [davtmp EXCEPT ![http.path] = [id |-> http.id, whole |-> closed]]
       /\ card' = IF http.existed /\ removed THEN [card EXCEPT ![http.path] = Absent]
                  ELSE card
       /\ promised' = IF removed THEN [promised EXCEPT ![http.path] = Absent]
                      ELSE promised
       /\ spoiled' = spoiled \cup (IF closed THEN {} ELSE {http.id})
                             \cup (IF removed THEN TakenFrom({http.path}) ELSE {})
  /\ http' = [http EXCEPT !.kind = "swap"]
  /\ UNCHANGED <<running, ws, connected, transfers>>

(* Mutant: the new file is announced whether or not it took the name. *)
AnnouncedAnyway ==
  /\ http.kind = "swap"
  /\ card' = card /\ Fault
  /\ davtmp' = [davtmp EXCEPT ![http.path] = Absent]
  /\ promised' = [promised EXCEPT ![http.path] = FileOf(http.id)]
  /\ http' = NoRequest
  /\ UNCHANGED <<running, ws, connected, transfers, spoiled>>

(* The temp file takes the name, or is removed when it cannot. *)
PutRenames ==
  /\ http.kind = "swap"
  /\ \/ /\ ~Exists(http.path)
        /\ card' = [card EXCEPT ![http.path] = davtmp[http.path]]
        /\ promised' = [promised EXCEPT ![http.path] = FileOf(http.id)]
        /\ NoFault
     \/ Exists(http.path) /\ UNCHANGED <<card, promised>> /\ NoFault
     \/ ~Exists(http.path) /\ UNCHANGED <<card, promised>> /\ Fault
  /\ davtmp' = [davtmp EXCEPT ![http.path] = Absent]
  /\ http' = NoRequest
  /\ UNCHANGED <<running, ws, connected, transfers, spoiled>>

-----------------------------------------------------------------------------
(* Requests that move and remove what is on the card, by WebDAV or by the  *)
(* web pages.  None of them asks whether an upload has the name open.      *)

Delete(p) ==
  /\ Serving
  /\ Exists(p)
  /\ card' = [card EXCEPT ![p] = Absent]
  /\ promised' = [promised EXCEPT ![p] = Absent]
  /\ spoiled' = spoiled \cup TakenFrom({p})
  /\ UNCHANGED <<running, davtmp, http, ws, connected, transfers, faults>>

(* handleRename(), handleMove() and a WebDAV MOVE to a free name. *)
Move(p, q) ==
  /\ Serving
  /\ Exists(p) /\ ~Exists(q)
  /\ card' = [card EXCEPT ![q] = card[p], ![p] = Absent]
  /\ promised' = [promised EXCEPT ![q] = promised[p], ![p] = Absent]
  /\ spoiled' = spoiled \cup TakenFrom({p})
  /\ UNCHANGED <<running, davtmp, http, ws, connected, transfers, faults>>

(* A WebDAV MOVE replaces its destination unless told not to.  The rename  *)
(* after the removal may fail: then only the destination is gone.          *)
MoveOver(p, q) ==
  /\ Serving
  /\ p # q /\ Exists(p) /\ Exists(q)
  /\ \/ /\ card' = [card EXCEPT ![q] = card[p], ![p] = Absent]
        /\ promised' = [promised EXCEPT ![q] = promised[p], ![p] = Absent]
        /\ spoiled' = spoiled \cup TakenFrom({p, q})
        /\ NoFault
     \/ /\ card' = [card EXCEPT ![q] = Absent]
        /\ promised' = [promised EXCEPT ![q] = Absent]
        /\ spoiled' = spoiled \cup TakenFrom({q})
        /\ Fault
  /\ UNCHANGED <<running, davtmp, http, ws, connected, transfers>>

(* A WebDAV COPY reads whatever the source holds by now. *)
CopyStart(p, q) ==
  /\ Serving
  /\ p # q /\ Exists(p)
  /\ \/ /\ NewTransfer
        /\ http' = Request("copy", q)
        /\ card' = [card EXCEPT ![q] = PartOf(transfers + 1)]
        /\ spoiled' = spoiled \cup TakenFrom({q})
                              \cup (IF card[p].whole THEN {} ELSE {transfers + 1})
        /\ NoFault
     \/ \* the destination is removed and cannot be opened
        /\ card' = [card EXCEPT ![q] = Absent]
        /\ spoiled' = spoiled \cup TakenFrom({q})
        /\ Fault /\ UNCHANGED <<http, transfers>>
  /\ promised' = [promised EXCEPT ![q] = Absent]
  /\ UNCHANGED <<running, davtmp, ws, connected>>

CopyEnd ==
  /\ http.kind = "copy"
  /\ \/ /\ card' = IF http.id \in spoiled THEN card
                   ELSE [card EXCEPT ![http.path] = FileOf(http.id)]
        /\ promised' = [promised EXCEPT ![http.path] = FileOf(http.id)]
        /\ spoiled' = spoiled /\ NoFault
     \/ \* a read fails, and the loop ends as if the source had
        /\ card' = card
        /\ promised' = [promised EXCEPT ![http.path] = FileOf(http.id)]
        /\ spoiled' = spoiled \cup {http.id} /\ Fault
     \/ \* a write fails: the copy is removed
        RemoveFile(http.path, http.id) /\ promised' = promised
  /\ http' = NoRequest
  /\ UNCHANGED <<running, davtmp, ws, connected, transfers>>

-----------------------------------------------------------------------------
(* The WebSocket upload, of which there is one at most.                    *)

WsConnect(c) ==
  /\ Serving
  /\ connected' = connected \cup {c}
  /\ UNCHANGED <<running, card, davtmp, http, ws, transfers, promised, spoiled, faults>>

(* The upload that is open is closed and what stands under its name is     *)
(* removed, whichever file that is by now: with the upload's own file gone *)
(* before, what was promised under the name is given up.                   *)
AbortWsUpload ==
  /\ RemoveFile(wsUploadPath, wsTransfer)
  /\ promised' = IF wsTransfer \in spoiled THEN [promised EXCEPT ![wsUploadPath] = Absent]
                 ELSE promised
  /\ wsUploadInProgress' = FALSE /\ wsUploadClientNum' = NoClient
  /\ UNCHANGED <<wsUploadPath, wsTransfer>>

NothingAborted == UNCHANGED <<card, spoiled, promised, faults, ws>>

(* Mutant: whoever disconnects ends the upload. *)
AnyoneEndsIt(c) ==
  /\ Serving
  /\ c \in connected
  /\ connected' = connected \ {c}
  /\ IF wsUploadInProgress THEN AbortWsUpload ELSE NothingAborted
  /\ UNCHANGED <<running, davtmp, http, transfers>>

WsDisconnect(c) ==
  /\ Serving
  /\ c \in connected
  /\ connected' = connected \ {c}
  /\ IF c = wsUploadClientNum /\ wsUploadInProgress THEN AbortWsUpload ELSE NothingAborted
  /\ UNCHANGED <<running, davtmp, http, transfers>>

(* Mutant: the names are read before the upload in progress is seen. *)
NamesReadFirst(c, p) ==
  /\ Serving
  /\ c \in connected
  /\ wsUploadPath' = p
  /\ IF Exists(p) \/ wsUploadInProgress
     THEN UNCHANGED <<card, wsUploadInProgress, wsUploadClientNum, wsTransfer,
                      transfers, promised>>
     ELSE /\ NewTransfer
          /\ wsTransfer' = transfers + 1
          /\ card' = [card EXCEPT ![p] = PartOf(transfers + 1)]
          /\ promised' = promised
          /\ wsUploadInProgress' = TRUE /\ wsUploadClientNum' = c
  /\ UNCHANGED <<running, davtmp, http, connected, spoiled, faults>>

(* START: refused while an upload is open.  A name that is taken is        *)
(* refused too, but after the names of the last upload are overwritten.    *)
(* A file of no bytes is complete at once.                                 *)
WsStart(c, p) ==
  /\ Serving
  /\ c \in connected
  /\ ~wsUploadInProgress
  /\ wsUploadPath' = p
  /\ IF Exists(p)
     THEN UNCHANGED <<card, wsUploadInProgress, wsUploadClientNum, wsTransfer,
                      transfers, promised>>
     ELSE /\ NewTransfer
          /\ wsTransfer' = transfers + 1
          /\ \/ /\ card' = [card EXCEPT ![p] = PartOf(transfers + 1)]
                /\ promised' = promised
                /\ wsUploadInProgress' = TRUE /\ wsUploadClientNum' = c
             \/ /\ card' = [card EXCEPT ![p] = FileOf(transfers + 1)]
                /\ promised' = [promised EXCEPT ![p] = FileOf(transfers + 1)]
                /\ UNCHANGED <<wsUploadInProgress, wsUploadClientNum>>
  /\ UNCHANGED <<running, davtmp, http, connected, spoiled, faults>>

(* The last binary message; the ones before it only lengthen the file. *)
WsUploadDone(c) ==
  /\ Serving
  /\ wsUploadInProgress /\ c = wsUploadClientNum
  /\ \/ /\ card' = IF card[wsUploadPath].id = wsTransfer
                   THEN [card EXCEPT ![wsUploadPath] = FileOf(wsTransfer)] ELSE card
        /\ spoiled' = spoiled /\ NoFault
     \/ card' = card /\ spoiled' = spoiled \cup {wsTransfer} /\ Fault
  /\ promised' = [promised EXCEPT ![wsUploadPath] = FileOf(wsTransfer)]
  /\ wsUploadInProgress' = FALSE /\ wsUploadClientNum' = NoClient
  /\ UNCHANGED <<running, davtmp, http, wsUploadPath, wsTransfer, connected, transfers>>

(* More bytes than announced, or a short write. *)
WsUploadFails(c) ==
  /\ Serving
  /\ wsUploadInProgress /\ c = wsUploadClientNum
  /\ AbortWsUpload
  /\ UNCHANGED <<running, davtmp, http, connected, transfers>>

-----------------------------------------------------------------------------
(* The server starts and stops with its screen; a fetch for the owner      *)
(* closes the WebSocket server in between unless it is receiving.          *)

Start ==
  /\ ~running
  /\ running' = TRUE
  /\ UNCHANGED <<card, davtmp, http, ws, connected, transfers, promised, spoiled, faults>>

Stop ==
  /\ Serving
  /\ running' = FALSE
  /\ connected' = {}
  /\ IF wsUploadInProgress THEN AbortWsUpload ELSE NothingAborted
  /\ UNCHANGED <<davtmp, http, transfers>>

SuspendTransferServices ==
  /\ Serving
  /\ ~wsUploadInProgress
  /\ connected' = {}
  /\ UNCHANGED <<running, card, davtmp, http, ws, transfers, promised, spoiled, faults>>

(* What was being written stays as far as it got. *)
PowerCut ==
  /\ running
  /\ Fault
  /\ running' = FALSE
  /\ connected' = {}
  /\ http' = NoRequest
  /\ wsUploadInProgress' = FALSE /\ wsUploadClientNum' = NoClient
  /\ wsUploadPath' = NoPath /\ wsTransfer' = 0
  /\ spoiled' = spoiled \cup (IF http.kind \in {"upload", "copy"} THEN {http.id} ELSE {})
                        \cup (IF wsUploadInProgress THEN {wsTransfer} ELSE {})
  /\ UNCHANGED <<card, davtmp, transfers, promised>>

HttpUpload ==
  \/ \E p \in Paths : HttpUploadStart(p)
  \/ HttpUploadAborted \/ HttpUploadEnd \/ HttpUploadLeftOpen

WebDAV ==
  \/ \E p \in Paths : PutStart(p)
  \/ PutFails \/ PutRemovesTarget \/ PutRenames
  \/ \E p, q \in Paths : MoveOver(p, q) \/ CopyStart(p, q)
  \/ CopyEnd

WsEvent ==
  \E c \in Clients :
    \/ WsConnect(c) \/ WsDisconnect(c) \/ WsUploadDone(c) \/ WsUploadFails(c)
    \/ \E p \in Paths : WsStart(c, p)

Next ==
  \/ HttpUpload \/ WebDAV \/ WsEvent
  \/ \E p \in Paths : Delete(p)
  \/ \E p, q \in Paths : Move(p, q)
  \/ Start \/ Stop \/ SuspendTransferServices \/ PowerCut

Spec == Init /\ [][Next]_vars

-----------------------------------------------------------------------------
(* "Drop a partially written upload so a truncated book never lands in the *)
(* library" (CrossPointWebServer.cpp:1632): a partial file stands under a  *)
(* name only while its transfer writes it, but for what the power, an      *)
(* unread result or a request that took the file away left behind.         *)
BeingWritten(p) ==
  \/ http.kind \in {"upload", "copy"} /\ http.path = p /\ http.id = card[p].id
  \/ wsUploadInProgress /\ wsUploadPath = p /\ wsTransfer = card[p].id

NoTruncatedFile ==
  \A p \in Paths :
    Exists(p) /\ ~card[p].whole => BeingWritten(p) \/ card[p].id \in spoiled

(* A name holds, whole, what its owner was last told it holds, whatever    *)
(* the other uploads and requests do: nothing but a request that names a   *)
(* file replaces or removes it.                                            *)
PromisesAreKept ==
  \A p \in Paths :
    promised[p] # Absent => card[p] = promised[p] \/ promised[p].id \in spoiled

(* The one WebSocket upload there can be belongs to a client that is still *)
(* connected to a server that runs: there is somebody who can end it, and  *)
(* nobody finds the upload taken by a client that has left.                *)
UploadHasItsOwner ==
  /\ wsUploadInProgress => running /\ wsUploadClientNum \in connected
  /\ wsUploadInProgress <=> wsUploadClientNum # NoClient

(* "Only clean up if this is the client that owns the active upload"       *)
(* (CrossPointWebServer.cpp:3474): a late disconnect of one client leaves  *)
(* the upload another one has begun since as it is.                        *)
LateDisconnectIsHarmless ==
  [][connected' # connected /\ running' /\ wsUploadInProgress
       => \/ wsUploadClientNum \notin connected'
          \/ UNCHANGED <<ws, card>>]_vars

(* "Incomplete WebSocket uploads are deleted on disconnect or error"       *)
(* (docs/webserver-endpoints.md:467): what the end of an upload removes is *)
(* never a complete file.                                                  *)
OnlyIncompleteUploadsAreDeleted ==
  [][wsUploadInProgress /\ ~wsUploadInProgress'
       => \A p \in Paths : card[p].whole => card'[p] = card[p]]_vars
===============================================================================
