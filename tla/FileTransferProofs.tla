-------------------------- MODULE FileTransferProofs --------------------------
(***************************************************************************)
(* What holds of FileTransfer for any number of names, clients, transfers  *)
(* and faults.                                                             *)
(*                                                                         *)
(* The promises and the truncated files speak of what stands under a name; *)
(* what makes them inductive is what a transfer that is open knows of its  *)
(* own file, WritersAreSound.                                              *)
(***************************************************************************)
EXTENDS FileTransfer, TLAPS

(* The request that writes has a number of its own and its file as it left *)
(* it; so has the WebSocket upload, unless its file was taken away.        *)
WritersAreSound ==
  /\ http.kind \in {"upload", "copy"} => card[http.path] = PartOf(http.id)
  /\ http.kind = "swap" =>
       /\ davtmp[http.path].id = http.id
       /\ davtmp[http.path].whole \/ http.id \in spoiled
  /\ http # NoRequest => http.id \in 1..transfers
  /\ http # NoRequest /\ wsUploadInProgress => http.id # wsTransfer
  /\ wsUploadInProgress =>
       /\ wsUploadPath \in Paths
       /\ wsTransfer \in 1..transfers
       /\ card[wsUploadPath] = PartOf(wsTransfer) \/ wsTransfer \in spoiled
  /\ \A p \in Paths : promised[p] # Absent => promised[p].whole

IInv ==
  /\ TypeOK /\ WritersAreSound /\ NoTruncatedFile /\ PromisesAreKept
  /\ UploadHasItsOwner

USE PathsAssumption, ClientsAssumption, MaxTransfersAssumption, MaxFaultsAssumption
USE DEF vars, ws, NoPath, NoClient, Exists

-----------------------------------------------------------------------------
(* What the records are, so that the proofs below need not open them.      *)
LEMMA ContentsFacts ==
  /\ Absent \in Contents /\ ~Absent.whole
  /\ \A t \in Nat : FileOf(t) \in Contents /\ FileOf(t).id = t /\ FileOf(t).whole
  /\ \A t \in Nat : PartOf(t) \in Contents /\ PartOf(t).id = t /\ ~PartOf(t).whole
  /\ \A t \in Nat : FileOf(t) # Absent /\ (t > 0 => PartOf(t) # Absent)
  /\ \A c \in Contents : /\ c.id \in Nat
                         /\ c.whole => c = FileOf(c.id)
                         /\ ~c.whole => c = PartOf(c.id)
  BY DEF Absent, FileOf, PartOf, Contents

LEMMA RequestFacts ==
  /\ NoRequest.kind = "none" /\ NoRequest \notin Requests
  /\ \A r \in Requests : /\ r.kind \in {"upload", "put", "swap", "copy"}
                         /\ r.path \in Paths /\ r.id \in Nat
  BY DEF NoRequest, Requests

-----------------------------------------------------------------------------
(* Init. *)
LEMMA InitEstablishes == Init => IInv
<1>. SUFFICES ASSUME Init PROVE IInv
  OBVIOUS
<1>. USE ContentsFacts, RequestFacts DEF Init
<1>1. card \in [Paths -> Contents] /\ promised \in [Paths -> Contents]
  OBVIOUS
<1>2. davtmp \in [Paths -> Contents]
  OBVIOUS
<1>3. TypeOK
  <2>1. transfers \in 0..MaxTransfers /\ faults \in 0..MaxFaults
    OBVIOUS
  <2>2. spoiled \subseteq Nat /\ connected \subseteq Clients
    OBVIOUS
  <2>3. http \in Requests \cup {NoRequest} /\ http.kind # "upload"
    OBVIOUS
  <2>. QED  BY <1>1, <1>2, <2>1, <2>2, <2>3 DEF TypeOK
<1>4. WritersAreSound
  BY DEF WritersAreSound
<1>5. NoTruncatedFile
  BY DEF NoTruncatedFile
<1>6. PromisesAreKept /\ UploadHasItsOwner
  BY DEF PromisesAreKept, UploadHasItsOwner
<1>. QED  BY <1>3, <1>4, <1>5, <1>6 DEF IInv

LEMMA HttpUploadStartKeeps ==
  ASSUME IInv, NEW p \in Paths, HttpUploadStart(p)
  PROVE  IInv'
<1>. USE DEF IInv, HttpUploadStart, Serving, Request, NewTransfer
<1>1. TypeOK'
  <2>1. transfers' \in 0..MaxTransfers /\ faults' \in 0..MaxFaults
    BY DEF TypeOK
  <2>2. http' \in Requests \cup {NoRequest}
    BY <2>1, RequestFacts DEF TypeOK, Request, Requests
  <2>3. /\ http'.kind = "upload" => ~http'.existed
        /\ http' # NoRequest => running'
    BY RequestFacts DEF TypeOK, Request
  <2>4. card' \in [Paths -> Contents] /\ promised' \in [Paths -> Contents]
    BY <2>1, ContentsFacts, RequestFacts DEF TypeOK
  <2>5. davtmp' \in [Paths -> Contents]
    BY <2>1, ContentsFacts, RequestFacts DEF TypeOK
  <2>6. spoiled' \subseteq Nat
    BY <2>1, RequestFacts DEF TypeOK
  <2>7. /\ wsUploadPath' \in Paths \cup {NoPath} /\ wsTransfer' \in Nat
        /\ wsUploadClientNum' \in Clients \cup {NoClient} /\ wsUploadInProgress' \in BOOLEAN
    BY <2>1 DEF TypeOK
  <2>. QED  BY <2>1, <2>2, <2>3, <2>4, <2>5, <2>6, <2>7 DEF TypeOK
<1>2. WritersAreSound'
  BY ContentsFacts, RequestFacts DEF TypeOK, WritersAreSound
<1>3. NoTruncatedFile'
  BY ContentsFacts, RequestFacts DEF TypeOK, WritersAreSound, NoTruncatedFile, BeingWritten
<1>4. PromisesAreKept'
  BY ContentsFacts, RequestFacts DEF TypeOK, WritersAreSound, PromisesAreKept
<1>5. UploadHasItsOwner'
  BY ContentsFacts, RequestFacts DEF TypeOK, UploadHasItsOwner
<1>. QED  BY <1>1, <1>2, <1>3, <1>4, <1>5

LEMMA HttpUploadAbortedKeeps ==
  ASSUME IInv, HttpUploadAborted
  PROVE  IInv'
<1>. USE DEF IInv, HttpUploadAborted, RemoveFile, Fault, NoFault
<1>1. TypeOK'
  <2>1. transfers' \in 0..MaxTransfers /\ faults' \in 0..MaxFaults
    BY DEF TypeOK
  <2>2. http' \in Requests \cup {NoRequest}
    BY <2>1, RequestFacts DEF TypeOK
  <2>3. /\ http'.kind = "upload" => ~http'.existed
        /\ http' # NoRequest => running'
    BY RequestFacts DEF TypeOK
  <2>4. card' \in [Paths -> Contents] /\ promised' \in [Paths -> Contents]
    BY <2>1, ContentsFacts, RequestFacts DEF TypeOK
  <2>5. davtmp' \in [Paths -> Contents]
    BY <2>1, ContentsFacts, RequestFacts DEF TypeOK
  <2>6. spoiled' \subseteq Nat
    BY <2>1, RequestFacts DEF TypeOK
  <2>7. /\ wsUploadPath' \in Paths \cup {NoPath} /\ wsTransfer' \in Nat
        /\ wsUploadClientNum' \in Clients \cup {NoClient} /\ wsUploadInProgress' \in BOOLEAN
    BY <2>1 DEF TypeOK
  <2>. QED  BY <2>1, <2>2, <2>3, <2>4, <2>5, <2>6, <2>7 DEF TypeOK
<1>2. WritersAreSound'
  BY ContentsFacts, RequestFacts DEF TypeOK, WritersAreSound
<1>3. NoTruncatedFile'
  BY ContentsFacts, RequestFacts DEF TypeOK, WritersAreSound, NoTruncatedFile, BeingWritten
<1>4. PromisesAreKept'
  BY ContentsFacts, RequestFacts DEF TypeOK, WritersAreSound, PromisesAreKept
<1>5. UploadHasItsOwner'
  BY ContentsFacts, RequestFacts DEF TypeOK, UploadHasItsOwner
<1>. QED  BY <1>1, <1>2, <1>3, <1>4, <1>5

LEMMA HttpUploadEndKeeps ==
  ASSUME IInv, HttpUploadEnd
  PROVE  IInv'
<1>. USE DEF IInv, HttpUploadEnd, Fault, NoFault
<1>1. TypeOK'
  <2>1. transfers' \in 0..MaxTransfers /\ faults' \in 0..MaxFaults
    BY DEF TypeOK
  <2>2. http' \in Requests \cup {NoRequest}
    BY <2>1, RequestFacts DEF TypeOK
  <2>3. /\ http'.kind = "upload" => ~http'.existed
        /\ http' # NoRequest => running'
    BY RequestFacts DEF TypeOK
  <2>4. card' \in [Paths -> Contents] /\ promised' \in [Paths -> Contents]
    BY <2>1, ContentsFacts, RequestFacts DEF TypeOK
  <2>5. davtmp' \in [Paths -> Contents]
    BY <2>1, ContentsFacts, RequestFacts DEF TypeOK
  <2>6. spoiled' \subseteq Nat
    BY <2>1, RequestFacts DEF TypeOK
  <2>7. /\ wsUploadPath' \in Paths \cup {NoPath} /\ wsTransfer' \in Nat
        /\ wsUploadClientNum' \in Clients \cup {NoClient} /\ wsUploadInProgress' \in BOOLEAN
    BY <2>1 DEF TypeOK
  <2>. QED  BY <2>1, <2>2, <2>3, <2>4, <2>5, <2>6, <2>7 DEF TypeOK
<1>2. WritersAreSound'
  BY ContentsFacts, RequestFacts DEF TypeOK, WritersAreSound
<1>3. NoTruncatedFile'
  BY ContentsFacts, RequestFacts DEF TypeOK, WritersAreSound, NoTruncatedFile, BeingWritten
<1>4. PromisesAreKept'
  BY ContentsFacts, RequestFacts DEF TypeOK, WritersAreSound, PromisesAreKept
<1>5. UploadHasItsOwner'
  BY ContentsFacts, RequestFacts DEF TypeOK, UploadHasItsOwner
<1>. QED  BY <1>1, <1>2, <1>3, <1>4, <1>5

LEMMA HttpUploadLeftOpenKeeps ==
  ASSUME IInv, HttpUploadLeftOpen
  PROVE  IInv'
<1>. USE DEF IInv, HttpUploadLeftOpen, Fault
<1>1. TypeOK'
  <2>1. transfers' \in 0..MaxTransfers /\ faults' \in 0..MaxFaults
    BY DEF TypeOK
  <2>2. http' \in Requests \cup {NoRequest}
    BY <2>1, RequestFacts DEF TypeOK
  <2>3. /\ http'.kind = "upload" => ~http'.existed
        /\ http' # NoRequest => running'
    BY RequestFacts DEF TypeOK
  <2>4. card' \in [Paths -> Contents] /\ promised' \in [Paths -> Contents]
    BY <2>1, ContentsFacts, RequestFacts DEF TypeOK
  <2>5. davtmp' \in [Paths -> Contents]
    BY <2>1, ContentsFacts, RequestFacts DEF TypeOK
  <2>6. spoiled' \subseteq Nat
    BY <2>1, RequestFacts DEF TypeOK
  <2>7. /\ wsUploadPath' \in Paths \cup {NoPath} /\ wsTransfer' \in Nat
        /\ wsUploadClientNum' \in Clients \cup {NoClient} /\ wsUploadInProgress' \in BOOLEAN
    BY <2>1 DEF TypeOK
  <2>. QED  BY <2>1, <2>2, <2>3, <2>4, <2>5, <2>6, <2>7 DEF TypeOK
<1>2. WritersAreSound'
  BY ContentsFacts, RequestFacts DEF TypeOK, WritersAreSound
<1>3. NoTruncatedFile'
  BY ContentsFacts, RequestFacts DEF TypeOK, WritersAreSound, NoTruncatedFile, BeingWritten
<1>4. PromisesAreKept'
  BY ContentsFacts, RequestFacts DEF TypeOK, WritersAreSound, PromisesAreKept
<1>5. UploadHasItsOwner'
  BY ContentsFacts, RequestFacts DEF TypeOK, UploadHasItsOwner
<1>. QED  BY <1>1, <1>2, <1>3, <1>4, <1>5

LEMMA PutStartKeeps ==
  ASSUME IInv, NEW p \in Paths, PutStart(p)
  PROVE  IInv'
<1>. USE DEF IInv, PutStart, Serving, Request, NewTransfer
<1>1. TypeOK'
  <2>1. transfers' \in 0..MaxTransfers /\ faults' \in 0..MaxFaults
    BY DEF TypeOK
  <2>2. http' \in Requests \cup {NoRequest}
    BY <2>1, RequestFacts DEF TypeOK, Request, Requests
  <2>3. /\ http'.kind = "upload" => ~http'.existed
        /\ http' # NoRequest => running'
    BY RequestFacts DEF TypeOK, Request
  <2>4. card' \in [Paths -> Contents] /\ promised' \in [Paths -> Contents]
    BY <2>1, ContentsFacts, RequestFacts DEF TypeOK
  <2>5. davtmp' \in [Paths -> Contents]
    BY <2>1, ContentsFacts, RequestFacts DEF TypeOK
  <2>6. spoiled' \subseteq Nat
    BY <2>1, RequestFacts DEF TypeOK
  <2>7. /\ wsUploadPath' \in Paths \cup {NoPath} /\ wsTransfer' \in Nat
        /\ wsUploadClientNum' \in Clients \cup {NoClient} /\ wsUploadInProgress' \in BOOLEAN
    BY <2>1 DEF TypeOK
  <2>. QED  BY <2>1, <2>2, <2>3, <2>4, <2>5, <2>6, <2>7 DEF TypeOK
<1>2. WritersAreSound'
  BY ContentsFacts, RequestFacts DEF TypeOK, WritersAreSound
<1>3. NoTruncatedFile'
  BY ContentsFacts, RequestFacts DEF TypeOK, WritersAreSound, NoTruncatedFile, BeingWritten
<1>4. PromisesAreKept'
  BY ContentsFacts, RequestFacts DEF TypeOK, WritersAreSound, PromisesAreKept
<1>5. UploadHasItsOwner'
  BY ContentsFacts, RequestFacts DEF TypeOK, UploadHasItsOwner
<1>. QED  BY <1>1, <1>2, <1>3, <1>4, <1>5

LEMMA PutFailsKeeps ==
  ASSUME IInv, PutFails
  PROVE  IInv'
<1>. USE DEF IInv, PutFails, Fault, NoFault
<1>1. TypeOK'
  BY ContentsFacts, RequestFacts DEF TypeOK
<1>2. WritersAreSound'
  BY ContentsFacts, RequestFacts DEF TypeOK, WritersAreSound
<1>3. NoTruncatedFile'
  BY ContentsFacts, RequestFacts DEF TypeOK, WritersAreSound, NoTruncatedFile, BeingWritten
<1>4. PromisesAreKept'
  BY ContentsFacts, RequestFacts DEF TypeOK, WritersAreSound, PromisesAreKept
<1>5. UploadHasItsOwner'
  BY ContentsFacts, RequestFacts DEF TypeOK, UploadHasItsOwner
<1>. QED  BY <1>1, <1>2, <1>3, <1>4, <1>5

LEMMA PutRemovesTargetKeeps ==
  ASSUME IInv, PutRemovesTarget
  PROVE  IInv'
<1>. USE DEF IInv, PutRemovesTarget, Fault, NoFault, TakenFrom
<1>1. TypeOK'
  <2>1. transfers' \in 0..MaxTransfers /\ faults' \in 0..MaxFaults
    BY DEF TypeOK
  <2>2. http' \in Requests \cup {NoRequest}
    BY <2>1, RequestFacts DEF TypeOK, Requests
  <2>3. /\ http'.kind = "upload" => ~http'.existed
        /\ http' # NoRequest => running'
    BY RequestFacts DEF TypeOK
  <2>4. card' \in [Paths -> Contents] /\ promised' \in [Paths -> Contents]
    BY <2>1, ContentsFacts, RequestFacts DEF TypeOK
  <2>5. davtmp' \in [Paths -> Contents]
    <3>1. http.id \in Nat
      BY RequestFacts DEF TypeOK
    <3>2. \A closed \in BOOLEAN : [id |-> http.id, whole |-> closed] \in Contents
      BY <3>1 DEF Contents
    <3>. QED  BY <3>2 DEF TypeOK
  <2>6. spoiled' \subseteq Nat
    BY <2>1, RequestFacts DEF TypeOK
  <2>7. /\ wsUploadPath' \in Paths \cup {NoPath} /\ wsTransfer' \in Nat
        /\ wsUploadClientNum' \in Clients \cup {NoClient} /\ wsUploadInProgress' \in BOOLEAN
    BY <2>1 DEF TypeOK
  <2>. QED  BY <2>1, <2>2, <2>3, <2>4, <2>5, <2>6, <2>7 DEF TypeOK
<1>2. WritersAreSound'
  BY ContentsFacts, RequestFacts DEF TypeOK, WritersAreSound
<1>3. NoTruncatedFile'
  BY ContentsFacts, RequestFacts DEF TypeOK, WritersAreSound, NoTruncatedFile, BeingWritten
<1>4. PromisesAreKept'
  BY ContentsFacts, RequestFacts DEF TypeOK, WritersAreSound, PromisesAreKept
<1>5. UploadHasItsOwner'
  BY ContentsFacts, RequestFacts DEF TypeOK, UploadHasItsOwner
<1>. QED  BY <1>1, <1>2, <1>3, <1>4, <1>5

LEMMA PutRenamesKeeps ==
  ASSUME IInv, PutRenames
  PROVE  IInv'
<1>. USE DEF IInv, PutRenames, Fault, NoFault
<1>1. TypeOK'
  BY ContentsFacts, RequestFacts DEF TypeOK
<1>2. WritersAreSound'
  BY ContentsFacts, RequestFacts DEF TypeOK, WritersAreSound
<1>3. NoTruncatedFile'
  BY ContentsFacts, RequestFacts DEF TypeOK, WritersAreSound, NoTruncatedFile, BeingWritten
<1>4. PromisesAreKept'
  BY ContentsFacts, RequestFacts DEF TypeOK, WritersAreSound, PromisesAreKept
<1>5. UploadHasItsOwner'
  BY ContentsFacts, RequestFacts DEF TypeOK, UploadHasItsOwner
<1>. QED  BY <1>1, <1>2, <1>3, <1>4, <1>5

LEMMA DeleteKeeps ==
  ASSUME IInv, NEW p \in Paths, Delete(p)
  PROVE  IInv'
<1>. USE DEF IInv, Delete, Serving, TakenFrom
<1>1. TypeOK'
  BY ContentsFacts, RequestFacts DEF TypeOK
<1>2. WritersAreSound'
  BY ContentsFacts, RequestFacts DEF TypeOK, WritersAreSound
<1>3. NoTruncatedFile'
  BY ContentsFacts, RequestFacts DEF TypeOK, WritersAreSound, NoTruncatedFile, BeingWritten
<1>4. PromisesAreKept'
  BY ContentsFacts, RequestFacts DEF TypeOK, WritersAreSound, PromisesAreKept
<1>5. UploadHasItsOwner'
  BY ContentsFacts, RequestFacts DEF TypeOK, UploadHasItsOwner
<1>. QED  BY <1>1, <1>2, <1>3, <1>4, <1>5

LEMMA MoveKeeps ==
  ASSUME IInv, NEW p \in Paths, NEW q \in Paths, Move(p, q)
  PROVE  IInv'
<1>. USE DEF IInv, Move, Serving, TakenFrom
<1>1. TypeOK'
  BY ContentsFacts, RequestFacts DEF TypeOK
<1>2. WritersAreSound'
  BY ContentsFacts, RequestFacts DEF TypeOK, WritersAreSound
<1>3. NoTruncatedFile'
  BY ContentsFacts, RequestFacts DEF TypeOK, WritersAreSound, NoTruncatedFile, BeingWritten
<1>4. PromisesAreKept'
  BY ContentsFacts, RequestFacts DEF TypeOK, WritersAreSound, PromisesAreKept
<1>5. UploadHasItsOwner'
  BY ContentsFacts, RequestFacts DEF TypeOK, UploadHasItsOwner
<1>. QED  BY <1>1, <1>2, <1>3, <1>4, <1>5

LEMMA MoveOverKeeps ==
  ASSUME IInv, NEW p \in Paths, NEW q \in Paths, MoveOver(p, q)
  PROVE  IInv'
<1>. USE DEF IInv, MoveOver, Serving, TakenFrom, Fault, NoFault
<1>1. CASE /\ card' = [card EXCEPT ![q] = card[p], ![p] = Absent]
           /\ promised' = [promised EXCEPT ![q] = promised[p], ![p] = Absent]
           /\ spoiled' = spoiled \cup TakenFrom({p, q})
           /\ faults' = faults
  <2>1. TypeOK'
    BY <1>1, ContentsFacts DEF TypeOK
  <2>2. WritersAreSound'
    <3>1. \A n \in Paths : promised'[n] # Absent => promised'[n].whole
      BY <1>1 DEF TypeOK, WritersAreSound
    <3>2. wsUploadInProgress => card'[wsUploadPath] = PartOf(wsTransfer) \/ wsTransfer \in spoiled'
      BY <1>1 DEF TypeOK, WritersAreSound
    <3>. QED  BY <1>1, <3>1, <3>2, RequestFacts DEF WritersAreSound
  <2>3. NoTruncatedFile'
    BY <1>1, ContentsFacts, RequestFacts DEF TypeOK, WritersAreSound, NoTruncatedFile, BeingWritten
  <2>4. PromisesAreKept'
    BY <1>1, ContentsFacts, RequestFacts DEF TypeOK, WritersAreSound, PromisesAreKept
  <2>5. UploadHasItsOwner'
    BY <1>1 DEF UploadHasItsOwner
  <2>. QED  BY <2>1, <2>2, <2>3, <2>4, <2>5
<1>2. CASE /\ card' = [card EXCEPT ![q] = Absent]
           /\ promised' = [promised EXCEPT ![q] = Absent]
           /\ spoiled' = spoiled \cup TakenFrom({q})
           /\ Fault
  <2>1. faults' \in 0..MaxFaults
    BY <1>2 DEF TypeOK
  <2>2. TypeOK'
    BY <1>2, <2>1, ContentsFacts DEF TypeOK
  <2>3. WritersAreSound'
    BY <1>2, ContentsFacts, RequestFacts DEF TypeOK, WritersAreSound
  <2>4. NoTruncatedFile'
    BY <1>2, ContentsFacts, RequestFacts DEF TypeOK, WritersAreSound, NoTruncatedFile, BeingWritten
  <2>5. PromisesAreKept'
    BY <1>2, ContentsFacts, RequestFacts DEF TypeOK, WritersAreSound, PromisesAreKept
  <2>6. UploadHasItsOwner'
    BY <1>2 DEF UploadHasItsOwner
  <2>. QED  BY <2>2, <2>3, <2>4, <2>5, <2>6
<1>. QED  BY <1>1, <1>2

LEMMA CopyStartKeeps ==
  ASSUME IInv, NEW p \in Paths, NEW q \in Paths, CopyStart(p, q)
  PROVE  IInv'
<1>. USE DEF IInv, CopyStart, Serving, TakenFrom, Request, NewTransfer, Fault, NoFault
<1>1. TypeOK'
  <2>1. transfers' \in 0..MaxTransfers /\ faults' \in 0..MaxFaults
    BY DEF TypeOK
  <2>2. http' \in Requests \cup {NoRequest}
    <3>1. transfers + 1 \in Nat
      BY DEF TypeOK
    <3>2. Request("copy", q) \in Requests
      BY <3>1 DEF Request, Requests
    <3>. QED  BY <3>2 DEF TypeOK
  <2>3. /\ http'.kind = "upload" => ~http'.existed
        /\ http' # NoRequest => running'
    BY RequestFacts DEF TypeOK, Request
  <2>4. card' \in [Paths -> Contents] /\ promised' \in [Paths -> Contents]
    BY <2>1, ContentsFacts, RequestFacts DEF TypeOK
  <2>5. davtmp' \in [Paths -> Contents]
    BY <2>1, ContentsFacts, RequestFacts DEF TypeOK
  <2>6. spoiled' \subseteq Nat
    <3>1. transfers + 1 \in Nat /\ wsTransfer \in Nat
      BY DEF TypeOK
    <3>. QED  BY <3>1 DEF TypeOK
  <2>7. /\ wsUploadPath' \in Paths \cup {NoPath} /\ wsTransfer' \in Nat
        /\ wsUploadClientNum' \in Clients \cup {NoClient} /\ wsUploadInProgress' \in BOOLEAN
    BY <2>1 DEF TypeOK
  <2>. QED  BY <2>1, <2>2, <2>3, <2>4, <2>5, <2>6, <2>7 DEF TypeOK
<1>2. WritersAreSound'
  BY ContentsFacts, RequestFacts DEF TypeOK, WritersAreSound
<1>3. NoTruncatedFile'
  BY ContentsFacts, RequestFacts DEF TypeOK, WritersAreSound, NoTruncatedFile, BeingWritten
<1>4. PromisesAreKept'
  BY ContentsFacts, RequestFacts DEF TypeOK, WritersAreSound, PromisesAreKept
<1>5. UploadHasItsOwner'
  BY ContentsFacts, RequestFacts DEF TypeOK, UploadHasItsOwner
<1>. QED  BY <1>1, <1>2, <1>3, <1>4, <1>5

LEMMA CopyEndKeeps ==
  ASSUME IInv, CopyEnd
  PROVE  IInv'
<1>. USE DEF IInv, CopyEnd, RemoveFile, Fault, NoFault
<1>0. http.path \in Paths /\ http.id \in Nat /\ card[http.path] = PartOf(http.id)
  <2>1. http \in Requests
    BY RequestFacts DEF TypeOK
  <2>. QED  BY <2>1, RequestFacts DEF WritersAreSound
<1>1. TypeOK'
  <2>1. transfers' \in 0..MaxTransfers /\ faults' \in 0..MaxFaults
    BY DEF TypeOK
  <2>2. http' \in Requests \cup {NoRequest}
    BY <2>1, RequestFacts DEF TypeOK
  <2>3. /\ http'.kind = "upload" => ~http'.existed
        /\ http' # NoRequest => running'
    BY RequestFacts DEF TypeOK
  <2>4. card' \in [Paths -> Contents] /\ promised' \in [Paths -> Contents]
    BY <1>0, ContentsFacts, RequestFacts DEF TypeOK
  <2>5. davtmp' \in [Paths -> Contents]
    BY <2>1, ContentsFacts, RequestFacts DEF TypeOK
  <2>6. spoiled' \subseteq Nat
    BY <1>0 DEF TypeOK
  <2>7. /\ wsUploadPath' \in Paths \cup {NoPath} /\ wsTransfer' \in Nat
        /\ wsUploadClientNum' \in Clients \cup {NoClient} /\ wsUploadInProgress' \in BOOLEAN
    BY <2>1 DEF TypeOK
  <2>. QED  BY <2>1, <2>2, <2>3, <2>4, <2>5, <2>6, <2>7 DEF TypeOK
<1>2. WritersAreSound'
  <2>1. wsUploadInProgress => http.id # wsTransfer
    BY RequestFacts DEF WritersAreSound
  <2>2. wsUploadInProgress => card'[wsUploadPath] = PartOf(wsTransfer) \/ wsTransfer \in spoiled'
    BY <1>0, <2>1, ContentsFacts DEF TypeOK, WritersAreSound
  <2>3. \A p \in Paths : promised'[p] # Absent => promised'[p].whole
    BY <1>0, ContentsFacts DEF TypeOK, WritersAreSound
  <2>. QED  BY <2>2, <2>3, RequestFacts DEF WritersAreSound
<1>3. NoTruncatedFile'
  BY <1>0, ContentsFacts, RequestFacts DEF TypeOK, WritersAreSound, NoTruncatedFile, BeingWritten
<1>4. PromisesAreKept'
  BY <1>0, ContentsFacts, RequestFacts DEF TypeOK, WritersAreSound, PromisesAreKept
<1>5. UploadHasItsOwner'
  BY ContentsFacts, RequestFacts DEF TypeOK, UploadHasItsOwner
<1>. QED  BY <1>1, <1>2, <1>3, <1>4, <1>5

LEMMA WsConnectKeeps ==
  ASSUME IInv, NEW c \in Clients, WsConnect(c)
  PROVE  IInv'
<1>. USE DEF IInv, WsConnect, Serving
<1>1. TypeOK'
  BY ContentsFacts, RequestFacts DEF TypeOK
<1>2. WritersAreSound'
  BY ContentsFacts, RequestFacts DEF TypeOK, WritersAreSound
<1>3. NoTruncatedFile'
  BY ContentsFacts, RequestFacts DEF TypeOK, WritersAreSound, NoTruncatedFile, BeingWritten
<1>4. PromisesAreKept'
  BY ContentsFacts, RequestFacts DEF TypeOK, WritersAreSound, PromisesAreKept
<1>5. UploadHasItsOwner'
  BY ContentsFacts, RequestFacts DEF TypeOK, UploadHasItsOwner
<1>. QED  BY <1>1, <1>2, <1>3, <1>4, <1>5

LEMMA WsDisconnectKeeps ==
  ASSUME IInv, NEW c \in Clients, WsDisconnect(c)
  PROVE  IInv'
<1>. USE DEF IInv, WsDisconnect, Serving, AbortWsUpload, NothingAborted, RemoveFile, Fault, NoFault
<1>1. TypeOK'
  <2>1. transfers' \in 0..MaxTransfers /\ faults' \in 0..MaxFaults
    BY DEF TypeOK
  <2>2. http' \in Requests \cup {NoRequest}
    BY <2>1, RequestFacts DEF TypeOK
  <2>3. /\ http'.kind = "upload" => ~http'.existed
        /\ http' # NoRequest => running'
    BY RequestFacts DEF TypeOK
  <2>4. card' \in [Paths -> Contents] /\ promised' \in [Paths -> Contents]
    BY <2>1, ContentsFacts, RequestFacts DEF TypeOK
  <2>5. davtmp' \in [Paths -> Contents]
    BY <2>1, ContentsFacts, RequestFacts DEF TypeOK
  <2>6. spoiled' \subseteq Nat
    BY <2>1, RequestFacts DEF TypeOK
  <2>7. /\ wsUploadPath' \in Paths \cup {NoPath} /\ wsTransfer' \in Nat
        /\ wsUploadClientNum' \in Clients \cup {NoClient} /\ wsUploadInProgress' \in BOOLEAN
    BY <2>1 DEF TypeOK
  <2>. QED  BY <2>1, <2>2, <2>3, <2>4, <2>5, <2>6, <2>7 DEF TypeOK
<1>2. WritersAreSound'
  BY ContentsFacts, RequestFacts DEF TypeOK, WritersAreSound
<1>3. NoTruncatedFile'
  BY ContentsFacts, RequestFacts DEF TypeOK, WritersAreSound, NoTruncatedFile, BeingWritten
<1>4. PromisesAreKept'
  BY ContentsFacts, RequestFacts DEF TypeOK, WritersAreSound, PromisesAreKept
<1>5. UploadHasItsOwner'
  BY ContentsFacts, RequestFacts DEF TypeOK, UploadHasItsOwner
<1>. QED  BY <1>1, <1>2, <1>3, <1>4, <1>5

LEMMA WsStartKeeps ==
  ASSUME IInv, NEW c \in Clients, NEW p \in Paths, WsStart(c, p)
  PROVE  IInv'
<1>. USE DEF IInv, WsStart, Serving, NewTransfer
<1>1. TypeOK'
  <2>1. transfers' \in 0..MaxTransfers /\ faults' \in 0..MaxFaults
    BY DEF TypeOK
  <2>2. http' \in Requests \cup {NoRequest}
    BY <2>1, RequestFacts DEF TypeOK
  <2>3. /\ http'.kind = "upload" => ~http'.existed
        /\ http' # NoRequest => running'
    BY RequestFacts DEF TypeOK
  <2>4. card' \in [Paths -> Contents] /\ promised' \in [Paths -> Contents]
    BY <2>1, ContentsFacts, RequestFacts DEF TypeOK
  <2>5. davtmp' \in [Paths -> Contents]
    BY <2>1, ContentsFacts, RequestFacts DEF TypeOK
  <2>6. spoiled' \subseteq Nat
    BY <2>1, RequestFacts DEF TypeOK
  <2>7. /\ wsUploadPath' \in Paths \cup {NoPath} /\ wsTransfer' \in Nat
        /\ wsUploadClientNum' \in Clients \cup {NoClient} /\ wsUploadInProgress' \in BOOLEAN
    <3>1. transfers + 1 \in Nat
      BY DEF TypeOK
    <3>. QED  BY <3>1 DEF TypeOK
  <2>. QED  BY <2>1, <2>2, <2>3, <2>4, <2>5, <2>6, <2>7 DEF TypeOK
<1>2. WritersAreSound'
  BY ContentsFacts, RequestFacts DEF TypeOK, WritersAreSound
<1>3. NoTruncatedFile'
  BY ContentsFacts, RequestFacts DEF TypeOK, WritersAreSound, NoTruncatedFile, BeingWritten
<1>4. PromisesAreKept'
  BY ContentsFacts, RequestFacts DEF TypeOK, WritersAreSound, PromisesAreKept
<1>5. UploadHasItsOwner'
  BY ContentsFacts, RequestFacts DEF TypeOK, UploadHasItsOwner
<1>. QED  BY <1>1, <1>2, <1>3, <1>4, <1>5

LEMMA WsUploadDoneKeeps ==
  ASSUME IInv, NEW c \in Clients, WsUploadDone(c)
  PROVE  IInv'
<1>. USE DEF IInv, WsUploadDone, Serving, Fault, NoFault
<1>1. TypeOK'
  <2>1. transfers' \in 0..MaxTransfers /\ faults' \in 0..MaxFaults
    BY DEF TypeOK
  <2>2. http' \in Requests \cup {NoRequest}
    BY <2>1, RequestFacts DEF TypeOK
  <2>3. /\ http'.kind = "upload" => ~http'.existed
        /\ http' # NoRequest => running'
    BY RequestFacts DEF TypeOK
  <2>4. card' \in [Paths -> Contents] /\ promised' \in [Paths -> Contents]
    <3>1. FileOf(wsTransfer) \in Contents /\ Absent \in Contents
      BY ContentsFacts DEF TypeOK
    <3>2. card' \in [Paths -> Contents]
      BY <3>1 DEF TypeOK
    <3>3. promised' \in [Paths -> Contents]
      BY <3>1 DEF TypeOK
    <3>. QED  BY <3>2, <3>3
  <2>5. davtmp' \in [Paths -> Contents]
    BY <2>1, ContentsFacts, RequestFacts DEF TypeOK
  <2>6. spoiled' \subseteq Nat
    BY <2>1, RequestFacts DEF TypeOK
  <2>7. /\ wsUploadPath' \in Paths \cup {NoPath} /\ wsTransfer' \in Nat
        /\ wsUploadClientNum' \in Clients \cup {NoClient} /\ wsUploadInProgress' \in BOOLEAN
    BY <2>1 DEF TypeOK
  <2>. QED  BY <2>1, <2>2, <2>3, <2>4, <2>5, <2>6, <2>7 DEF TypeOK
<1>2. WritersAreSound'
  BY ContentsFacts, RequestFacts DEF TypeOK, WritersAreSound
<1>3. NoTruncatedFile'
  BY ContentsFacts, RequestFacts DEF TypeOK, WritersAreSound, NoTruncatedFile, BeingWritten
<1>4. PromisesAreKept'
  BY ContentsFacts, RequestFacts DEF TypeOK, WritersAreSound, PromisesAreKept
<1>5. UploadHasItsOwner'
  BY ContentsFacts, RequestFacts DEF TypeOK, UploadHasItsOwner
<1>. QED  BY <1>1, <1>2, <1>3, <1>4, <1>5

LEMMA WsUploadFailsKeeps ==
  ASSUME IInv, NEW c \in Clients, WsUploadFails(c)
  PROVE  IInv'
<1>. USE DEF IInv, WsUploadFails, Serving, AbortWsUpload, RemoveFile, Fault, NoFault
<1>1. TypeOK'
  <2>1. transfers' \in 0..MaxTransfers /\ faults' \in 0..MaxFaults
    BY DEF TypeOK
  <2>2. http' \in Requests \cup {NoRequest}
    BY <2>1, RequestFacts DEF TypeOK
  <2>3. /\ http'.kind = "upload" => ~http'.existed
        /\ http' # NoRequest => running'
    BY RequestFacts DEF TypeOK
  <2>4. card' \in [Paths -> Contents] /\ promised' \in [Paths -> Contents]
    <3>1. FileOf(wsTransfer) \in Contents /\ Absent \in Contents
      BY ContentsFacts DEF TypeOK
    <3>2. card' \in [Paths -> Contents]
      BY <3>1 DEF TypeOK
    <3>3. promised' \in [Paths -> Contents]
      BY <3>1 DEF TypeOK
    <3>. QED  BY <3>2, <3>3
  <2>5. davtmp' \in [Paths -> Contents]
    BY <2>1, ContentsFacts, RequestFacts DEF TypeOK
  <2>6. spoiled' \subseteq Nat
    BY <2>1, RequestFacts DEF TypeOK
  <2>7. /\ wsUploadPath' \in Paths \cup {NoPath} /\ wsTransfer' \in Nat
        /\ wsUploadClientNum' \in Clients \cup {NoClient} /\ wsUploadInProgress' \in BOOLEAN
    BY <2>1 DEF TypeOK
  <2>. QED  BY <2>1, <2>2, <2>3, <2>4, <2>5, <2>6, <2>7 DEF TypeOK
<1>2. WritersAreSound'
  BY ContentsFacts, RequestFacts DEF TypeOK, WritersAreSound
<1>3. NoTruncatedFile'
  BY ContentsFacts, RequestFacts DEF TypeOK, WritersAreSound, NoTruncatedFile, BeingWritten
<1>4. PromisesAreKept'
  BY ContentsFacts, RequestFacts DEF TypeOK, WritersAreSound, PromisesAreKept
<1>5. UploadHasItsOwner'
  BY ContentsFacts, RequestFacts DEF TypeOK, UploadHasItsOwner
<1>. QED  BY <1>1, <1>2, <1>3, <1>4, <1>5

LEMMA StartKeeps ==
  ASSUME IInv, Start
  PROVE  IInv'
<1>. USE DEF IInv, Start
<1>1. TypeOK'
  BY ContentsFacts, RequestFacts DEF TypeOK
<1>2. WritersAreSound'
  BY ContentsFacts, RequestFacts DEF TypeOK, WritersAreSound
<1>3. NoTruncatedFile'
  BY ContentsFacts, RequestFacts DEF TypeOK, WritersAreSound, NoTruncatedFile, BeingWritten
<1>4. PromisesAreKept'
  BY ContentsFacts, RequestFacts DEF TypeOK, WritersAreSound, PromisesAreKept
<1>5. UploadHasItsOwner'
  BY ContentsFacts, RequestFacts DEF TypeOK, UploadHasItsOwner
<1>. QED  BY <1>1, <1>2, <1>3, <1>4, <1>5

LEMMA StopKeeps ==
  ASSUME IInv, Stop
  PROVE  IInv'
<1>. USE DEF IInv, Stop, Serving, AbortWsUpload, NothingAborted, RemoveFile, Fault, NoFault
<1>1. TypeOK'
  <2>1. transfers' \in 0..MaxTransfers /\ faults' \in 0..MaxFaults
    BY DEF TypeOK
  <2>2. http' \in Requests \cup {NoRequest}
    BY <2>1, RequestFacts DEF TypeOK
  <2>3. /\ http'.kind = "upload" => ~http'.existed
        /\ http' # NoRequest => running'
    BY RequestFacts DEF TypeOK
  <2>4. card' \in [Paths -> Contents] /\ promised' \in [Paths -> Contents]
    BY <2>1, ContentsFacts, RequestFacts DEF TypeOK
  <2>5. davtmp' \in [Paths -> Contents]
    BY <2>1, ContentsFacts, RequestFacts DEF TypeOK
  <2>6. spoiled' \subseteq Nat
    BY <2>1, RequestFacts DEF TypeOK
  <2>7. /\ wsUploadPath' \in Paths \cup {NoPath} /\ wsTransfer' \in Nat
        /\ wsUploadClientNum' \in Clients \cup {NoClient} /\ wsUploadInProgress' \in BOOLEAN
    BY <2>1 DEF TypeOK
  <2>. QED  BY <2>1, <2>2, <2>3, <2>4, <2>5, <2>6, <2>7 DEF TypeOK
<1>2. WritersAreSound'
  BY ContentsFacts, RequestFacts DEF TypeOK, WritersAreSound
<1>3. NoTruncatedFile'
  BY ContentsFacts, RequestFacts DEF TypeOK, WritersAreSound, NoTruncatedFile, BeingWritten
<1>4. PromisesAreKept'
  BY ContentsFacts, RequestFacts DEF TypeOK, WritersAreSound, PromisesAreKept
<1>5. UploadHasItsOwner'
  BY ContentsFacts, RequestFacts DEF TypeOK, UploadHasItsOwner
<1>. QED  BY <1>1, <1>2, <1>3, <1>4, <1>5

LEMMA SuspendTransferServicesKeeps ==
  ASSUME IInv, SuspendTransferServices
  PROVE  IInv'
<1>. USE DEF IInv, SuspendTransferServices, Serving
<1>1. TypeOK'
  BY ContentsFacts, RequestFacts DEF TypeOK
<1>2. WritersAreSound'
  BY ContentsFacts, RequestFacts DEF TypeOK, WritersAreSound
<1>3. NoTruncatedFile'
  BY ContentsFacts, RequestFacts DEF TypeOK, WritersAreSound, NoTruncatedFile, BeingWritten
<1>4. PromisesAreKept'
  BY ContentsFacts, RequestFacts DEF TypeOK, WritersAreSound, PromisesAreKept
<1>5. UploadHasItsOwner'
  BY ContentsFacts, RequestFacts DEF TypeOK, UploadHasItsOwner
<1>. QED  BY <1>1, <1>2, <1>3, <1>4, <1>5

LEMMA PowerCutKeeps ==
  ASSUME IInv, PowerCut
  PROVE  IInv'
<1>. USE DEF IInv, PowerCut, Fault
<1>1. TypeOK'
  <2>1. transfers' \in 0..MaxTransfers /\ faults' \in 0..MaxFaults
    BY DEF TypeOK
  <2>2. http' \in Requests \cup {NoRequest}
    BY <2>1, RequestFacts DEF TypeOK
  <2>3. /\ http'.kind = "upload" => ~http'.existed
        /\ http' # NoRequest => running'
    BY RequestFacts DEF TypeOK
  <2>4. card' \in [Paths -> Contents] /\ promised' \in [Paths -> Contents]
    BY <2>1, ContentsFacts, RequestFacts DEF TypeOK
  <2>5. davtmp' \in [Paths -> Contents]
    BY <2>1, ContentsFacts, RequestFacts DEF TypeOK
  <2>6. spoiled' \subseteq Nat
    BY <2>1, RequestFacts DEF TypeOK
  <2>7. /\ wsUploadPath' \in Paths \cup {NoPath} /\ wsTransfer' \in Nat
        /\ wsUploadClientNum' \in Clients \cup {NoClient} /\ wsUploadInProgress' \in BOOLEAN
    BY <2>1 DEF TypeOK
  <2>. QED  BY <2>1, <2>2, <2>3, <2>4, <2>5, <2>6, <2>7 DEF TypeOK
<1>2. WritersAreSound'
  BY ContentsFacts, RequestFacts DEF TypeOK, WritersAreSound
<1>3. NoTruncatedFile'
  BY ContentsFacts, RequestFacts DEF TypeOK, WritersAreSound, NoTruncatedFile, BeingWritten
<1>4. PromisesAreKept'
  BY ContentsFacts, RequestFacts DEF TypeOK, WritersAreSound, PromisesAreKept
<1>5. UploadHasItsOwner'
  BY ContentsFacts, RequestFacts DEF TypeOK, UploadHasItsOwner
<1>. QED  BY <1>1, <1>2, <1>3, <1>4, <1>5

-----------------------------------------------------------------------------
(* The steps together. *)
LEMMA StepKeeps ==
  ASSUME IInv, [Next]_vars
  PROVE  IInv'
<1>1. CASE HttpUpload
  BY <1>1, HttpUploadStartKeeps, HttpUploadAbortedKeeps, HttpUploadEndKeeps,
     HttpUploadLeftOpenKeeps DEF HttpUpload
<1>2. CASE WebDAV
  BY <1>2, PutStartKeeps, PutFailsKeeps, PutRemovesTargetKeeps, PutRenamesKeeps,
     MoveOverKeeps, CopyStartKeeps, CopyEndKeeps DEF WebDAV
<1>3. CASE WsEvent
  BY <1>3, WsConnectKeeps, WsDisconnectKeeps, WsStartKeeps, WsUploadDoneKeeps,
     WsUploadFailsKeeps DEF WsEvent
<1>4. CASE (\E p \in Paths : Delete(p)) \/ (\E p, q \in Paths : Move(p, q))
  BY <1>4, DeleteKeeps, MoveKeeps
<1>5. CASE Start \/ Stop \/ SuspendTransferServices \/ PowerCut
  BY <1>5, StartKeeps, StopKeeps, SuspendTransferServicesKeeps, PowerCutKeeps
<1>6. CASE UNCHANGED vars
  <2>1. TypeOK'
    BY <1>6 DEF IInv, TypeOK
  <2>2. WritersAreSound' /\ UploadHasItsOwner'
    BY <1>6 DEF IInv, WritersAreSound, UploadHasItsOwner
  <2>3. NoTruncatedFile' /\ PromisesAreKept'
    BY <1>6 DEF IInv, NoTruncatedFile, BeingWritten, PromisesAreKept
  <2>. QED  BY <2>1, <2>2, <2>3 DEF IInv
<1>. QED  BY <1>1, <1>2, <1>3, <1>4, <1>5, <1>6 DEF Next

LEMMA Invariance == Spec => []IInv
<1>1. IInv /\ [Next]_vars => IInv'
  BY StepKeeps
<1>. QED  BY <1>1, InitEstablishes, PTL DEF Spec

-----------------------------------------------------------------------------
(* Every variable keeps its type, and an upload by HTTP has found its name *)
(* free.                                                                   *)
THEOREM TypeCorrect == Spec => []TypeOK
<1>1. IInv => TypeOK
  BY DEF IInv
<1>. QED  BY <1>1, Invariance, PTL

(* "Drop a partially written upload so a truncated book never lands in the *)
(* library" (CrossPointWebServer.cpp:1632), for any number of transfers.   *)
THEOREM NoTruncatedFileHolds == Spec => []NoTruncatedFile
<1>1. IInv => NoTruncatedFile
  BY DEF IInv
<1>. QED  BY <1>1, Invariance, PTL

(* What a client was told is stored stays stored, whatever the others do.  *)
THEOREM PromisesAreKeptHolds == Spec => []PromisesAreKept
<1>1. IInv => PromisesAreKept
  BY DEF IInv
<1>. QED  BY <1>1, Invariance, PTL

(* The upload that is open belongs to a client that can still end it.      *)
THEOREM UploadHasItsOwnerHolds == Spec => []UploadHasItsOwner
<1>1. IInv => UploadHasItsOwner
  BY DEF IInv
<1>. QED  BY <1>1, Invariance, PTL

(* The late disconnect of one client leaves the upload of another alone    *)
(* (CrossPointWebServer.cpp:3474).                                         *)
THEOREM LateDisconnectIsHarmlessHolds == Spec => LateDisconnectIsHarmless
<1> DEFINE Harmless ==
      connected' # connected /\ running' /\ wsUploadInProgress
        => wsUploadClientNum \notin connected' \/ UNCHANGED <<ws, card>>
<1>1. IInv /\ [Next]_vars => [Harmless]_vars
  <2>. SUFFICES ASSUME IInv, Next, connected' # connected, running',
                       wsUploadInProgress, wsUploadClientNum \in connected'
                PROVE  UNCHANGED <<ws, card>>
    OBVIOUS
  <2>1. ~HttpUpload
    BY DEF HttpUpload, HttpUploadStart, HttpUploadAborted, HttpUploadEnd, HttpUploadLeftOpen
  <2>2. ~WebDAV
    BY DEF WebDAV, PutStart, PutFails, PutRemovesTarget, PutRenames, MoveOver, CopyStart, CopyEnd
  <2>3. ~((\E p \in Paths : Delete(p)) \/ (\E p, q \in Paths : Move(p, q)))
    BY DEF Delete, Move
  <2>4. ~(Start \/ Stop \/ SuspendTransferServices \/ PowerCut)
    BY DEF Start, Stop, SuspendTransferServices, PowerCut
  <2>5. PICK c \in Clients :
          \/ WsConnect(c) \/ WsDisconnect(c) \/ WsUploadDone(c) \/ WsUploadFails(c)
          \/ \E p \in Paths : WsStart(c, p)
    BY <2>1, <2>2, <2>3, <2>4 DEF Next, WsEvent
  <2>6. WsConnect(c) \/ WsDisconnect(c)
    BY <2>5 DEF WsUploadDone, WsUploadFails, WsStart
  <2>7. CASE WsConnect(c)
    BY <2>7 DEF WsConnect
  <2>8. CASE WsDisconnect(c)
    BY <2>8 DEF WsDisconnect, NothingAborted
  <2>. QED  BY <2>6, <2>7, <2>8
<1>. QED  BY <1>1, Invariance, PTL DEF Spec, LateDisconnectIsHarmless
===============================================================================
