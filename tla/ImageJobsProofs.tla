--------------------------- MODULE ImageJobsProofs ----------------------------
(***************************************************************************)
(* Proofs about the repository and the requests for images, for every      *)
(* number of threads, clients, images, requests and chunks.                *)
(*                                                                         *)
(* First the calls of the repository: a client is owned by one call and    *)
(* never lost, and an image that is not whole is being updated, or was     *)
(* updated by two calls at once or by one that failed.  Then the requests: *)
(* what Done was sent for is in the stored image or an update failed half  *)
(* way, overlapped or was made of an old version, nothing is applied twice *)
(* before a restart, and clients and codecs are lent to one holder at a    *)
(* time.                                                                   *)
(***************************************************************************)
EXTENDS ImageJobs, SequenceTheorems, FiniteSetTheorems, TLAPS

Window == {"removeChunks", "openUpload", "write", "close"}
UpdateLabels == {"updatePop", "find", "remove", "updatePush"} \cup Window

\* What a call knows: its arguments, where its loop is, and that a stream is
\* only spoiled by its own writes.
CallInv ==
  \A w \in Workers :
    /\ mpc[w] # "out" => img[w] \in Images
    /\ mpc[w] \in UpdateLabels => filedata[w] \in Versions
    /\ mpc[w] \notin {"read", "write"} => chunk[w] = 1
    /\ mpc[w] \notin {"write", "close", "updatePush"} => ~ spoiled[w]

MongoIInv == MongoInv /\ CallInv

LEMMA NoneIsNothing == None \notin Clients /\ None \notin Images /\ None \notin Versions
BY MongoAssumption

LEMMA ChunksAreThere == Chunks \in Nat /\ Chunks >= 1 /\ 1 \in 1..Chunks
BY MongoAssumption

-----------------------------------------------------------------------------
(* Types and calls                                                         *)

LEMMA NoChunksType == NoChunks \in [1..Chunks -> Versions \cup {None}]
BY DEF NoChunks

LEMMA NextChunkStays ==
  ASSUME NEW w \in Workers, NEW label \in Labels, NextChunk(w, label),
         mpc \in [Workers -> Labels], chunk \in [Workers -> 1..Chunks]
  PROVE  /\ mpc' \in [Workers -> Labels]
         /\ chunk' \in [Workers -> 1..Chunks]
         /\ \A v \in Workers \ {w} : mpc'[v] = mpc[v] /\ chunk'[v] = chunk[v]
         /\ \/ chunk[w] < Chunks /\ chunk'[w] = chunk[w] + 1 /\ mpc'[w] = mpc[w]
            \/ chunk[w] = Chunks /\ chunk'[w] = 1 /\ mpc'[w] = label
<1>1. CASE chunk[w] < Chunks
  BY <1>1, ChunksAreThere DEF NextChunk
<1>2. CASE ~ (chunk[w] < Chunks)
  <2>1. chunk[w] = Chunks
    BY <1>2, ChunksAreThere
  <2> QED BY <1>2, <2>1, ChunksAreThere DEF NextChunk, Goto
<1> QED BY <1>1, <1>2

LEMMA InitMongo == MongoInit => MongoIInv
<1> SUFFICES ASSUME MongoInit PROVE MongoIInv
  OBVIOUS
<1> USE DEF MongoInit, Quiet, ForAll
<1>1. MongoTypeOK
  BY NoChunksType, ChunksAreThere DEF MongoTypeOK, Labels
<1>2. ClientsInv /\ NoClientLost
  BY DEF ClientsInv, NoClientLost, UsesClient, Owns
<1>3. \A i \in Images : Whole(i)
  BY NoneIsNothing DEF Whole
<1>4. \A w \in Workers : ~ InWindow(w)
  BY DEF InWindow
<1>5. StoreInv
  BY <1>3, <1>4 DEF StoreInv, LossNeedsFailure
<1>6. CallInv
  BY DEF CallInv, UpdateLabels, Window
<1> QED BY <1>1, <1>2, <1>5, <1>6 DEF MongoIInv, MongoInv

\* The ways in which a thread gets on: a call begins, a call goes on, a call
\* returns, or a caller drops what it got.
CallStep(w) ==
  \/ \E i \in Images : CallGet(w, i) \/ \E c \in Versions : CallUpdate(w, i, c)
  \/ Drop(w) \/ GetStep(w) \/ UpdateStep(w)

LEMMA PopTypes ==
  ASSUME MongoTypeOK, CallInv, NEW w \in Workers, Pop(w, "getPop", "open") \/ Pop(w, "updatePop", "find")
  PROVE  MongoTypeOK' /\ CallInv'
<1>1. /\ free' \in SUBSET Clients /\ client' \in [Workers -> Clients \cup {None}]
      /\ mpc' \in [Workers -> Labels]
  BY DEF Pop, Continue, Goto, MongoTypeOK, Labels
<1>2. UNCHANGED <<callVars, chunk, ret, spoiled, storeVars, historyVars>>
  BY DEF Pop, Continue
<1>3. MongoTypeOK'
  BY <1>1, <1>2 DEF MongoTypeOK, callVars, storeVars, historyVars
<1>4. CallInv'
  BY <1>2 DEF Pop, Continue, Goto, CallInv, callVars, MongoTypeOK, UpdateLabels, Window
<1> QED BY <1>3, <1>4

LEMMA ReturnTypes ==
  ASSUME MongoTypeOK, CallInv, NEW w \in Workers, Return(w), free' \in SUBSET Clients,
         mpc[w] \in {"destroy", "updatePush"}
  PROVE  MongoTypeOK' /\ CallInv'
<1>1. MongoTypeOK'
  BY DEF Return, Continue, Goto, MongoTypeOK, Labels, storeVars, historyVars
<1>2. CallInv'
  BY DEF Return, Continue, Goto, CallInv, MongoTypeOK, UpdateLabels, Window
<1> QED BY <1>1, <1>2

\* A step that only changes the label and perhaps what is returned.
LEMMA MoveTypes ==
  ASSUME MongoTypeOK, CallInv, NEW w \in Workers, NEW label \in Labels,
         mpc[w] # "out", mpc[w] \in UpdateLabels <=> label \in UpdateLabels,
         chunk[w] = 1, ~ spoiled[w], label # "out",
         Continue(w, label) \/ GiveUp(w, label),
         UNCHANGED <<poolVars, callVars, chunk, spoiled>>,
         files' \in [Images -> Versions \cup {None}],
         chunks' \in [Images -> [1..Chunks -> Versions \cup {None}]],
         overlap' \in SUBSET Images, broken' \in SUBSET Images
  PROVE  MongoTypeOK' /\ CallInv'
<1>1. mpc' \in [Workers -> Labels] /\ ret' \in [Workers -> {"ok", "error"}]
  BY DEF Continue, GiveUp, Goto, MongoTypeOK
<1>2. MongoTypeOK'
  BY <1>1 DEF MongoTypeOK, poolVars, callVars
<1>3. CallInv'
  BY DEF Continue, GiveUp, Goto, CallInv, MongoTypeOK, callVars
<1> QED BY <1>2, <1>3

LEMMA CallStepTypes ==
  ASSUME MongoTypeOK, ClientsInv, CallInv, NEW w \in Workers, CallStep(w)
  PROVE  MongoTypeOK' /\ CallInv'
<1> DEFINE Goal == MongoTypeOK /\ CallInv
<1> SUFFICES Goal'
  OBVIOUS
<1>t. /\ mpc \in [Workers -> Labels] /\ chunk \in [Workers -> 1..Chunks]
      /\ files \in [Images -> Versions \cup {None}]
      /\ chunks \in [Images -> [1..Chunks -> Versions \cup {None}]]
      /\ overlap \in SUBSET Images /\ broken \in SUBSET Images
  BY DEF MongoTypeOK
<1>1. ASSUME NEW i \in Images, CallGet(w, i) PROVE Goal'
  <2>1. MongoTypeOK'
    BY <1>1 DEF CallGet, Goto, MongoTypeOK, Labels, poolVars, storeVars, historyVars
  <2>2. CallInv'
    BY <1>1 DEF CallGet, Goto, MongoTypeOK, CallInv, UpdateLabels, Window
  <2> QED BY <2>1, <2>2
<1>2. ASSUME NEW i \in Images, NEW c \in Versions, CallUpdate(w, i, c) PROVE Goal'
  <2>1. MongoTypeOK'
    BY <1>2, NoChunksType DEF CallUpdate, Goto, MongoTypeOK, Labels, poolVars, storeVars, historyVars
  <2>2. CallInv'
    BY <1>2 DEF CallUpdate, Goto, MongoTypeOK, CallInv, UpdateLabels, Window
  <2> QED BY <2>1, <2>2
<1>3. CASE Drop(w)
  <2>1. MongoTypeOK'
    BY <1>3, NoChunksType DEF Drop, MongoTypeOK, poolVars, storeVars, historyVars
  <2>2. CallInv'
    BY <1>3 DEF Drop, CallInv
  <2> QED BY <2>1, <2>2
<1>4. CASE GetStep(w)
  <2>1. CASE GetPop(w)
    BY <2>1, PopTypes DEF GetPop
  <2>2. CASE Open(w)
    <3>1. /\ "read" \in Labels /\ "getPush" \in Labels
          /\ {"open", "read", "getPush"} \cap UpdateLabels = {}
      BY DEF Labels, UpdateLabels, Window
    <3>2. mpc[w] = "open" /\ (Continue(w, "read") \/ GiveUp(w, "getPush"))
      BY <2>2 DEF Open
    <3>3. UNCHANGED <<poolVars, callVars, chunk, spoiled, storeVars, historyVars>>
      BY <2>2 DEF Open
    <3>4. chunk[w] = 1 /\ ~ spoiled[w]
      BY <3>2 DEF CallInv
    <3>5. CASE Continue(w, "read")
      BY <3>1, <3>2, <3>3, <3>4, <3>5, <1>t, MoveTypes DEF storeVars, historyVars
    <3>6. CASE GiveUp(w, "getPush")
      BY <3>1, <3>2, <3>3, <3>4, <3>6, <1>t, MoveTypes DEF storeVars, historyVars
    <3> QED BY <3>2, <3>5, <3>6
  <2>3. CASE ReadChunk(w)
    <3> DEFINE read == chunks[img[w]][chunk[w]]
    <3>1. mpc[w] = "read" /\ img[w] \in Images /\ chunk[w] \in 1..Chunks /\ read \in Versions \cup {None}
      BY <2>3, <1>t DEF ReadChunk, CallInv
    <3> HIDE DEF read
    <3>2. outBuf' = [outBuf EXCEPT ![w][chunk[w]] = read] /\ NextChunk(w, "getPush")
      BY <2>3 DEF ReadChunk, read
    <3>3. outBuf' \in [Workers -> [1..Chunks -> Versions \cup {None}]]
      BY <3>1, <3>2 DEF MongoTypeOK
    <3>4. UNCHANGED <<poolVars, img, filedata, ret, spoiled, storeVars, historyVars>>
      BY <2>3 DEF ReadChunk
    <3>5. /\ mpc' \in [Workers -> Labels] /\ chunk' \in [Workers -> 1..Chunks]
          /\ \A v \in Workers \ {w} : mpc'[v] = mpc[v] /\ chunk'[v] = chunk[v]
          /\ \/ mpc'[w] = "read"
             \/ chunk'[w] = 1 /\ mpc'[w] = "getPush"
      BY <3>1, <3>2, <1>t, NextChunkStays DEF Labels
    <3>6. MongoTypeOK'
      BY <3>3, <3>4, <3>5 DEF MongoTypeOK, poolVars, storeVars, historyVars
    <3>7. CallInv'
      BY <3>1, <3>4, <3>5 DEF CallInv, UpdateLabels, Window
    <3> QED BY <3>6, <3>7
  <2>4. CASE ReadFailsAtFirst(w)
    <3>1. /\ mpc[w] = "read" /\ chunk[w] = 1 /\ ~ spoiled[w] /\ GiveUp(w, "getPush")
          /\ UNCHANGED <<poolVars, callVars, chunk, spoiled, storeVars, historyVars>>
      BY <2>4 DEF ReadFailsAtFirst, CallInv
    <3>2. "getPush" \in Labels /\ {"read", "getPush"} \cap UpdateLabels = {}
      BY DEF Labels, UpdateLabels, Window
    <3> QED BY <3>1, <3>2, <1>t, MoveTypes DEF storeVars, historyVars
  <2>5. CASE GetPush(w)
    <3>1. /\ mpc[w] = "getPush" /\ Continue(w, "destroy") /\ free' = free \cup {client[w]}
          /\ UNCHANGED <<client, callVars, chunk, ret, spoiled, storeVars, historyVars>>
      BY <2>5 DEF GetPush, Push, Continue
    <3>2. client[w] \in Clients
      BY <3>1 DEF MongoTypeOK, ClientsInv, UsesClient, Owns
    <3>3. MongoTypeOK'
      BY <3>1, <3>2 DEF MongoTypeOK, Continue, Goto, Labels, callVars, storeVars, historyVars
    <3>4. CallInv'
      BY <3>1 DEF MongoTypeOK, Continue, Goto, CallInv, callVars, UpdateLabels, Window
    <3> QED BY <3>3, <3>4
  <2>6. CASE Destroy(w)
    BY <2>6, ReturnTypes DEF Destroy, MongoTypeOK
  <2> QED BY <1>4, <2>1, <2>2, <2>3, <2>4, <2>5, <2>6 DEF GetStep
<1>5. CASE UpdateStep(w)
  <2>0. ASSUME mpc[w] \in UpdateLabels \ {"write", "close", "updatePush"},
               NEW label \in UpdateLabels,
               Continue(w, label) \/ GiveUp(w, label),
               UNCHANGED <<poolVars, callVars, chunk, spoiled>>,
               files' \in [Images -> Versions \cup {None}],
               chunks' \in [Images -> [1..Chunks -> Versions \cup {None}]],
               overlap' \in SUBSET Images, broken' \in SUBSET Images
        PROVE  Goal'
    <3>1. mpc[w] # "out" /\ label # "out" /\ label \in Labels /\ mpc[w] \in UpdateLabels
      BY <2>0 DEF UpdateLabels, Window, Labels
    <3>2. chunk[w] = 1 /\ ~ spoiled[w]
      BY <2>0 DEF CallInv, UpdateLabels, Window
    <3> QED BY <2>0, <3>1, <3>2, MoveTypes
  <2>l. /\ {"find", "remove", "removeChunks", "openUpload"} \subseteq
             UpdateLabels \ {"write", "close", "updatePush"}
        /\ {"find", "remove", "removeChunks", "openUpload", "write", "close", "updatePush"}
             \subseteq UpdateLabels
    BY DEF UpdateLabels, Window
  <2>i. mpc[w] # "out" => img[w] \in Images
    BY DEF CallInv
  <2>1. CASE UpdatePop(w)
    BY <2>1, PopTypes DEF UpdatePop
  <2>2. CASE Find(w)
    BY <2>2, <2>0, <2>l, <1>t DEF Find, storeVars, historyVars
  <2>3. CASE RemoveDocument(w)
    <3>1. /\ mpc[w] = "remove" /\ img[w] \in Images
          /\ files' = [files EXCEPT ![img[w]] = None]
          /\ overlap' \subseteq overlap \cup {img[w]}
          /\ UNCHANGED <<chunks, broken>>
      BY <2>3, <2>i DEF RemoveDocument
    <3>2. /\ files' \in [Images -> Versions \cup {None}]
          /\ overlap' \in SUBSET Images
      BY <3>1, <1>t
    <3> QED BY <3>1, <3>2, <2>0, <2>3, <2>l, <1>t DEF RemoveDocument
  <2>4. CASE RemoveFails(w)
    BY <2>4, <2>0, <2>l, <1>t DEF RemoveFails, storeVars, historyVars
  <2>5. CASE RemoveChunks(w)
    <3>1. /\ mpc[w] = "removeChunks" /\ img[w] \in Images
          /\ chunks' = [chunks EXCEPT ![img[w]] = NoChunks]
          /\ UNCHANGED <<files, historyVars>>
      BY <2>5, <2>i DEF RemoveChunks
    <3>2. chunks' \in [Images -> [1..Chunks -> Versions \cup {None}]]
      BY <3>1, <1>t, NoChunksType
    <3> QED BY <3>1, <3>2, <2>0, <2>5, <2>l, <1>t DEF RemoveChunks, historyVars
  <2>6. CASE OpenUpload(w)
    BY <2>6, <2>0, <2>l, <1>t DEF OpenUpload, storeVars, historyVars
  <2>7. CASE ReplaceFails(w)
    <3>1. /\ mpc[w] \in {"removeChunks", "openUpload"} /\ img[w] \in Images
          /\ broken' = broken \cup {img[w]}
          /\ UNCHANGED <<storeVars, overlap>>
      BY <2>7, <2>i DEF ReplaceFails
    <3>2. broken' \in SUBSET Images
      BY <3>1, <1>t
    <3> QED BY <3>1, <3>2, <2>0, <2>7, <2>l, <1>t DEF ReplaceFails, storeVars
  <2>8. CASE Write(w)
    <3>1. /\ mpc[w] = "write" /\ img[w] \in Images /\ filedata[w] \in Versions
          /\ chunk[w] \in 1..Chunks
      BY <2>8, <2>i, <1>t DEF Write, CallInv, UpdateLabels, Window
    <3>2. /\ mpc' \in [Workers -> Labels] /\ chunk' \in [Workers -> 1..Chunks]
          /\ \A v \in Workers \ {w} : mpc'[v] = mpc[v] /\ chunk'[v] = chunk[v]
          /\ mpc'[w] = "write" \/ (chunk'[w] = 1 /\ mpc'[w] = "close")
      BY <2>8, <3>1, <1>t, NextChunkStays DEF Write, Labels
    <3>3. UNCHANGED <<poolVars, callVars, ret, files, overlap>>
      BY <2>8 DEF Write
    <3>4. /\ chunks' \in [Images -> [1..Chunks -> Versions \cup {None}]]
          /\ broken' \in SUBSET Images
          /\ spoiled' \in [Workers -> BOOLEAN]
          /\ \A v \in Workers \ {w} : spoiled'[v] = spoiled[v]
      <4>1. \/ /\ chunks' = [chunks EXCEPT ![img[w]][chunk[w]] = filedata[w]]
               /\ UNCHANGED <<spoiled, broken>>
            \/ /\ spoiled' = [spoiled EXCEPT ![w] = TRUE]
               /\ broken' = broken \cup {img[w]}
               /\ UNCHANGED chunks
        BY <2>8 DEF Write
      <4>2. CASE /\ chunks' = [chunks EXCEPT ![img[w]][chunk[w]] = filedata[w]]
                 /\ UNCHANGED <<spoiled, broken>>
        <5>1. chunks' \in [Images -> [1..Chunks -> Versions \cup {None}]]
          BY <3>1, <4>2, <1>t
        <5> QED BY <4>2, <5>1, <1>t DEF MongoTypeOK
      <4>3. CASE /\ spoiled' = [spoiled EXCEPT ![w] = TRUE]
                 /\ broken' = broken \cup {img[w]}
                 /\ UNCHANGED chunks
        BY <3>1, <4>3, <1>t DEF MongoTypeOK
      <4> QED BY <4>1, <4>2, <4>3
    <3>5. MongoTypeOK'
      BY <3>2, <3>3, <3>4 DEF MongoTypeOK, poolVars, callVars
    <3>6. CallInv'
      BY <3>1, <3>2, <3>3, <3>4 DEF CallInv, callVars, UpdateLabels, Window
    <3> QED BY <3>5, <3>6
  <2>9. CASE Close(w)
    <3>1. /\ mpc[w] = "close" /\ img[w] \in Images /\ filedata[w] \in Versions
          /\ Continue(w, "updatePush") /\ chunk[w] = 1
      BY <2>9, <2>i DEF Close, CallInv, UpdateLabels, Window
    <3>2. UNCHANGED <<poolVars, callVars, chunk, ret, spoiled, chunks, overlap>>
      BY <2>9 DEF Close, Continue
    <3>3. files' \in [Images -> Versions \cup {None}] /\ broken' \in SUBSET Images
      BY <2>9, <3>1, <1>t DEF Close
    <3>4. MongoTypeOK'
      BY <3>1, <3>2, <3>3 DEF MongoTypeOK, Continue, Goto, Labels, poolVars, callVars
    <3>5. CallInv'
      BY <3>1, <3>2 DEF MongoTypeOK, Continue, Goto, CallInv, callVars, UpdateLabels, Window
    <3> QED BY <3>4, <3>5
  <2>10. CASE UpdatePush(w)
    <3>1. mpc[w] = "updatePush" /\ Return(w) /\ free' = free \cup {client[w]}
      BY <2>10 DEF UpdatePush, Push
    <3>2. client[w] \in Clients
      BY <3>1 DEF MongoTypeOK, ClientsInv, UsesClient, Owns
    <3> QED BY <3>1, <3>2, ReturnTypes DEF MongoTypeOK
  <2> QED BY <1>5, <2>1, <2>2, <2>3, <2>4, <2>5, <2>6, <2>7, <2>8, <2>9, <2>10 DEF UpdateStep
<1> QED BY <1>1, <1>2, <1>3, <1>4, <1>5 DEF CallStep

-----------------------------------------------------------------------------
(* The pool of clients                                                     *)

\* A step that leaves the pool alone, and does not change who owns what.
LEMMA PoolStays ==
  ASSUME ClientsInv, NoClientLost, UNCHANGED poolVars,
         \A v \in Workers : /\ Owns(v)' <=> Owns(v)
                            /\ UsesClient(v)' <=> UsesClient(v)
  PROVE  ClientsInv' /\ NoClientLost'
<1>1. UNCHANGED <<free, client>>
  BY DEF poolVars
<1>2. ClientsInv'
  BY <1>1 DEF ClientsInv
<1>3. NoClientLost'
  BY <1>1 DEF NoClientLost
<1> QED BY <1>2, <1>3

LEMMA PopLends ==
  ASSUME MongoTypeOK, ClientsInv, NoClientLost, NEW w \in Workers,
         NEW from \in {"getPop", "updatePop"}, NEW to \in {"open", "find"}, Pop(w, from, to)
  PROVE  ClientsInv' /\ NoClientLost'
<1>1. PICK c \in free : /\ free' = free \ {c}
                        /\ client' = [client EXCEPT ![w] = c]
  BY DEF Pop
<1>2. c \in Clients /\ c # None
  BY NoneIsNothing DEF MongoTypeOK
<1>3. mpc[w] = from /\ mpc' = [mpc EXCEPT ![w] = to]
  BY DEF Pop, Continue, Goto
<1>4. /\ Owns(w)' /\ UsesClient(w)' /\ ~ Owns(w) /\ client'[w] = c
      /\ \A v \in Workers \ {w} : /\ Owns(v)' <=> Owns(v)
                                  /\ UsesClient(v)' <=> UsesClient(v)
                                  /\ client'[v] = client[v]
  BY <1>1, <1>3 DEF Owns, UsesClient, MongoTypeOK
<1>5. ClientsInv'
  BY <1>1, <1>2, <1>4 DEF ClientsInv
<1>6. NoClientLost'
  BY <1>1, <1>4 DEF NoClientLost
<1> QED BY <1>5, <1>6

\* The client is back in the pool; a get forgets it later.
LEMMA PushTakesBack ==
  ASSUME MongoTypeOK, ClientsInv, NoClientLost, NEW w \in Workers, Push(w), Owns(w),
         NEW to \in {"destroy", "out"}, mpc' = [mpc EXCEPT ![w] = to],
         client' = [client EXCEPT ![w] = IF to = "out" THEN None ELSE @]
  PROVE  ClientsInv' /\ NoClientLost'
<1>1. free' = free \cup {client[w]}
  BY DEF Push
<1>2. /\ ~ Owns(w)' /\ (UsesClient(w)' <=> to = "destroy")
      /\ client'[w] = IF to = "out" THEN None ELSE client[w]
      /\ \A v \in Workers \ {w} : /\ Owns(v)' <=> Owns(v)
                                  /\ UsesClient(v)' <=> UsesClient(v)
                                  /\ client'[v] = client[v]
  BY DEF Owns, UsesClient, MongoTypeOK
<1>3. UsesClient(w) /\ client[w] # None
  BY DEF UsesClient, ClientsInv
<1>4. ClientsInv'
  BY <1>1, <1>2, <1>3 DEF ClientsInv
<1>5. NoClientLost'
  BY <1>1, <1>2 DEF NoClientLost
<1> QED BY <1>4, <1>5

LEMMA CallStepClients ==
  ASSUME MongoTypeOK, ClientsInv, NoClientLost, NEW w \in Workers, CallStep(w)
  PROVE  ClientsInv' /\ NoClientLost'
<1> DEFINE Goal == ClientsInv /\ NoClientLost
<1> SUFFICES Goal'
  OBVIOUS
<1>t. mpc \in [Workers -> Labels] /\ chunk \in [Workers -> 1..Chunks]
  BY DEF MongoTypeOK
<1> DEFINE Idle == {"out", "getPop", "updatePop"}
           Busy == Labels \ (Idle \cup {"destroy"})
<1>0. ASSUME UNCHANGED poolVars, mpc' \in [Workers -> Labels],
             \A v \in Workers \ {w} : mpc'[v] = mpc[v],
             \/ mpc[w] \in Idle /\ mpc'[w] \in Idle
             \/ mpc[w] \in Busy /\ mpc'[w] \in Busy
      PROVE  Goal'
  <2>1. \A v \in Workers : (Owns(v)' <=> Owns(v)) /\ (UsesClient(v)' <=> UsesClient(v))
    BY <1>0 DEF Owns, UsesClient
  <2> QED BY <1>0, <2>1, PoolStays
<1>g. ASSUME NEW label \in Labels, Goto(w, label)
      PROVE  /\ mpc' \in [Workers -> Labels] /\ mpc'[w] = label
             /\ \A v \in Workers \ {w} : mpc'[v] = mpc[v]
  BY <1>g, <1>t DEF Goto
<1>l. /\ {"open", "read", "getPush", "find", "remove", "removeChunks", "openUpload", "write",
          "close", "updatePush"} \subseteq Busy
      /\ Idle \subseteq Labels /\ Busy \subseteq Labels
  BY DEF Labels
<1> HIDE DEF Busy, Idle
<1>1. ASSUME NEW i \in Images, CallGet(w, i) PROVE Goal'
  BY <1>1, <1>0, <1>g, <1>l DEF CallGet, Idle
<1>2. ASSUME NEW i \in Images, NEW c \in Versions, CallUpdate(w, i, c) PROVE Goal'
  BY <1>2, <1>0, <1>g, <1>l DEF CallUpdate, Idle
<1>3. CASE Drop(w)
  BY <1>3, <1>0, <1>t DEF Drop, Idle
<1>4. CASE GetStep(w)
  <2>1. CASE GetPop(w)
    BY <2>1, PopLends DEF GetPop
  <2>2. CASE Open(w)
    BY <2>2, <1>0, <1>g, <1>l DEF Open, Continue, GiveUp
  <2>3. CASE ReadChunk(w)
    <3>1. /\ mpc[w] = "read" /\ NextChunk(w, "getPush") /\ UNCHANGED poolVars
          /\ "getPush" \in Labels
      BY <2>3 DEF ReadChunk, Labels
    <3>2. /\ mpc' \in [Workers -> Labels] /\ mpc'[w] \in {"read", "getPush"}
          /\ \A v \in Workers \ {w} : mpc'[v] = mpc[v]
      BY <3>1, <1>t, NextChunkStays
    <3> QED BY <3>1, <3>2, <1>0, <1>l
  <2>4. CASE ReadFailsAtFirst(w)
    BY <2>4, <1>0, <1>g, <1>l DEF ReadFailsAtFirst, GiveUp
  <2>5. CASE GetPush(w)
    <3>1. /\ Push(w) /\ mpc[w] = "getPush" /\ mpc' = [mpc EXCEPT ![w] = "destroy"]
          /\ client' = client
      BY <2>5 DEF GetPush, Continue, Goto
    <3>2. Owns(w)
      BY <3>1 DEF Owns
    <3>3. client' = [client EXCEPT ![w] = IF "destroy" = "out" THEN None ELSE @]
      BY <3>1 DEF MongoTypeOK
    <3> QED BY <3>1, <3>2, <3>3, PushTakesBack
  <2>6. CASE Destroy(w)
    <3>1. /\ mpc[w] = "destroy" /\ mpc' = [mpc EXCEPT ![w] = "out"]
          /\ client' = [client EXCEPT ![w] = None] /\ free' = free
      BY <2>6 DEF Destroy, Return, Continue, Goto
    <3>2. /\ ~ Owns(w)' /\ ~ UsesClient(w)' /\ ~ Owns(w) /\ client'[w] = None
          /\ \A v \in Workers \ {w} : /\ Owns(v)' <=> Owns(v)
                                      /\ UsesClient(v)' <=> UsesClient(v)
                                      /\ client'[v] = client[v]
      BY <3>1 DEF Owns, UsesClient, MongoTypeOK
    <3>3. ClientsInv'
      BY <3>1, <3>2 DEF ClientsInv
    <3>4. NoClientLost'
      BY <3>1, <3>2 DEF NoClientLost
    <3> QED BY <3>3, <3>4
  <2> QED BY <1>4, <2>1, <2>2, <2>3, <2>4, <2>5, <2>6 DEF GetStep
<1>5. CASE UpdateStep(w)
  <2>1. CASE UpdatePop(w)
    BY <2>1, PopLends DEF UpdatePop
  <2>2. CASE Find(w) \/ RemoveDocument(w) \/ RemoveFails(w)
    BY <2>2, <1>0, <1>g, <1>l DEF Find, RemoveDocument, RemoveFails, Continue, GiveUp
  <2>3. CASE RemoveChunks(w) \/ OpenUpload(w) \/ ReplaceFails(w) \/ Close(w)
    BY <2>3, <1>0, <1>g, <1>l DEF RemoveChunks, OpenUpload, ReplaceFails, Close, Continue, GiveUp
  <2>4. CASE Write(w)
    <3>1. /\ mpc[w] = "write" /\ NextChunk(w, "close") /\ UNCHANGED poolVars
          /\ "close" \in Labels
      BY <2>4 DEF Write, Labels
    <3>2. /\ mpc' \in [Workers -> Labels] /\ mpc'[w] \in {"write", "close"}
          /\ \A v \in Workers \ {w} : mpc'[v] = mpc[v]
      BY <3>1, <1>t, NextChunkStays
    <3> QED BY <3>1, <3>2, <1>0, <1>l
  <2>5. CASE UpdatePush(w)
    <3>1. /\ Push(w) /\ mpc[w] = "updatePush" /\ mpc' = [mpc EXCEPT ![w] = "out"]
          /\ client' = [client EXCEPT ![w] = None]
      BY <2>5 DEF UpdatePush, Return, Continue, Goto
    <3>2. Owns(w)
      BY <3>1 DEF Owns
    <3> QED BY <3>1, <3>2, PushTakesBack
  <2> QED BY <1>5, <2>1, <2>2, <2>3, <2>4, <2>5 DEF UpdateStep
<1> QED BY <1>1, <1>2, <1>3, <1>4, <1>5 DEF CallStep

-----------------------------------------------------------------------------
(* The store                                                               *)

Sound(i) == i \notin overlap \cup broken
Updates(w, i) == InWindow(w) /\ img[w] = i

\* What StoreInv says of one image.
ImageOK(i) ==
  Sound(i) =>
    /\ Whole(i) \/ \E w \in Workers : Updates(w, i)
    /\ \A w \in Workers : Updates(w, i) =>
         Written(w) /\ \A v \in Workers : Updates(v, i) => v = w

LEMMA StoreByImage ==
  ASSUME MongoTypeOK, CallInv
  PROVE  StoreInv <=> \A i \in Images : ImageOK(i)
<1>1. \A w \in Workers : InWindow(w) => img[w] \in Images
  BY DEF InWindow, CallInv
<1> QED BY <1>1 DEF StoreInv, LossNeedsFailure, ImageOK, Sound, Updates

\* What is not about an image leaves it as it is.
LEMMA ImageStays ==
  ASSUME NEW i \in Images, ImageOK(i),
         files'[i] = files[i], chunks'[i] = chunks[i],
         overlap \subseteq overlap', broken \subseteq broken',
         \A v \in Workers : Updates(v, i)' <=> Updates(v, i),
         \A v \in Workers : Updates(v, i) =>
           /\ mpc'[v] = mpc[v] /\ chunk'[v] = chunk[v] /\ img'[v] = img[v]
           /\ spoiled'[v] = spoiled[v] /\ filedata'[v] = filedata[v]
  PROVE  ImageOK(i)'
<1> SUFFICES ASSUME Sound(i)' PROVE ImageOK(i)'
  BY DEF ImageOK
<1>1. Sound(i)
  BY DEF Sound
<1>2. Whole(i)' <=> Whole(i)
  BY DEF Whole
<1>3. ASSUME NEW v \in Workers, Updates(v, i), Written(v) PROVE Written(v)'
  BY <1>3 DEF Written, Updates, NoChunks
<1> QED BY <1>1, <1>2, <1>3 DEF ImageOK

\* A step outside the window between removal and upload changes no image.
LEMMA OutsideWindow ==
  ASSUME MongoTypeOK, \A i \in Images : ImageOK(i), NEW w \in Workers,
         mpc[w] \notin Window, mpc'[w] \notin Window, UNCHANGED <<storeVars, historyVars>>,
         \A v \in Workers \ {w} :
           /\ mpc'[v] = mpc[v] /\ chunk'[v] = chunk[v] /\ img'[v] = img[v]
           /\ spoiled'[v] = spoiled[v] /\ filedata'[v] = filedata[v]
  PROVE  \A i \in Images : ImageOK(i)'
<1> TAKE i \in Images
<1>1. \A v \in Workers : /\ Updates(v, i)' <=> Updates(v, i)
                         /\ Updates(v, i) => v # w
  BY DEF Updates, InWindow, Window
<1>2. /\ files'[i] = files[i] /\ chunks'[i] = chunks[i]
      /\ overlap' = overlap /\ broken' = broken
  BY DEF storeVars, historyVars
<1> QED BY <1>1, <1>2, ImageStays

\* A step of an update in its window concerns its own image only.
LEMMA OtherImages ==
  ASSUME MongoTypeOK, NEW w \in Workers, NEW i \in Images, ImageOK(i), i # img[w],
         files'[i] = files[i], chunks'[i] = chunks[i],
         overlap \subseteq overlap', broken \subseteq broken',
         UNCHANGED <<img, filedata>>,
         \A v \in Workers \ {w} :
           mpc'[v] = mpc[v] /\ chunk'[v] = chunk[v] /\ spoiled'[v] = spoiled[v]
  PROVE  ImageOK(i)'
<1>1. \A v \in Workers : /\ Updates(v, i)' <=> Updates(v, i)
                         /\ Updates(v, i) => v # w
  BY DEF Updates, InWindow
<1> QED BY <1>1, ImageStays

\* One that is alone before and in the window after the step.
LEMMA GoesOn ==
  ASSUME NEW w \in Workers, NEW k, k = img[w], InWindow(w)', Written(w)',
         \A v \in Workers \ {w} : ~ Updates(v, k),
         \A v \in Workers \ {w} : mpc'[v] = mpc[v], UNCHANGED img
  PROVE  ImageOK(k)'
<1>1. Updates(w, k)'
  BY DEF Updates
<1>2. \A v \in Workers \ {w} : ~ Updates(v, k)'
  BY DEF Updates, InWindow
<1> QED BY <1>1, <1>2 DEF ImageOK

LEMMA CallStepStore ==
  ASSUME MongoTypeOK, CallInv, StoreInv, NEW w \in Workers, CallStep(w)
  PROVE  \A i \in Images : ImageOK(i)'
<1> DEFINE Goal == \A i \in Images : ImageOK(i)'
<1> SUFFICES Goal
  OBVIOUS
<1>t. /\ mpc \in [Workers -> Labels] /\ chunk \in [Workers -> 1..Chunks]
      /\ img \in [Workers -> Images \cup {None}]
      /\ filedata \in [Workers -> Versions \cup {None}]
      /\ spoiled \in [Workers -> BOOLEAN]
      /\ files \in [Images -> Versions \cup {None}]
      /\ chunks \in [Images -> [1..Chunks -> Versions \cup {None}]]
  BY DEF MongoTypeOK
<1>s. \A i \in Images : ImageOK(i)
  BY StoreByImage
<1>n. None \notin Versions
  BY NoneIsNothing
<1>0. ASSUME mpc[w] \notin Window, mpc'[w] \notin Window, UNCHANGED <<storeVars, historyVars>>,
             \A v \in Workers \ {w} :
               /\ mpc'[v] = mpc[v] /\ chunk'[v] = chunk[v] /\ img'[v] = img[v]
               /\ spoiled'[v] = spoiled[v] /\ filedata'[v] = filedata[v]
      PROVE  Goal
  BY <1>0, <1>s, OutsideWindow
<1>1. ASSUME NEW i \in Images, CallGet(w, i) PROVE Goal
  BY <1>1, <1>0, <1>t DEF CallGet, Goto, Window
<1>2. ASSUME NEW i \in Images, NEW c \in Versions, CallUpdate(w, i, c) PROVE Goal
  BY <1>2, <1>0, <1>t DEF CallUpdate, Goto, Window
<1>3. CASE Drop(w)
  BY <1>3, <1>0, <1>t DEF Drop, Window
<1>4. CASE GetStep(w)
  <2>1. CASE GetPop(w)
    BY <2>1, <1>0, <1>t DEF GetPop, Pop, Continue, Goto, Window, callVars
  <2>2. CASE Open(w)
    BY <2>2, <1>0, <1>t DEF Open, Continue, GiveUp, Goto, Window, callVars
  <2>3. CASE ReadChunk(w)
    <3>1. /\ mpc[w] = "read" /\ NextChunk(w, "getPush") /\ "getPush" \in Labels
          /\ UNCHANGED <<img, filedata, spoiled, storeVars, historyVars>>
      BY <2>3 DEF ReadChunk, Labels
    <3>2. /\ mpc'[w] \in {"read", "getPush"}
          /\ \A v \in Workers \ {w} : mpc'[v] = mpc[v] /\ chunk'[v] = chunk[v]
      BY <3>1, <1>t, NextChunkStays
    <3> QED BY <3>1, <3>2, <1>0 DEF Window
  <2>4. CASE ReadFailsAtFirst(w)
    BY <2>4, <1>0, <1>t DEF ReadFailsAtFirst, GiveUp, Goto, Window, callVars
  <2>5. CASE GetPush(w)
    BY <2>5, <1>0, <1>t DEF GetPush, Continue, Goto, Window, callVars
  <2>6. CASE Destroy(w)
    BY <2>6, <1>0, <1>t DEF Destroy, Return, Continue, Goto, Window
  <2> QED BY <1>4, <2>1, <2>2, <2>3, <2>4, <2>5, <2>6 DEF GetStep
<1>5. CASE UpdateStep(w)
  <2>k. PICK k : k = img[w]
    OBVIOUS
  <2> USE <2>k
  <2>i. mpc[w] # "out" => k \in Images
    BY DEF CallInv
  \* An update in its window that is about a sound image is alone.
  <2>a. ASSUME mpc[w] \in Window, Sound(k)
        PROVE  Written(w) /\ \A v \in Workers \ {w} : ~ Updates(v, k)
    <3>1. Updates(w, k) /\ k \in Images
      BY <2>a, <2>i DEF Updates, InWindow, Window
    <3> QED BY <2>a, <3>1, <1>s DEF ImageOK
  \* The other images, and one that is not sound any more.
  <2>o. ASSUME k \in Images, Sound(k)' => ImageOK(k)',
               \A i \in Images \ {k} : files'[i] = files[i] /\ chunks'[i] = chunks[i],
               overlap \subseteq overlap', broken \subseteq broken',
               UNCHANGED <<img, filedata>>,
               \A v \in Workers \ {w} :
                 mpc'[v] = mpc[v] /\ chunk'[v] = chunk[v] /\ spoiled'[v] = spoiled[v]
        PROVE  Goal
    <3>1. ASSUME NEW i \in Images \ {k} PROVE ImageOK(i)'
      BY <3>1, <2>o, <1>s, OtherImages
    <3>2. ImageOK(k)'
      BY <2>o DEF ImageOK
    <3> QED BY <3>1, <3>2
  <2>1. CASE UpdatePop(w)
    BY <2>1, <1>0, <1>t DEF UpdatePop, Pop, Continue, Goto, Window, callVars
  <2>2. CASE Find(w) \/ RemoveFails(w)
    BY <2>2, <1>0, <1>t DEF Find, RemoveFails, Continue, GiveUp, Goto, Window, callVars
  <2>3. CASE RemoveDocument(w)
    <3>1. /\ mpc[w] = "remove" /\ mpc' = [mpc EXCEPT ![w] = "removeChunks"]
          /\ files' = [files EXCEPT ![k] = None]
          /\ overlap' = overlap \cup {i \in {k} : \E v \in Workers : InWindow(v) /\ img[v] = i}
          /\ UNCHANGED <<callVars, chunk, spoiled, chunks, broken>>
      BY <2>3 DEF RemoveDocument, Continue, Goto
    <3>2. k \in Images /\ ~ spoiled[w]
      BY <3>1, <2>i DEF CallInv
    <3>3. ASSUME Sound(k)' PROVE ImageOK(k)'
      <4>1. \A v \in Workers \ {w} : ~ Updates(v, k)
        BY <3>1, <3>3 DEF Sound, Updates
      <4>2. InWindow(w)'
        BY <3>1, <1>t DEF InWindow
      <4>3. Written(w)'
        BY <3>1, <3>2, <1>t DEF Written, callVars
      <4> QED BY <3>1, <4>1, <4>2, <4>3, <1>t, GoesOn DEF callVars
    <3> QED BY <3>1, <3>2, <3>3, <2>o, <1>t DEF callVars
  <2>4. CASE RemoveChunks(w)
    <3>1. /\ mpc[w] = "removeChunks" /\ mpc' = [mpc EXCEPT ![w] = "openUpload"]
          /\ chunks' = [chunks EXCEPT ![k] = NoChunks]
          /\ UNCHANGED <<callVars, chunk, spoiled, files, historyVars>>
      BY <2>4 DEF RemoveChunks, Continue, Goto
    <3>2. k \in Images /\ mpc[w] \in Window
      BY <3>1, <2>i DEF Window
    <3>3. ASSUME Sound(k)' PROVE ImageOK(k)'
      <4>1. Written(w) /\ \A v \in Workers \ {w} : ~ Updates(v, k)
        BY <3>1, <3>2, <3>3, <2>a DEF Sound, historyVars
      <4>2. InWindow(w)'
        BY <3>1, <1>t DEF InWindow
      <4>3. Written(w)'
        BY <3>1, <3>2, <4>1, <1>t DEF Written, callVars, NoChunks
      <4> QED BY <3>1, <4>1, <4>2, <4>3, <1>t, GoesOn DEF callVars
    <3> QED BY <3>1, <3>2, <3>3, <2>o, <1>t DEF callVars, historyVars
  <2>5. CASE OpenUpload(w)
    <3>1. /\ mpc[w] = "openUpload" /\ mpc' = [mpc EXCEPT ![w] = "write"]
          /\ UNCHANGED <<callVars, chunk, spoiled, storeVars, historyVars>>
      BY <2>5 DEF OpenUpload, Continue, Goto
    <3>2. k \in Images /\ mpc[w] \in Window /\ chunk[w] = 1
      BY <3>1, <2>i DEF Window, CallInv
    <3>3. ASSUME Sound(k)' PROVE ImageOK(k)'
      <4>1. Written(w) /\ \A v \in Workers \ {w} : ~ Updates(v, k)
        BY <3>1, <3>2, <3>3, <2>a DEF Sound, historyVars
      <4>2. InWindow(w)'
        BY <3>1, <1>t DEF InWindow
      <4>3. \A n \in 1..Chunks : chunks[k][n] = None /\ ~ (n < 1)
        <5>1. chunks[k] = NoChunks
          BY <3>1, <4>1 DEF Written
        <5>2. \A n \in 1..Chunks : NoChunks[n] = None
          BY DEF NoChunks
        <5>3. \A n \in 1..Chunks : ~ (n < 1)
          BY ChunksAreThere
        <5> QED BY <5>1, <5>2, <5>3
      <4>4. Written(w)'
        BY <3>1, <3>2, <4>1, <4>3, <1>t DEF Written, callVars, storeVars
      <4> QED BY <3>1, <4>1, <4>2, <4>4, <1>t, GoesOn DEF callVars
    <3> QED BY <3>1, <3>2, <3>3, <2>o, <1>t DEF callVars, storeVars, historyVars
  <2>6. CASE ReplaceFails(w)
    <3>1. /\ mpc[w] \in {"removeChunks", "openUpload"} /\ mpc' = [mpc EXCEPT ![w] = "updatePush"]
          /\ broken' = broken \cup {k}
          /\ UNCHANGED <<callVars, chunk, spoiled, storeVars, overlap>>
      BY <2>6 DEF ReplaceFails, GiveUp, Goto
    <3>2. k \in Images /\ ~ Sound(k)'
      BY <3>1, <2>i DEF Sound
    <3> QED BY <3>1, <3>2, <2>o, <1>t DEF callVars, storeVars
  <2>7. CASE Write(w)
    <3> DEFINE n == chunk[w]
    <3>1. /\ mpc[w] = "write" /\ NextChunk(w, "close") /\ "close" \in Labels
          /\ UNCHANGED <<callVars, files, overlap>>
      BY <2>7 DEF Write, Labels
    <3>2. k \in Images /\ mpc[w] \in Window /\ n \in 1..Chunks
      BY <3>1, <2>i, <1>t DEF Window
    <3>3. /\ \A v \in Workers \ {w} : mpc'[v] = mpc[v] /\ chunk'[v] = chunk[v]
          /\ \/ n < Chunks /\ chunk'[w] = n + 1 /\ mpc'[w] = "write"
             \/ n = Chunks /\ mpc'[w] = "close"
      BY <3>1, <1>t, NextChunkStays
    <3>4. CASE /\ ~ spoiled[w] /\ chunks[k][n] = None
               /\ chunks' = [chunks EXCEPT ![k][n] = filedata[w]]
               /\ UNCHANGED <<spoiled, broken>>
      <4>1. ASSUME Sound(k)' PROVE ImageOK(k)'
        <5>1. Written(w) /\ \A v \in Workers \ {w} : ~ Updates(v, k)
          BY <3>1, <3>2, <3>4, <4>1, <2>a DEF Sound
        <5>2. InWindow(w)'
          BY <3>3 DEF InWindow
        <5>3. chunks'[k] = [chunks[k] EXCEPT ![n] = filedata[w]]
          BY <3>2, <3>4, <1>t
        <5>4. /\ files[k] = None /\ UNCHANGED <<img, filedata, files, spoiled>>
              /\ \A m \in 1..Chunks : chunks[k][m] = IF m < n THEN filedata[w] ELSE None
          BY <3>1, <3>4, <5>1 DEF Written, callVars
        <5>5. \A m \in 1..Chunks : chunks'[k][m] = IF m < n + 1 THEN filedata[w] ELSE None
          <6> SUFFICES ASSUME NEW m \in 1..Chunks
                       PROVE  chunks'[k][m] = IF m < n + 1 THEN filedata[w] ELSE None
            OBVIOUS
          <6>1. chunks[k] \in [1..Chunks -> Versions \cup {None}]
            BY <3>2, <1>t
          <6>2. CASE m = n
            BY <6>1, <6>2, <3>2, <5>3, ChunksAreThere
          <6>3. CASE m # n
            <7>1. m < n + 1 <=> m < n
              BY <6>3, <3>2, ChunksAreThere
            <7> QED BY <7>1, <6>1, <6>3, <5>3, <5>4
          <6> QED BY <6>2, <6>3
        <5>6. Written(w)'
          <6>1. CASE n < Chunks /\ chunk'[w] = n + 1 /\ mpc'[w] = "write"
            BY <6>1, <3>4, <5>4, <5>5 DEF Written
          <6>2. CASE n = Chunks /\ mpc'[w] = "close"
            <7>1. \A m \in 1..Chunks : m < n + 1
              BY <6>2, ChunksAreThere
            <7> QED BY <6>2, <7>1, <3>4, <5>4, <5>5 DEF Written
          <6> QED BY <3>3, <6>1, <6>2
        <5> QED BY <3>1, <3>3, <5>1, <5>2, <5>6, GoesOn DEF callVars
      <4>2. \A j \in Images \ {k} : chunks'[j] = chunks[j]
        BY <3>4, <1>t
      <4> QED BY <3>1, <3>2, <3>3, <3>4, <4>1, <4>2, <2>o DEF callVars
    <3>5. CASE /\ spoiled' = [spoiled EXCEPT ![w] = TRUE]
               /\ broken' = broken \cup {k}
               /\ UNCHANGED chunks
      <4>1. ~ Sound(k)' /\ \A v \in Workers \ {w} : spoiled'[v] = spoiled[v]
        BY <3>5, <1>t DEF Sound
      <4> QED BY <3>1, <3>2, <3>3, <3>5, <4>1, <2>o DEF callVars
    <3> QED BY <2>7, <3>4, <3>5 DEF Write
  <2>8. CASE Close(w)
    <3>1. /\ mpc[w] = "close" /\ mpc' = [mpc EXCEPT ![w] = "updatePush"]
          /\ UNCHANGED <<callVars, chunk, spoiled, chunks, overlap>>
      BY <2>8 DEF Close, Continue, Goto
    <3>2. k \in Images /\ mpc[w] \in Window /\ filedata[w] \in Versions
      BY <3>1, <2>i DEF Window, CallInv, UpdateLabels
    <3>3. CASE files' = [files EXCEPT ![k] = filedata[w]] /\ UNCHANGED broken
      <4>1. ASSUME Sound(k)' PROVE ImageOK(k)'
        <5>1. Written(w) /\ \A v \in Workers \ {w} : ~ Updates(v, k)
          BY <3>1, <3>2, <3>3, <4>1, <2>a DEF Sound
        <5>2. Whole(k)'
          BY <3>1, <3>2, <3>3, <5>1, <1>n, <1>t DEF Written, Whole
        <5>3. \A v \in Workers : ~ Updates(v, k)'
          BY <3>1, <5>1, <1>t DEF Updates, InWindow, callVars
        <5> QED BY <5>2, <5>3 DEF ImageOK
      <4>2. \A j \in Images \ {k} : files'[j] = files[j]
        BY <3>3, <1>t
      <4> QED BY <3>1, <3>2, <3>3, <4>1, <4>2, <2>o, <1>t DEF callVars
    <3>4. CASE broken' = broken \cup {k} /\ UNCHANGED files
      BY <3>1, <3>2, <3>4, <2>o, <1>t DEF callVars, Sound
    <3> QED BY <2>8, <3>3, <3>4 DEF Close
  <2>9. CASE UpdatePush(w)
    BY <2>9, <1>0, <1>t DEF UpdatePush, Return, Continue, Goto, Window
  <2> QED BY <1>5, <2>1, <2>2, <2>3, <2>4, <2>5, <2>6, <2>7, <2>8, <2>9 DEF UpdateStep
<1> QED BY <1>1, <1>2, <1>3, <1>4, <1>5 DEF CallStep

-----------------------------------------------------------------------------
LEMMA EndKeepsInv ==
  ASSUME MongoIInv, MongoEnds
  PROVE  MongoIInv'
<1> USE DEF MongoEnds, ForAll, storeVars
<1>0. MongoTypeOK /\ StoreInv /\ CallInv
  BY DEF MongoIInv, MongoInv
<1>1. MongoTypeOK'
  <2>1. \A w \in Workers : InWindow(w) => img[w] \in Images
    BY <1>0 DEF InWindow, CallInv
  <2>2. broken' \in SUBSET Images
    BY <1>0, <2>1 DEF MongoTypeOK
  <2> QED BY <1>0, <2>2, NoChunksType, ChunksAreThere DEF MongoTypeOK, Labels
<1>2. ClientsInv' /\ NoClientLost'
  BY DEF ClientsInv, NoClientLost, UsesClient, Owns
<1>3. ASSUME NEW i \in Images, i \notin (overlap \cup broken)' PROVE Whole(i)'
  <2>1. i \notin overlap \cup broken /\ ~ \E w \in Workers : InWindow(w) /\ img[w] = i
    BY <1>3
  <2> QED BY <1>0, <2>1 DEF StoreInv, LossNeedsFailure, Whole
<1>4. \A w \in Workers : ~ InWindow(w)'
  BY DEF InWindow
<1>5. StoreInv'
  BY <1>3, <1>4 DEF StoreInv, LossNeedsFailure
<1>6. CallInv'
  BY DEF CallInv, UpdateLabels, Window
<1> QED BY <1>1, <1>2, <1>5, <1>6 DEF MongoIInv, MongoInv

LEMMA NextKeepsMongo ==
  ASSUME MongoIInv, [MongoNext]_mongoVars
  PROVE  MongoIInv'
<1>1. ASSUME NEW w \in Workers, CallStep(w) PROVE MongoIInv'
  <2>1. MongoTypeOK /\ ClientsInv /\ NoClientLost /\ StoreInv /\ CallInv
    BY DEF MongoIInv, MongoInv
  <2>2. MongoTypeOK' /\ CallInv'
    BY <1>1, <2>1, CallStepTypes
  <2>3. ClientsInv' /\ NoClientLost'
    BY <1>1, <2>1, CallStepClients
  <2>4. \A i \in Images : ImageOK(i)'
    BY <1>1, <2>1, CallStepStore
  <2>5. StoreInv'
    <3>1. \A w1 \in Workers : InWindow(w1)' => img'[w1] \in Images
      BY <2>2 DEF InWindow, CallInv
    <3> QED BY <2>4, <3>1 DEF StoreInv, LossNeedsFailure, ImageOK, Sound, Updates
  <2> QED BY <2>2, <2>3, <2>5 DEF MongoIInv, MongoInv
<1>2. CASE MongoEnds
  BY <1>2, EndKeepsInv
<1>3. CASE UNCHANGED mongoVars
  <2>1. /\ UNCHANGED <<free, client, mpc, img, outBuf, filedata, chunk, ret, spoiled>>
        /\ UNCHANGED <<files, chunks, overlap, broken>>
    BY <1>3 DEF mongoVars, poolVars, callVars, storeVars, historyVars
  <2>2. MongoTypeOK /\ ClientsInv /\ NoClientLost /\ StoreInv /\ CallInv
    BY DEF MongoIInv, MongoInv
  <2>3. MongoTypeOK'
    BY <2>1, <2>2 DEF MongoTypeOK
  <2>4. ClientsInv' /\ NoClientLost'
    BY <2>1, <2>2 DEF ClientsInv, NoClientLost, Owns, UsesClient
  <2>5. CallInv'
    BY <2>1, <2>2 DEF CallInv
  <2>6. \A i : Whole(i)' <=> Whole(i)
    BY <2>1 DEF Whole
  <2>7. \A w : (InWindow(w)' <=> InWindow(w)) /\ (Written(w)' <=> Written(w))
    BY <2>1 DEF InWindow, Written
  <2>8. StoreInv'
    BY <2>1, <2>2, <2>6, <2>7 DEF StoreInv, LossNeedsFailure
  <2> QED BY <2>3, <2>4, <2>5, <2>8 DEF MongoIInv, MongoInv
<1> QED BY <1>1, <1>2, <1>3 DEF MongoNext, CallStep

\* Whatever the callers ask for and whenever calls fail, clients are owned by
\* one call and not lost, and images are whole but for the failures named.
THEOREM RepositoryIsConsistent == MongoSpec => []MongoInv
<1>1. MongoIInv => MongoInv
  BY DEF MongoIInv
<1>2. MongoIInv /\ [MongoNext]_mongoVars => MongoIInv'
  BY NextKeepsMongo
<1> QED BY InitMongo, <1>1, <1>2, PTL DEF MongoSpec

\* In particular an image is lost by two updates at once or by one that failed
\* half way, and by nothing else that updateImageById does.
THEOREM LossHasACause == MongoSpec => []LossNeedsFailure
<1>1. MongoInv => LossNeedsFailure
  BY DEF MongoInv, StoreInv
<1> QED BY RepositoryIsConsistent, <1>1, PTL

-----------------------------------------------------------------------------
(* Requests                                                                *)

GetLabels == {"getPop", "open", "read", "getPush", "destroy"}

\* The get of worker w is over, and this is what its first chunk was.
HasImage(w) ==
  \/ jpc[w] = "work"
  \/ jpc[w] = "get" /\ ret[w] = "ok" /\ mpc[w] \in {"getPush", "destroy", "out"}
  \/ mpc[w] = "read" /\ chunk[w] > 1

\* What a worker knows of its call of the repository.
WorkerOK(w) ==
  /\ jpc[w] \in {"idle", "get", "work", "update"}
  /\ jpc[w] # "idle" => job[w] \in Requests
  /\ jpc[w] = "idle" => job[w] = None
  /\ jpc[w] \in {"idle", "work"} => mpc[w] = "out"
  /\ jpc[w] = "get" => mpc[w] \in GetLabels \cup {"out"}
  /\ jpc[w] = "update" => mpc[w] \in UpdateLabels \cup {"out"}
  /\ mpc[w] # "out" => img[w] = imageId[job[w]]
  /\ jpc[w] \in {"idle", "work"} \/ mpc[w] \in {"getPop", "open", "read"} => ret[w] = "ok"
  /\ mpc[w] \in UpdateLabels \ {"updatePush"} => ret[w] = "ok"
  /\ HasImage(w) => outBuf[w][1] \in Versions
  /\ mpc[w] \in UpdateLabels => filedata[w].ops # <<>> /\ job[w] \in Range(filedata[w].ops)
  /\ jpc[w] \in {"work", "update"} => codec[<<w, "codec">>] \in Codecs

CodecTypes ==
  /\ m_pool \in [Types -> Seq(Codecs)]
  /\ allocated \in [Types -> Nat]
  /\ codec \in [Holders -> Codecs \cup {NoCodec}]

\* A request is ready, acknowledged or in the hands of one worker, if any.
RequestsOK ==
  /\ jpc \in [Workers -> {"idle", "get", "work", "update"}]
  /\ job \in [Workers -> Requests \cup {None}]
  /\ ready \subseteq Requests /\ acked \subseteq Requests \ ready
  /\ exits \in Nat /\ outdated \subseteq Images
  /\ \A w \in Workers : job[w] \notin ready \cup acked
  /\ \A v, w \in Workers : job[w] # None /\ job[w] = job[v] => w = v

WorkersOK == \A w \in Workers : WorkerOK(w)

CallsInv == MongoIInv /\ CodecTypes /\ RequestsOK /\ WorkersOK

LEMMA NoRequest == None \notin Requests
BY MongoAssumption

LEMMA RequestsHaveImages == imageId \in [Requests -> Images]
BY JobsAssumption

-----------------------------------------------------------------------------
(* Sequences of requests                                                   *)

LEMMA FrontIsPart ==
  ASSUME NEW S, NEW s \in Seq(S), s # <<>>
  PROVE  Front(s) \in Seq(S) /\ Range(Front(s)) \subseteq Range(s) /\ Last(s) \in S
<1>1. PICK n \in Nat : n = Len(s) /\ n >= 1
  <2>1. Len(s) \in Nat /\ Len(s) >= 1
    OBVIOUS
  <2> QED BY <2>1
<1>2. DOMAIN s = 1..n /\ \A k \in 1..n : s[k] \in S
  BY <1>1
<1>3. /\ Front(s) \in Seq(S) /\ Len(Front(s)) = n - 1
      /\ \A k \in 1..(n - 1) : Front(s)[k] = s[k]
  <2>1. \A k \in 1..(n - 1) : s[k] \in S
    BY <1>1, <1>2
  <2>2. /\ Front(s) \in Seq(S)
        /\ Len(Front(s)) = IF 1 <= n - 1 THEN (n - 1) - 1 + 1 ELSE 0
        /\ \A k \in 1..((n - 1) - 1 + 1) : Front(s)[k] = s[1 + k - 1]
    BY <1>1, <2>1, SubSeqProperties DEF Front
  <2>3. (IF 1 <= n - 1 THEN (n - 1) - 1 + 1 ELSE 0) = n - 1 /\ (n - 1) - 1 + 1 = n - 1
    BY <1>1
  <2>4. \A k \in 1..(n - 1) : 1 + k - 1 = k
    OBVIOUS
  <2> QED BY <2>2, <2>3, <2>4
<1>4. DOMAIN Front(s) = 1..(n - 1)
  BY <1>3
<1>5. Range(Front(s)) \subseteq Range(s)
  BY <1>1, <1>2, <1>3, <1>4 DEF Range
<1> QED BY <1>1, <1>2, <1>3, <1>5 DEF Last

LEMMA FrontElements ==
  ASSUME NEW S, NEW s \in Seq(S), s # <<>>, NEW n \in Nat, n = Len(s)
  PROVE  /\ Front(s) \in Seq(S) /\ Len(Front(s)) = n - 1
         /\ \A k \in 1..(n - 1) : Front(s)[k] = s[k]
<1>1. n >= 1 /\ DOMAIN s = 1..n /\ \A k \in 1..(n - 1) : s[k] \in S
  OBVIOUS
<1>2. /\ Front(s) \in Seq(S)
      /\ Len(Front(s)) = IF 1 <= n - 1 THEN (n - 1) - 1 + 1 ELSE 0
      /\ \A k \in 1..((n - 1) - 1 + 1) : Front(s)[k] = s[1 + k - 1]
  BY <1>1, SubSeqProperties DEF Front
<1>3. (IF 1 <= n - 1 THEN (n - 1) - 1 + 1 ELSE 0) = n - 1 /\ (n - 1) - 1 + 1 = n - 1
  BY <1>1
<1>4. \A k \in 1..(n - 1) : 1 + k - 1 = k
  OBVIOUS
<1> QED BY <1>2, <1>3, <1>4

LEMMA AppendAddsOne ==
  ASSUME NEW S, NEW s \in Seq(S), NEW x \in S
  PROVE  /\ Append(s, x) \in Seq(S) /\ Append(s, x) # <<>>
         /\ Range(Append(s, x)) = Range(s) \cup {x}
         /\ IsInjective(s) /\ x \notin Range(s) => IsInjective(Append(s, x))
<1>1. /\ Append(s, x) \in Seq(S) /\ Len(Append(s, x)) = Len(s) + 1 /\ Len(s) \in Nat
      /\ DOMAIN s = 1..Len(s) /\ DOMAIN Append(s, x) = 1..(Len(s) + 1)
  OBVIOUS
<1>2. /\ \A k \in 1..Len(s) : Append(s, x)[k] = s[k]
      /\ Append(s, x)[Len(s) + 1] = x
  OBVIOUS
<1>3. \A k \in 1..(Len(s) + 1) : k \in 1..Len(s) \/ k = Len(s) + 1
  BY <1>1
<1>4. Len(s) + 1 \in 1..(Len(s) + 1) /\ 1..Len(s) \subseteq 1..(Len(s) + 1)
  BY <1>1
<1>5. Range(Append(s, x)) = Range(s) \cup {x}
  BY <1>1, <1>2, <1>3, <1>4 DEF Range
<1>6. IsInjective(s) /\ x \notin Range(s) => IsInjective(Append(s, x))
  BY <1>1, <1>2, <1>3 DEF Range, IsInjective
<1> QED BY <1>1, <1>5, <1>6

LEMMA VersionType ==
  ASSUME NEW v \in Versions, NEW r \in Requests, NEW t \in {"png", "jpg"}
  PROVE  [format |-> t, ops |-> Append(v.ops, r)] \in Versions
BY DEF Versions

-----------------------------------------------------------------------------
(* Every step is a step of the repository                                  *)

LEMMA JobStepIsMongoStep ==
  ASSUME CallsInv, [Next]_vars
  PROVE  [MongoNext]_mongoVars
<1>0. RequestsOK /\ WorkersOK /\ imageId \in [Requests -> Images]
  BY RequestsHaveImages DEF CallsInv
<1>1. ASSUME NEW w \in Workers, WorkerStep(w) \/ \E r \in Requests : Begin(w, r)
      PROVE  [MongoNext]_mongoVars
  <2>o. WorkerOK(w)
    BY <1>0 DEF WorkersOK
  <2>c. CallStep(w) \/ MongoEnds \/ UNCHANGED mongoVars => [MongoNext]_mongoVars
    BY DEF CallStep, MongoNext
  <2>1. ASSUME NEW r \in Requests, Begin(w, r) PROVE CallStep(w)
    BY <2>1, <1>0 DEF Begin, CallStep
  <2>2. Get(w) => CallStep(w)
    BY DEF Get, CallStep
  <2>3. GetFailed(w) \/ WorkFails(w) \/ Finish(w) => CallStep(w)
    BY DEF GetFailed, WorkFails, Finish, CallStep
  <2>4. AcquireCodec(w) \/ ReclaimPng(w) => UNCHANGED mongoVars
    BY DEF AcquireCodec, ReclaimPng
  <2>5. Update(w) => CallStep(w)
    BY DEF Update, CallStep
  <2>6. Crash(w) => MongoEnds
    BY DEF Crash, ProcessEnds
  <2>7. CASE WorkDone(w)
    <3>1. PICK i \in {imageId[job[w]]}, t \in {codec[<<w, "codec">>].type, "png"} :
            CallUpdate(w, i, [format |-> t, ops |-> Append(outBuf[w][1].ops, job[w])])
      BY <2>7 DEF WorkDone
    <3>2. jpc[w] = "work"
      BY <2>7 DEF WorkDone, Step
    <3>3. job[w] \in Requests /\ outBuf[w][1] \in Versions /\ t \in {"png", "jpg"}
      BY <3>2, <2>o, JobsAssumption DEF WorkerOK, HasImage, Codecs
    <3>4. i \in Images
      BY <3>3, <1>0
    <3> QED BY <3>1, <3>3, <3>4, <2>c, VersionType DEF CallStep
  <2> QED BY <1>1, <2>c, <2>1, <2>2, <2>3, <2>4, <2>5, <2>6, <2>7 DEF WorkerStep
<1>2. ProcessEnds => MongoNext
  BY DEF ProcessEnds, MongoNext
<1>3. UNCHANGED vars => UNCHANGED mongoVars
  BY DEF vars
<1> QED BY <1>1, <1>2, <1>3 DEF Next

-----------------------------------------------------------------------------
(* What a worker knows                                                     *)

\* The call of worker v is as it was.
SameCall(v) ==
  /\ mpc'[v] = mpc[v] /\ img'[v] = img[v] /\ chunk'[v] = chunk[v]
  /\ outBuf'[v] = outBuf[v] /\ filedata'[v] = filedata[v] /\ ret'[v] = ret[v]

LEMMA CallStepFrame ==
  ASSUME MongoTypeOK, NEW w \in Workers, CallStep(w)
  PROVE  \A v \in Workers \ {w} : SameCall(v)
<1> SUFFICES ASSUME NEW v \in Workers, v # w PROVE SameCall(v)
  OBVIOUS
<1> USE DEF SameCall, callVars, Goto, Continue, GiveUp
<1>1. ASSUME NEW i \in Images, CallGet(w, i) PROVE SameCall(v)
  BY <1>1 DEF CallGet, MongoTypeOK
<1>2. ASSUME NEW i \in Images, NEW c \in Versions, CallUpdate(w, i, c) PROVE SameCall(v)
  BY <1>2 DEF CallUpdate, MongoTypeOK
<1>3. CASE Drop(w)
  BY <1>3 DEF Drop, MongoTypeOK
<1>4. CASE GetStep(w)
  <2>1. CASE GetPop(w)
    BY <2>1 DEF GetPop, Pop, MongoTypeOK
  <2>2. CASE Open(w) \/ ReadFailsAtFirst(w)
    BY <2>2 DEF Open, ReadFailsAtFirst, MongoTypeOK
  <2>3. CASE ReadChunk(w)
    BY <2>3 DEF ReadChunk, NextChunk, MongoTypeOK
  <2>4. CASE GetPush(w) \/ Destroy(w)
    BY <2>4 DEF GetPush, Destroy, Return, MongoTypeOK
  <2> QED BY <1>4, <2>1, <2>2, <2>3, <2>4 DEF GetStep
<1>5. CASE UpdateStep(w)
  <2>1. CASE UpdatePop(w) \/ Find(w) \/ RemoveFails(w)
    BY <2>1 DEF UpdatePop, Pop, Find, RemoveFails, MongoTypeOK
  <2>2. CASE RemoveDocument(w) \/ RemoveChunks(w) \/ OpenUpload(w) \/ ReplaceFails(w) \/ Close(w)
    BY <2>2 DEF RemoveDocument, RemoveChunks, OpenUpload, ReplaceFails, Close, MongoTypeOK
  <2>3. CASE Write(w)
    BY <2>3 DEF Write, NextChunk, MongoTypeOK
  <2>4. CASE UpdatePush(w)
    BY <2>4 DEF UpdatePush, Return, MongoTypeOK
  <2> QED BY <1>5, <2>1, <2>2, <2>3, <2>4 DEF UpdateStep
<1> QED BY <1>1, <1>2, <1>3, <1>4, <1>5 DEF CallStep

\* A worker whose call and job are left alone knows what it knew.
LEMMA SameCallSameWorker ==
  ASSUME NEW v \in Workers, WorkerOK(v), SameCall(v),
         jpc'[v] = jpc[v], job'[v] = job[v], codec'[<<v, "codec">>] = codec[<<v, "codec">>]
  PROVE  WorkerOK(v)'
BY DEF WorkerOK, SameCall, HasImage

LEMMA GetKeepsWorker ==
  ASSUME MongoTypeOK, CallInv, NEW w \in Workers, WorkerOK(w), GetStep(w), jpc[w] = "get",
         UNCHANGED <<jpc, job, codec>>
  PROVE  WorkerOK(w)'
<1> USE DEF Goto, Continue, GiveUp, callVars
<1>0. /\ mpc \in [Workers -> Labels] /\ chunk \in [Workers -> 1..Chunks]
      /\ ret \in [Workers -> {"ok", "error"}] /\ img \in [Workers -> Images \cup {None}]
      /\ outBuf \in [Workers -> [1..Chunks -> Versions \cup {None}]]
      /\ chunks \in [Images -> [1..Chunks -> Versions \cup {None}]]
  BY DEF MongoTypeOK
<1>l. "get" \notin {"idle", "work", "update"} /\ GetLabels \cap UpdateLabels = {}
  BY DEF GetLabels, UpdateLabels, Window
<1>1. CASE GetPop(w)
  BY <1>1, <1>0, <1>l DEF GetPop, Pop, WorkerOK, HasImage, GetLabels
<1>2. CASE Open(w) \/ ReadFailsAtFirst(w)
  <2>1. mpc[w] = "open" => chunk[w] = 1
    BY DEF CallInv
  <2> QED BY <1>2, <2>1, <1>0, <1>l DEF Open, ReadFailsAtFirst, WorkerOK, HasImage, GetLabels
<1>3. CASE ReadChunk(w)
  <2> DEFINE n == chunk[w]
             read == chunks[img[w]][n]
  <2>1. /\ mpc[w] = "read" /\ read # None /\ outBuf' = [outBuf EXCEPT ![w][n] = read]
        /\ NextChunk(w, "getPush") /\ "getPush" \in Labels /\ UNCHANGED <<img, filedata, ret>>
    BY <1>3 DEF ReadChunk, Labels
  <2>2. img[w] \in Images /\ n \in 1..Chunks
    BY <2>1, <1>0 DEF CallInv
  <2>3. read \in Versions
    <3>1. chunks[img[w]] \in [1..Chunks -> Versions \cup {None}]
      BY <2>2, <1>0
    <3>2. read \in Versions \cup {None}
      BY <3>1, <2>2
    <3> QED BY <3>2, <2>1
  <2>4. mpc'[w] \in {"read", "getPush"}
    BY <2>1, <1>0, NextChunkStays
  <2>5. outBuf'[w] = [outBuf[w] EXCEPT ![n] = read] /\ outBuf[w] \in [1..Chunks -> Versions \cup {None}]
    BY <2>1, <1>0
  <2>6. n = 1 \/ outBuf[w][1] \in Versions
    BY <2>1, <2>2, ChunksAreThere DEF WorkerOK, HasImage
  <2>7. outBuf'[w][1] \in Versions
    BY <2>3, <2>5, <2>6, ChunksAreThere
  <2> QED BY <2>1, <2>4, <2>7, <1>l DEF WorkerOK, HasImage, GetLabels
<1>4. CASE GetPush(w)
  BY <1>4, <1>0, <1>l DEF GetPush, WorkerOK, HasImage, GetLabels
<1>5. CASE Destroy(w)
  BY <1>5, <1>0, <1>l DEF Destroy, Return, WorkerOK, HasImage, GetLabels, UpdateLabels, Window
<1> QED BY <1>1, <1>2, <1>3, <1>4, <1>5 DEF GetStep

LEMMA UpdateKeepsWorker ==
  ASSUME MongoTypeOK, NEW w \in Workers, WorkerOK(w), UpdateStep(w), jpc[w] = "update",
         UNCHANGED <<jpc, job, codec>>
  PROVE  WorkerOK(w)'
<1> USE DEF Goto, Continue, GiveUp, callVars, UpdateLabels, Window
<1>0. /\ mpc \in [Workers -> Labels] /\ chunk \in [Workers -> 1..Chunks]
      /\ ret \in [Workers -> {"ok", "error"}] /\ img \in [Workers -> Images \cup {None}]
      /\ filedata \in [Workers -> Versions \cup {None}]
  BY DEF MongoTypeOK
<1>a. ASSUME UNCHANGED callVars, mpc[w] \in UpdateLabels, mpc'[w] \in UpdateLabels,
             mpc'[w] = "updatePush" \/ (ret'[w] = ret[w] /\ mpc[w] # "updatePush")
      PROVE  WorkerOK(w)'
  BY <1>a DEF WorkerOK, HasImage
<1>1. CASE UpdatePop(w) \/ Find(w) \/ RemoveFails(w)
  BY <1>1, <1>a, <1>0 DEF UpdatePop, Pop, Find, RemoveFails
<1>2. CASE RemoveDocument(w) \/ RemoveChunks(w) \/ OpenUpload(w) \/ ReplaceFails(w) \/ Close(w)
  BY <1>2, <1>a, <1>0 DEF RemoveDocument, RemoveChunks, OpenUpload, ReplaceFails, Close
<1>3. CASE Write(w)
  <2>1. mpc[w] = "write" /\ NextChunk(w, "close") /\ "close" \in Labels /\ UNCHANGED callVars
    BY <1>3 DEF Write, Labels
  <2>2. mpc'[w] \in {"write", "close"} /\ ret' = ret
    BY <1>3, <2>1, <1>0, NextChunkStays DEF Write
  <2> QED BY <2>1, <2>2, <1>a
<1>4. CASE UpdatePush(w)
  BY <1>4, <1>0 DEF UpdatePush, Return, WorkerOK, HasImage
<1> QED BY <1>1, <1>2, <1>3, <1>4 DEF UpdateStep

-----------------------------------------------------------------------------
(* Codecs and requests                                                     *)

LEMMA AcquireTypes ==
  ASSUME CodecTypes, NEW h \in Holders, NEW t \in Types, acquireFromType(h, t)
  PROVE  /\ CodecTypes' /\ codec'[h] \in Codecs
         /\ \A g \in Holders \ {h} : codec'[g] = codec[g]
<1>1. CASE m_pool[t] # <<>>
  <2>1. m_pool[t] \in Seq(Codecs)
    BY DEF CodecTypes
  <2>2. Front(m_pool[t]) \in Seq(Codecs) /\ Last(m_pool[t]) \in Codecs
    BY <1>1, <2>1, FrontIsPart
  <2> QED BY <1>1, <2>2 DEF acquireFromType, CodecTypes
<1>2. CASE m_pool[t] = <<>>
  <2>1. /\ codec' = [codec EXCEPT ![h] = [type |-> t, id |-> allocated[t] + 1]]
        /\ allocated' = [allocated EXCEPT ![t] = allocated[t] + 1] /\ m_pool' = m_pool
    BY <1>2 DEF acquireFromType
  <2>2. allocated[t] + 1 \in Nat
    BY DEF CodecTypes
  <2>3. [type |-> t, id |-> allocated[t] + 1] \in Codecs
    BY <2>2 DEF Codecs
  <2> QED BY <2>1, <2>2, <2>3 DEF CodecTypes
<1> QED BY <1>1, <1>2

LEMMA ReclaimTypes ==
  ASSUME CodecTypes, NEW h \in Holders, reclaimCodec(h)
  PROVE  CodecTypes' /\ \A g \in Holders \ {h} : codec'[g] = codec[g]
<1>1. codec[h] \in Codecs /\ codec[h].type \in Types
  BY DEF CodecTypes, reclaimCodec, Codecs
<1>2. Append(m_pool[codec[h].type], codec[h]) \in Seq(Codecs)
  BY <1>1 DEF CodecTypes
<1>3. m_pool' \in [Types -> Seq(Codecs)]
  BY <1>1, <1>2 DEF CodecTypes, reclaimCodec
<1> QED BY <1>3 DEF CodecTypes, reclaimCodec

LEMMA HoldersOfWorkers ==
  ASSUME NEW w \in Workers
  PROVE  /\ <<w, "codec">> \in Holders /\ <<w, "pngCodec">> \in Holders
         /\ \A v : <<v, "codec">> # <<w, "pngCodec">>
         /\ \A v \in Workers \ {w} : <<v, "codec">> # <<w, "codec">>
BY JobsAssumption

\* Steps that leave every request where it is.
LEMMA SameRequests ==
  ASSUME RequestsOK, UNCHANGED <<job, ready, acked, exits>>, outdated' \subseteq Images,
         jpc' \in [Workers -> {"idle", "get", "work", "update"}]
  PROVE  RequestsOK'
BY DEF RequestsOK

\* A worker is done with its request, which is acknowledged or forgotten.
LEMMA RequestEnds ==
  ASSUME RequestsOK, NEW w \in Workers, NEW from, Step(w, from, "idle"), job[w] \in Requests,
         job' = [job EXCEPT ![w] = None], acked' = acked \/ acked' = acked \cup {job[w]},
         UNCHANGED <<ready, exits, outdated>>
  PROVE  RequestsOK'
<1>1. jpc' \in [Workers -> {"idle", "get", "work", "update"}]
  BY DEF RequestsOK, Step
<1>2. /\ job' \in [Workers -> Requests \cup {None}] /\ job'[w] = None
      /\ \A v \in Workers \ {w} : job'[v] = job[v]
  BY DEF RequestsOK
<1>3. job[w] \notin ready /\ job[w] # None
  BY NoRequest DEF RequestsOK
<1>4. acked' \subseteq Requests \ ready
  BY <1>3 DEF RequestsOK
<1>5. None \notin ready' \cup acked'
  BY <1>4, NoRequest DEF RequestsOK
<1>6. \A v \in Workers : job'[v] \notin ready' \cup acked'
  BY <1>2, <1>3, <1>5 DEF RequestsOK
<1>7. \A v, u \in Workers : job'[u] # None /\ job'[u] = job'[v] => u = v
  BY <1>2 DEF RequestsOK
<1> QED BY <1>1, <1>2, <1>4, <1>6, <1>7 DEF RequestsOK

-----------------------------------------------------------------------------
LEMMA InitCalls == Init => CallsInv
<1> SUFFICES ASSUME Init PROVE CallsInv
  OBVIOUS
<1>1. MongoIInv
  <2>1. \A i \in Images : [format |-> Format[i], ops |-> <<>>] \in Versions
    BY JobsAssumption DEF Versions
  <2>2. files \in [Images -> Versions]
    BY <2>1 DEF Init
  <2> QED BY <2>2, InitMongo DEF Init, MongoInit
<1>2. CodecTypes
  BY DEF Init, CodecInit, CodecTypes
<1>3. RequestsOK
  BY NoRequest DEF Init, RequestsOK
<1>4. WorkersOK
  BY DEF Init, Quiet, ForAll, WorkersOK, WorkerOK, HasImage, UpdateLabels, Window
<1> QED BY <1>1, <1>2, <1>3, <1>4 DEF CallsInv

-----------------------------------------------------------------------------
(* The steps of a worker keep the calls, the codecs and the requests       *)

LEMMA WorkerKeepsCalls ==
  ASSUME MongoIInv, CodecTypes, RequestsOK, WorkersOK, NEW w \in Workers,
         \/ \E r \in Requests : Begin(w, r)
         \/ Get(w) \/ GetFailed(w) \/ AcquireCodec(w) \/ WorkFails(w) \/ WorkDone(w)
         \/ Update(w) \/ ReclaimPng(w) \/ Finish(w)
  PROVE  CodecTypes' /\ RequestsOK' /\ WorkersOK'
<1> DEFINE Goal == CodecTypes /\ RequestsOK /\ WorkersOK
           Stages == {"idle", "get", "work", "update"}
<1> SUFFICES Goal'
  OBVIOUS
<1>0. MongoTypeOK /\ CallInv /\ WorkerOK(w) /\ \A v \in Workers : WorkerOK(v)
  BY DEF MongoIInv, MongoInv, WorkersOK
<1>t. /\ jpc \in [Workers -> Stages] /\ job \in [Workers -> Requests \cup {None}]
      /\ ret \in [Workers -> {"ok", "error"}] /\ mpc \in [Workers -> Labels]
      /\ outdated \subseteq Images /\ img \in [Workers -> Images \cup {None}]
      /\ outBuf \in [Workers -> [1..Chunks -> Versions \cup {None}]]
      /\ filedata \in [Workers -> Versions \cup {None}]
  BY <1>0 DEF RequestsOK, MongoTypeOK
<1>h. /\ <<w, "codec">> \in Holders /\ <<w, "pngCodec">> \in Holders
      /\ \A v \in Workers : <<v, "codec">> \in Holders /\ <<v, "codec">> # <<w, "pngCodec">>
      /\ \A v \in Workers \ {w} : <<v, "codec">> # <<w, "codec">>
  BY HoldersOfWorkers
<1>w. ASSUME \A v \in Workers \ {w} : SameCall(v), WorkerOK(w)',
             \A v \in Workers \ {w} : jpc'[v] = jpc[v] /\ job'[v] = job[v],
             \A v \in Workers \ {w} : codec'[<<v, "codec">>] = codec[<<v, "codec">>]
      PROVE  WorkersOK'
  <2>1. \A v \in Workers \ {w} : WorkerOK(v)'
    BY <1>0, <1>w, SameCallSameWorker
  <2> QED BY <2>1, <1>w DEF WorkersOK
<1>c. UNCHANGED codecVars => CodecTypes' /\ codec' = codec
  BY DEF CodecTypes, codecVars
<1>s. ASSUME NEW from \in Stages, NEW to \in Stages, Step(w, from, to)
      PROVE  /\ jpc[w] = from /\ jpc' \in [Workers -> Stages] /\ jpc'[w] = to
             /\ \A v \in Workers \ {w} : jpc'[v] = jpc[v]
  BY <1>s, <1>t DEF Step
<1>d. ASSUME Drop(w)
      PROVE  /\ \A v \in Workers \ {w} : SameCall(v)
             /\ mpc[w] = "out" /\ mpc' = mpc /\ ret'[w] = "ok"
  <2>1. CallStep(w)
    BY <1>d DEF CallStep
  <2> QED BY <1>d, <2>1, <1>0, <1>t, CallStepFrame DEF Drop
<1>1. ASSUME NEW r \in Requests, Begin(w, r) PROVE Goal'
  <2>1. /\ r \in ready /\ Step(w, "idle", "get") /\ job' = [job EXCEPT ![w] = r]
        /\ ready' = ready \ {r} /\ CallGet(w, imageId[r])
        /\ UNCHANGED <<codecVars, acked, exits, outdated>> /\ imageId[r] \in Images
    BY <1>1, RequestsHaveImages DEF Begin
  <2>2. CallStep(w)
    BY <2>1 DEF CallStep
  <2>3. /\ jpc[w] = "idle" /\ jpc' \in [Workers -> Stages] /\ jpc'[w] = "get"
        /\ \A v \in Workers \ {w} : jpc'[v] = jpc[v]
    BY <2>1, <1>s
  <2>4. RequestsOK'
    <3>1. \A v \in Workers : job[v] # r
      BY <2>1 DEF RequestsOK
    <3>2. \A v \in Workers \ {w} : job'[v] = job[v]
      BY <2>1, <1>t
    <3>3. job'[w] = r /\ job' \in [Workers -> Requests \cup {None}]
      BY <2>1, <1>t
    <3>4. r \notin ready' \cup acked' /\ r # None
      BY <2>1, NoRequest DEF RequestsOK
    <3>5. \A v \in Workers : job'[v] \notin ready' \cup acked'
      BY <2>1, <3>2, <3>3, <3>4 DEF RequestsOK
    <3>6. \A v, u \in Workers : job'[u] # None /\ job'[u] = job'[v] => u = v
      BY <3>1, <3>2, <3>3 DEF RequestsOK
    <3> QED BY <2>1, <2>3, <3>3, <3>5, <3>6 DEF RequestsOK
  <2>5. WorkerOK(w)'
    <3>1. mpc'[w] = "getPop" /\ img'[w] = imageId[r] /\ ret'[w] = ret[w] /\ job'[w] = r
      BY <2>1, <1>t DEF CallGet, Goto
    <3> QED BY <3>1, <2>3, <1>0 DEF WorkerOK, HasImage, GetLabels, UpdateLabels, Window
  <2> QED BY <2>1, <2>2, <2>3, <2>4, <2>5, <1>0, <1>c, <1>t, <1>w, CallStepFrame
<1>2. CASE Get(w)
  <2>1. jpc[w] = "get" /\ GetStep(w) /\ UNCHANGED <<codecVars, jobVars>>
    BY <1>2 DEF Get
  <2>2. UNCHANGED <<jpc, job, codec, ready, acked, exits, outdated>>
    BY <2>1 DEF codecVars, jobVars, brokerVars
  <2>3. CallStep(w)
    BY <2>1 DEF CallStep
  <2>4. RequestsOK'
    BY <2>2, <1>t, SameRequests
  <2>5. WorkerOK(w)'
    BY <2>1, <2>2, <1>0, GetKeepsWorker
  <2> QED BY <2>1, <2>2, <2>3, <2>4, <2>5, <1>0, <1>c, <1>w, CallStepFrame
<1>3. CASE GetFailed(w)
  <2>1. /\ Step(w, "get", "idle") /\ job' = [job EXCEPT ![w] = None] /\ Drop(w)
        /\ UNCHANGED <<codecVars, ready, acked, exits, outdated>>
    BY <1>3 DEF GetFailed, AnswerFail, brokerVars
  <2>2. /\ jpc[w] = "get" /\ jpc'[w] = "idle" /\ \A v \in Workers \ {w} : jpc'[v] = jpc[v]
    BY <2>1, <1>s
  <2>3. job'[w] = None /\ \A v \in Workers \ {w} : job'[v] = job[v]
    BY <2>1, <1>t
  <2>4. RequestsOK'
    BY <2>1, <2>2, <1>0, RequestEnds DEF WorkerOK
  <2>5. WorkerOK(w)'
    BY <2>1, <2>2, <2>3, <1>d DEF WorkerOK, HasImage, UpdateLabels, Window
  <2> QED BY <2>1, <2>2, <2>3, <2>4, <2>5, <1>c, <1>d, <1>w
<1>4. CASE AcquireCodec(w)
  <2> DEFINE t == FormatOf(outBuf[w])
  <2>1. /\ Step(w, "get", "work") /\ mpc[w] = "out" /\ ret[w] = "ok" /\ t \in Types
        /\ acquireFromType(<<w, "codec">>, t)
        /\ UNCHANGED <<mongoVars, job, ready, acked, exits, outdated>>
    BY <1>4 DEF AcquireCodec, brokerVars
  <2> HIDE DEF t
  <2>2. /\ jpc[w] = "get" /\ jpc'[w] = "work" /\ jpc' \in [Workers -> Stages]
        /\ \A v \in Workers \ {w} : jpc'[v] = jpc[v]
    BY <2>1, <1>s
  <2>3. /\ CodecTypes' /\ codec'[<<w, "codec">>] \in Codecs
        /\ \A g \in Holders \ {<<w, "codec">>} : codec'[g] = codec[g]
    BY <2>1, <1>h, AcquireTypes
  <2>4. UNCHANGED <<mpc, img, chunk, outBuf, filedata, ret>>
    BY <2>1 DEF mongoVars, callVars
  <2>5. RequestsOK'
    BY <2>1, <2>2, <1>t, SameRequests
  <2>6. WorkerOK(w)'
    BY <2>1, <2>2, <2>3, <2>4, <1>0 DEF WorkerOK, HasImage, UpdateLabels, Window
  <2> QED BY <2>1, <2>2, <2>3, <2>4, <2>5, <2>6, <1>h, <1>w DEF SameCall
<1>5. CASE WorkFails(w)
  <2>1. /\ Step(w, "work", "idle") /\ job' = [job EXCEPT ![w] = None] /\ Drop(w)
        /\ reclaimCodec(<<w, "codec">>) /\ UNCHANGED <<ready, acked, exits, outdated>>
    BY <1>5 DEF WorkFails, AnswerFail, brokerVars
  <2>2. /\ jpc[w] = "work" /\ jpc'[w] = "idle" /\ \A v \in Workers \ {w} : jpc'[v] = jpc[v]
    BY <2>1, <1>s
  <2>3. job'[w] = None /\ \A v \in Workers \ {w} : job'[v] = job[v]
    BY <2>1, <1>t
  <2>4. RequestsOK'
    BY <2>1, <2>2, <1>0, RequestEnds DEF WorkerOK
  <2>5. WorkerOK(w)'
    BY <2>1, <2>2, <2>3, <1>d DEF WorkerOK, HasImage, UpdateLabels, Window
  <2>6. CodecTypes' /\ \A g \in Holders \ {<<w, "codec">>} : codec'[g] = codec[g]
    BY <2>1, <1>h, ReclaimTypes
  <2> QED BY <2>1, <2>2, <2>3, <2>4, <2>5, <2>6, <1>d, <1>h, <1>w
<1>6. CASE WorkDone(w)
  <2>1. PICK t \in {codec[<<w, "codec">>].type, "png"} :
          /\ CallUpdate(w, imageId[job[w]], [format |-> t, ops |-> Append(outBuf[w][1].ops, job[w])])
          /\ UNCHANGED codecVars \/ acquireFromType(<<w, "pngCodec">>, "png")
    BY <1>6 DEF WorkDone
  <2>2. Step(w, "work", "update") /\ UNCHANGED <<job, ready, acked, exits, outdated>>
    BY <1>6 DEF WorkDone, brokerVars
  <2>3. /\ jpc[w] = "work" /\ jpc'[w] = "update" /\ jpc' \in [Workers -> Stages]
        /\ \A v \in Workers \ {w} : jpc'[v] = jpc[v]
    BY <2>2, <1>s
  <2>4. /\ job[w] \in Requests /\ outBuf[w][1] \in Versions /\ t \in {"png", "jpg"}
        /\ codec[<<w, "codec">>] \in Codecs
    BY <2>3, <1>0, JobsAssumption DEF WorkerOK, HasImage, Codecs
  <2> DEFINE ops == Append(outBuf[w][1].ops, job[w])
             version == [format |-> t, ops |-> ops]
  <2>5. /\ ops # <<>> /\ job[w] \in Range(ops) /\ version \in Versions
    <3>1. outBuf[w][1].ops \in Seq(Requests)
      BY <2>4 DEF Versions
    <3>2. ops # <<>> /\ Range(ops) = Range(outBuf[w][1].ops) \cup {job[w]}
      BY <3>1, <2>4, AppendAddsOne
    <3> QED BY <3>2, <2>4, VersionType
  <2>6. version.ops = ops
    OBVIOUS
  <2> HIDE DEF ops, version
  <2>7. CallUpdate(w, imageId[job[w]], version)
    BY <2>1 DEF version, ops
  <2>8. CallStep(w)
    BY <2>4, <2>5, <2>7, RequestsHaveImages DEF CallStep
  <2>9. /\ CodecTypes' /\ \A g \in Holders \ {<<w, "pngCodec">>} : codec'[g] = codec[g]
    <3>1. CASE UNCHANGED codecVars
      BY <3>1, <1>c
    <3>2. CASE acquireFromType(<<w, "pngCodec">>, "png")
      BY <3>2, <1>h, AcquireTypes, JobsAssumption
    <3> QED BY <2>1, <3>1, <3>2
  <2>10. /\ mpc'[w] = "updatePop" /\ img'[w] = imageId[job[w]] /\ filedata'[w] = version
         /\ ret' = ret
    BY <2>7, <1>t DEF CallUpdate, Goto
  <2>11. RequestsOK'
    BY <2>2, <2>3, <1>t, SameRequests
  <2>12. codec'[<<w, "codec">>] = codec[<<w, "codec">>]
    BY <2>9, <1>h
  <2>13. WorkerOK(w)'
    BY <2>2, <2>3, <2>4, <2>5, <2>6, <2>10, <2>12, <1>0
    DEF WorkerOK, HasImage, UpdateLabels, Window
  <2> QED BY <2>2, <2>3, <2>8, <2>9, <2>11, <2>13, <1>0, <1>h, <1>w, CallStepFrame
<1>7. CASE Update(w)
  <2>1. /\ jpc[w] = "update" /\ UpdateStep(w) /\ UNCHANGED <<jpc, job, codec, ready, acked, exits>>
        /\ UNCHANGED codecVars
    BY <1>7 DEF Update, codecVars, brokerVars
  <2>2. mpc[w] # "out"
    BY <2>1 DEF UpdateStep, UpdatePop, Pop, Find, RemoveDocument, RemoveFails, RemoveChunks,
         OpenUpload, ReplaceFails, Write, Close, UpdatePush, Push, Return, Continue, GiveUp
  <2>3. outdated' \subseteq Images
    <3>1. img[w] \in Images
      BY <2>2, <1>0 DEF CallInv
    <3> QED BY <1>7, <3>1, <1>t DEF Update
  <2>4. CallStep(w)
    BY <2>1 DEF CallStep
  <2>5. RequestsOK'
    BY <2>1, <2>3, <1>t, SameRequests
  <2>6. WorkerOK(w)'
    BY <2>1, <1>0, UpdateKeepsWorker
  <2> QED BY <2>1, <2>4, <2>5, <2>6, <1>0, <1>c, <1>w, CallStepFrame
<1>8. CASE ReclaimPng(w)
  <2>1. /\ jpc[w] = "update" /\ mpc[w] = "out" /\ reclaimCodec(<<w, "pngCodec">>)
        /\ UNCHANGED <<mpc, img, chunk, outBuf, filedata, ret, jpc, job, ready, acked, exits, outdated>>
    BY <1>8 DEF ReclaimPng, mongoVars, callVars, jobVars, brokerVars
  <2>2. CodecTypes' /\ \A g \in Holders \ {<<w, "pngCodec">>} : codec'[g] = codec[g]
    BY <2>1, <1>h, ReclaimTypes
  <2>3. RequestsOK'
    BY <2>1, <1>t, SameRequests
  <2>4. \A v \in Workers : WorkerOK(v)'
    BY <2>1, <2>2, <1>0, <1>h, SameCallSameWorker DEF SameCall
  <2> QED BY <2>2, <2>3, <2>4 DEF WorkersOK
<1>9. CASE Finish(w)
  <2>1. /\ Step(w, "update", "idle") /\ job' = [job EXCEPT ![w] = None] /\ Drop(w)
        /\ reclaimCodec(<<w, "codec">>) /\ UNCHANGED <<ready, exits, outdated>>
        /\ acked' = acked \/ acked' = acked \cup {job[w]}
    BY <1>9 DEF Finish
  <2>2. /\ jpc[w] = "update" /\ jpc'[w] = "idle" /\ \A v \in Workers \ {w} : jpc'[v] = jpc[v]
    BY <2>1, <1>s
  <2>3. job'[w] = None /\ \A v \in Workers \ {w} : job'[v] = job[v]
    BY <2>1, <1>t
  <2>4. RequestsOK'
    BY <2>1, <2>2, <1>0, RequestEnds DEF WorkerOK
  <2>5. WorkerOK(w)'
    BY <2>1, <2>2, <2>3, <1>d DEF WorkerOK, HasImage, UpdateLabels, Window
  <2>6. CodecTypes' /\ \A g \in Holders \ {<<w, "codec">>} : codec'[g] = codec[g]
    BY <2>1, <1>h, ReclaimTypes
  <2> QED BY <2>1, <2>2, <2>3, <2>4, <2>5, <2>6, <1>d, <1>h, <1>w
<1> QED BY <1>1, <1>2, <1>3, <1>4, <1>5, <1>6, <1>7, <1>8, <1>9

\* A step of worker w leaves the other workers alone.
LEMMA OthersStay ==
  ASSUME CallsInv, NEW w \in Workers,
         \/ \E r \in Requests : Begin(w, r)
         \/ Get(w) \/ GetFailed(w) \/ AcquireCodec(w) \/ WorkFails(w) \/ WorkDone(w)
         \/ Update(w) \/ ReclaimPng(w) \/ Finish(w)
  PROVE  \A v \in Workers \ {w} : SameCall(v) /\ jpc'[v] = jpc[v] /\ job'[v] = job[v]
<1>0. /\ MongoTypeOK
      /\ jpc \in [Workers -> {"idle", "get", "work", "update"}]
      /\ job \in [Workers -> Requests \cup {None}]
  BY DEF CallsInv, MongoIInv, MongoInv, RequestsOK
<1>1. \A v \in Workers \ {w} : jpc'[v] = jpc[v] /\ job'[v] = job[v]
  BY <1>0 DEF Begin, Get, GetFailed, AcquireCodec, WorkFails, WorkDone, Update, ReclaimPng,
     Finish, AnswerFail, Step, jobVars
<1>2. CASE AcquireCodec(w) \/ ReclaimPng(w)
  <2>1. UNCHANGED mongoVars
    BY <1>2 DEF AcquireCodec, ReclaimPng
  <2> QED BY <2>1, <1>1 DEF mongoVars, callVars, SameCall
<1>3. CASE WorkDone(w)
  <2>1. PICK i, c : CallUpdate(w, i, c)
    BY <1>3 DEF WorkDone
  <2> QED BY <2>1, <1>0, <1>1 DEF CallUpdate, Goto, SameCall, MongoTypeOK
<1>4. CASE ~ (AcquireCodec(w) \/ ReclaimPng(w) \/ WorkDone(w))
  <2>1. CallStep(w)
    BY <1>4, RequestsHaveImages DEF Begin, Get, GetFailed, WorkFails, Update, Finish, CallStep
  <2> QED BY <2>1, <1>0, <1>1, CallStepFrame
<1> QED BY <1>2, <1>3, <1>4

LEMMA EndKeepsCalls ==
  ASSUME MongoTypeOK, RequestsOK, ProcessEnds
  PROVE  CodecTypes' /\ RequestsOK' /\ WorkersOK'
<1>1. CodecTypes'
  BY DEF ProcessEnds, CodecsEnd, CodecTypes
<1>2. RequestsOK'
  BY NoRequest DEF ProcessEnds, RequestsOK
<1>3. WorkersOK'
  BY DEF ProcessEnds, MongoEnds, ForAll, WorkersOK, WorkerOK, HasImage, UpdateLabels, Window
<1> QED BY <1>1, <1>2, <1>3

LEMMA NextKeepsCalls ==
  ASSUME CallsInv, [Next]_vars
  PROVE  CallsInv'
<1>1. MongoIInv'
  BY JobStepIsMongoStep, NextKeepsMongo DEF CallsInv
<1>2. CodecTypes' /\ RequestsOK' /\ WorkersOK'
  <2>0. MongoIInv /\ MongoTypeOK /\ CodecTypes /\ RequestsOK /\ WorkersOK
    BY DEF CallsInv, MongoIInv, MongoInv
  <2>1. CASE ProcessEnds
    BY <2>0, <2>1, EndKeepsCalls
  <2>2. ASSUME NEW w \in Workers, WorkerStep(w) \/ \E r \in Requests : Begin(w, r), ~ ProcessEnds
        PROVE  CodecTypes' /\ RequestsOK' /\ WorkersOK'
    <3>1. \/ \E r \in Requests : Begin(w, r)
          \/ Get(w) \/ GetFailed(w) \/ AcquireCodec(w) \/ WorkFails(w) \/ WorkDone(w)
          \/ Update(w) \/ ReclaimPng(w) \/ Finish(w)
      BY <2>2 DEF WorkerStep, Crash
    <3> QED BY <3>1, <2>0, WorkerKeepsCalls
  <2>3. CASE UNCHANGED vars
    <3>1. /\ UNCHANGED <<mpc, img, chunk, outBuf, filedata, ret, m_pool, allocated, codec>>
          /\ UNCHANGED <<jpc, job, ready, acked, exits, outdated>>
      BY <2>3 DEF vars, mongoVars, callVars, codecVars, jobVars, brokerVars
    <3>2. CodecTypes' /\ RequestsOK'
      BY <3>1, <2>0 DEF CodecTypes, RequestsOK
    <3>3. \A w \in Workers : WorkerOK(w)'
      BY <3>1, <2>0, SameCallSameWorker DEF SameCall, WorkersOK
    <3> QED BY <3>2, <3>3 DEF WorkersOK
  <2> QED BY <2>1, <2>2, <2>3 DEF Next
<1> QED BY <1>1, <1>2 DEF CallsInv

\* Whatever the requests, the threads and the failures: an image that is not
\* stored as one version is being updated, was updated by two threads at once
\* or by an update that failed half way.
THEOREM NoImageIsLost == Spec => []LossNeedsFailure
<1>1. CallsInv => LossNeedsFailure
  BY DEF CallsInv, MongoIInv, MongoInv, StoreInv
<1>2. CallsInv /\ [Next]_vars => CallsInv'
  BY NextKeepsCalls
<1> QED BY InitCalls, <1>1, <1>2, PTL DEF Spec

\* The requests use the repository as MongoClient allows it: whatever holds of
\* its calls, made in any order, holds of them here.
THEOREM JobsUseRepository == Spec => MongoSpec
<1>1. Init => MongoInit
  <2>1. \A i \in Images : [format |-> Format[i], ops |-> <<>>] \in Versions
    BY JobsAssumption DEF Versions
  <2>2. Init => files \in [Images -> Versions]
    BY <2>1 DEF Init
  <2> QED BY <2>2 DEF Init, MongoInit
<1>2. CallsInv /\ [Next]_vars => [MongoNext]_mongoVars
  BY JobStepIsMongoStep
<1>3. CallsInv /\ [Next]_vars => CallsInv'
  BY NextKeepsCalls
<1> QED BY InitCalls, <1>1, <1>2, <1>3, PTL DEF Spec, MongoSpec

-----------------------------------------------------------------------------
(* What Done was sent for                                                  *)

\* The update of worker w has returned kOk or is about to.
Succeeded(w) == jpc[w] = "update" /\ ret[w] = "ok" /\ mpc[w] \in {"updatePush", "out"}

\* Request r is acknowledged or is going to be.
Settled(r) == r \in acked \/ \E w \in Workers : Succeeded(w) /\ job[w] = r

\* No two updates of image i ran at once, none failed half way and none was
\* made of an old version.
Undisturbed(i) == i \notin overlap \cup broken \cup outdated

\* The settled requests on an undisturbed image are in what is stored, and in
\* what is about to take its place.
Kept(i) ==
  Undisturbed(i) =>
    \A r \in Requests : Settled(r) /\ imageId[r] = i =>
      /\ files[i] # None => r \in Range(files[i].ops)
      /\ \A w \in Workers : InWindow(w) /\ img[w] = i => r \in Range(filedata[w].ops)

DoneInv == \A i \in Images : Kept(i)

LEMMA InitDone == Init => DoneInv
BY DEF Init, Quiet, ForAll, DoneInv, Kept, Settled, Succeeded

\* A step that settles nothing and leaves the store and the updates alone.
LEMMA NothingSettled ==
  ASSUME NEW i \in Images, Kept(i), Undisturbed(i)' => Undisturbed(i),
         \A r \in Requests : Settled(r)' => Settled(r), files'[i] \in {files[i], None},
         \A w \in Workers : InWindow(w)' /\ img'[w] = i =>
           InWindow(w) /\ img[w] = i /\ filedata'[w] = filedata[w]
  PROVE  Kept(i)'
BY DEF Kept

\* A step of worker w outside its update.
LEMMA OtherStepKeepsDone ==
  ASSUME CallsInv, CallsInv', DoneInv, NEW w \in Workers,
         \/ \E r \in Requests : Begin(w, r)
         \/ Get(w) \/ GetFailed(w) \/ AcquireCodec(w) \/ WorkFails(w) \/ WorkDone(w)
         \/ ReclaimPng(w) \/ Finish(w)
  PROVE  DoneInv'
<1>0. /\ MongoTypeOK /\ RequestsOK /\ WorkerOK(w) /\ WorkerOK(w)'
      /\ jpc \in [Workers -> {"idle", "get", "work", "update"}]
      /\ job \in [Workers -> Requests \cup {None}] /\ RequestsOK'
  BY DEF CallsInv, MongoIInv, MongoInv, WorkersOK, RequestsOK
<1>1. /\ UNCHANGED <<files, overlap, broken, outdated>>
      /\ \A v \in Workers \ {w} : SameCall(v) /\ jpc'[v] = jpc[v] /\ job'[v] = job[v]
  <2>1. UNCHANGED <<storeVars, historyVars>>
    <3>1. Get(w) => UNCHANGED <<storeVars, historyVars>>
      BY DEF Get, GetStep, GetPop, Pop, Open, ReadChunk, ReadFailsAtFirst, GetPush, Destroy, Return
    <3>2. ~ Get(w) => UNCHANGED <<storeVars, historyVars>>
      BY DEF Begin, GetFailed, AcquireCodec, WorkFails, WorkDone, ReclaimPng, Finish, Drop,
         CallGet, CallUpdate, mongoVars
    <3> QED BY <3>1, <3>2
  <2>2. UNCHANGED outdated
    BY DEF Begin, Get, GetFailed, AcquireCodec, WorkFails, WorkDone, ReclaimPng, Finish,
       AnswerFail, jobVars
  <2> QED BY <2>1, <2>2, OthersStay DEF storeVars, historyVars
<1>2. InWindow(w)' => InWindow(w) /\ UNCHANGED <<img, filedata>>
  <2>1. CASE ReclaimPng(w)
    BY <2>1 DEF ReclaimPng, mongoVars, callVars, InWindow
  <2>2. CASE WorkDone(w)
    <3>1. \E i, c : CallUpdate(w, i, c)
      BY <2>2 DEF WorkDone
    <3>2. mpc'[w] = "updatePop"
      BY <3>1, <1>0 DEF CallUpdate, Goto, MongoTypeOK
    <3> QED BY <3>2 DEF InWindow
  <2>3. CASE ~ (ReclaimPng(w) \/ WorkDone(w))
    <3>1. jpc'[w] \in {"idle", "get", "work"}
      BY <2>3, <1>0 DEF Begin, Get, GetFailed, AcquireCodec, WorkFails, Finish, AnswerFail, Step, jobVars
    <3> QED BY <3>1, <1>0 DEF WorkerOK, GetLabels, InWindow
  <2> QED BY <2>1, <2>2, <2>3
<1>3. \A r \in Requests : Settled(r)' => Settled(r)
  <2>1. CASE ReclaimPng(w)
    BY <2>1 DEF ReclaimPng, mongoVars, jobVars, brokerVars, Settled, Succeeded
  <2>2. CASE Finish(w)
    <3>1. /\ acked' = acked \/ (acked' = acked \cup {job[w]} /\ Succeeded(w))
          /\ ~ Succeeded(w)'
      BY <2>2, <1>0 DEF Finish, Step, Succeeded
    <3> QED BY <3>1, <1>1 DEF Settled, Succeeded, SameCall
  <2>3. CASE ~ (ReclaimPng(w) \/ Finish(w))
    <3>1. acked' = acked
      BY <2>3 DEF Begin, Get, GetFailed, AcquireCodec, WorkFails, WorkDone, AnswerFail, jobVars, brokerVars
    <3>2. ~ Succeeded(w)'
      <4>1. CASE WorkDone(w)
        <5>1. \E i, c : CallUpdate(w, i, c)
          BY <4>1 DEF WorkDone
        <5> QED BY <5>1, <1>0 DEF CallUpdate, Goto, MongoTypeOK, Succeeded
      <4>2. CASE ~ WorkDone(w)
        BY <2>3, <4>2, <1>0 DEF Begin, Get, GetFailed, AcquireCodec, WorkFails, AnswerFail, Step,
             jobVars, Succeeded
      <4> QED BY <4>1, <4>2
    <3> QED BY <3>1, <3>2, <1>1 DEF Settled, Succeeded, SameCall
  <2> QED BY <2>1, <2>2, <2>3
<1>4. ASSUME NEW i \in Images PROVE Kept(i)'
  <2>1. Kept(i) /\ (Undisturbed(i)' <=> Undisturbed(i))
    BY <1>1 DEF DoneInv, Undisturbed
  <2>2. \A v \in Workers : InWindow(v)' /\ img'[v] = i =>
          InWindow(v) /\ img[v] = i /\ filedata'[v] = filedata[v]
    BY <1>1, <1>2 DEF SameCall, InWindow
  <2> QED BY <2>1, <2>2, <1>1, <1>3, NothingSettled
<1> QED BY <1>4 DEF DoneInv

LEMMA UpdateKeepsDone ==
  ASSUME CallsInv, DoneInv, NEW w \in Workers, Update(w)
  PROVE  DoneInv'
<1>k. PICK k : k = img[w]
  OBVIOUS
<1>0. /\ MongoTypeOK /\ CallInv /\ StoreInv /\ WorkerOK(w) /\ mpc \in [Workers -> Labels]
      /\ files \in [Images -> Versions \cup {None}] /\ filedata \in [Workers -> Versions \cup {None}]
      /\ chunk \in [Workers -> 1..Chunks] /\ ret \in [Workers -> {"ok", "error"}]
  BY DEF CallsInv, MongoIInv, MongoInv, WorkersOK, MongoTypeOK
<1>1. /\ jpc[w] = "update" /\ UpdateStep(w) /\ UNCHANGED <<jpc, job, acked>>
      /\ outdated \subseteq outdated'
  BY DEF Update, brokerVars
<1>2. \A v \in Workers \ {w} : SameCall(v)
  BY <1>0, <1>1, CallStepFrame DEF CallStep
<1>3. \A r : Settled(r)' => Settled(r) \/ (Succeeded(w)' /\ job[w] = r)
  BY <1>1, <1>2 DEF Settled, Succeeded, SameCall
<1>a. ASSUME UNCHANGED files, Succeeded(w)' => Succeeded(w),
             InWindow(w)' => InWindow(w) /\ UNCHANGED callVars,
             overlap \subseteq overlap', broken \subseteq broken'
      PROVE  DoneInv'
  <2>1. ASSUME NEW i \in Images PROVE Kept(i)'
    <3>1. Kept(i) /\ (Undisturbed(i)' => Undisturbed(i))
      BY <1>a, <1>1 DEF DoneInv, Undisturbed
    <3>2. \A v \in Workers : InWindow(v)' /\ img'[v] = i =>
            InWindow(v) /\ img[v] = i /\ filedata'[v] = filedata[v]
      BY <1>2, <1>a DEF SameCall, InWindow, callVars
    <3>3. \A r \in Requests : Settled(r)' => Settled(r)
      BY <1>3, <1>a, <1>1 DEF Settled
    <3> QED BY <3>1, <3>2, <3>3, <1>a, NothingSettled
  <2> QED BY <2>1 DEF DoneInv
<1>4. CASE UpdatePop(w) \/ Find(w) \/ RemoveFails(w)
  <2>1. /\ UNCHANGED <<files, overlap, broken>>
        /\ \/ mpc'[w] \in {"find", "remove"}
           \/ mpc'[w] = "updatePush" /\ ret'[w] = "error"
    BY <1>4, <1>0 DEF UpdatePop, Pop, Find, RemoveFails, Continue, GiveUp, Goto, storeVars, historyVars
  <2> QED BY <2>1, <1>a DEF Succeeded, InWindow
<1>5. CASE RemoveChunks(w) \/ OpenUpload(w) \/ ReplaceFails(w)
  <2>1. /\ UNCHANGED files /\ UNCHANGED callVars /\ mpc[w] \in {"removeChunks", "openUpload"}
        /\ overlap \subseteq overlap' /\ broken \subseteq broken'
        /\ \/ mpc'[w] \in {"openUpload", "write"}
           \/ mpc'[w] = "updatePush" /\ ret'[w] = "error"
    BY <1>5, <1>0 DEF RemoveChunks, OpenUpload, ReplaceFails, Continue, GiveUp, Goto, storeVars, historyVars
  <2> QED BY <2>1, <1>a DEF Succeeded, InWindow
<1>6. CASE Write(w)
  <2>1. /\ mpc[w] = "write" /\ NextChunk(w, "close") /\ "close" \in Labels
        /\ UNCHANGED <<files, callVars, overlap>> /\ broken \subseteq broken'
    BY <1>6 DEF Write, Labels
  <2>2. mpc'[w] \in {"write", "close"}
    BY <2>1, <1>0, NextChunkStays
  <2> QED BY <2>1, <2>2, <1>a DEF Succeeded, InWindow
<1>7. CASE UpdatePush(w)
  <2>1. /\ UNCHANGED <<files, overlap, broken, ret>> /\ mpc[w] = "updatePush" /\ mpc'[w] = "out"
    BY <1>7, <1>0 DEF UpdatePush, Return, Continue, Goto, storeVars, historyVars
  <2> QED BY <2>1, <1>1, <1>a DEF Succeeded, InWindow
<1>8. CASE RemoveDocument(w)
  <2>1. /\ mpc[w] = "remove" /\ mpc'[w] = "removeChunks" /\ files' = [files EXCEPT ![k] = None]
        /\ overlap' = overlap \cup {i \in {k} : \E v \in Workers : InWindow(v) /\ img[v] = i}
        /\ UNCHANGED <<img, filedata, broken>>
    BY <1>8, <1>k, <1>0 DEF RemoveDocument, Continue, Goto, callVars
  <2>2. k \in Images /\ filedata[w] \in Versions
    BY <2>1, <1>k, <1>0 DEF CallInv, UpdateLabels
  <2>3. \A r : Settled(r)' => Settled(r)
    BY <1>3, <2>1 DEF Succeeded
  <2>4. \A v \in Workers \ {w} : InWindow(v)' <=> InWindow(v)
    BY <1>2 DEF InWindow, SameCall
  <2>5. ASSUME NEW i \in Images, i # k PROVE Kept(i)'
    <3>1. Kept(i) /\ (Undisturbed(i)' => Undisturbed(i)) /\ files'[i] = files[i]
      BY <2>1, <2>2, <2>5, <1>0, <1>1 DEF DoneInv, Undisturbed
    <3>2. \A v \in Workers : InWindow(v)' /\ img'[v] = i =>
            InWindow(v) /\ img[v] = i /\ filedata'[v] = filedata[v]
      BY <1>k, <2>1, <2>4, <2>5
    <3> QED BY <3>1, <3>2, <2>3, NothingSettled
  <2>6. ASSUME Undisturbed(k)', NEW r \in Requests, Settled(r)', imageId[r] = k
        PROVE  r \in Range(filedata[w].ops)
    <3>1. Undisturbed(k) /\ ~ \E v \in Workers : InWindow(v) /\ img[v] = k
      BY <1>k, <2>1, <2>6, <1>1 DEF Undisturbed
    <3>2. Whole(k)
      BY <3>1, <2>2, <1>0 DEF StoreInv, LossNeedsFailure, Undisturbed
    <3>3. files[k] # None
      BY <3>2 DEF Whole
    <3>4. r \in Range(files[k].ops)
      BY <3>1, <3>3, <2>2, <2>3, <2>6 DEF DoneInv, Kept
    <3>5. files[k].ops = Front(filedata[w].ops)
      <4>1. outdated' = outdated \cup {k} \/ files[k].ops = Front(filedata[w].ops)
        BY <1>8, <1>k, <3>3 DEF Update
      <4> QED BY <4>1, <2>6 DEF Undisturbed
    <3>6. filedata[w].ops \in Seq(Requests) /\ filedata[w].ops # <<>>
      BY <2>1, <2>2, <1>0 DEF Versions, WorkerOK, UpdateLabels
    <3> QED BY <3>4, <3>5, <3>6, FrontIsPart
  <2>7. Kept(k)'
    <3>1. files'[k] = None
      BY <2>1, <2>2, <1>0
    <3>2. Undisturbed(k)' => \A v \in Workers \ {w} : ~ (InWindow(v)' /\ img'[v] = k)
      BY <1>k, <2>1, <2>4 DEF Undisturbed
    <3> QED BY <1>k, <3>1, <3>2, <2>1, <2>6 DEF Kept
  <2> QED BY <2>5, <2>7 DEF DoneInv
<1>9. CASE Close(w)
  <2>1. /\ mpc[w] = "close" /\ mpc'[w] = "updatePush" /\ UNCHANGED <<img, filedata, overlap>>
        /\ \/ files' = [files EXCEPT ![k] = filedata[w]] /\ UNCHANGED broken
           \/ broken' = broken \cup {k} /\ UNCHANGED files
    BY <1>9, <1>k, <1>0 DEF Close, Continue, Goto, callVars
  <2>2. k \in Images /\ filedata[w] \in Versions /\ k = imageId[job[w]]
        /\ job[w] \in Range(filedata[w].ops)
    BY <2>1, <1>k, <1>0 DEF CallInv, UpdateLabels, Window, WorkerOK
  <2>3. InWindow(w) /\ ~ InWindow(w)' /\ \A v \in Workers \ {w} : InWindow(v)' <=> InWindow(v)
    BY <2>1, <1>2 DEF InWindow, SameCall
  <2>4. ASSUME NEW i \in Images, i # k PROVE Kept(i)'
    <3>1. Kept(i) /\ (Undisturbed(i)' => Undisturbed(i)) /\ files'[i] = files[i]
      BY <2>1, <2>2, <2>4, <1>0, <1>1 DEF DoneInv, Undisturbed
    <3>2. \A r \in Requests : Settled(r)' /\ imageId[r] = i => Settled(r)
      BY <1>3, <2>2, <2>4
    <3> QED BY <1>k, <3>1, <3>2, <2>1, <2>3 DEF Kept
  <2>5. ASSUME Undisturbed(k)' PROVE Kept(k)'
    <3>1. Undisturbed(k) /\ files' = [files EXCEPT ![k] = filedata[w]]
      BY <2>1, <2>5, <1>1 DEF Undisturbed
    <3>2. \A v \in Workers : InWindow(v) /\ img[v] = k => v = w
      BY <1>k, <3>1, <2>3, <1>0 DEF StoreInv, Undisturbed
    <3>3. \A r \in Requests : Settled(r)' /\ imageId[r] = k => r \in Range(filedata[w].ops)
      BY <1>k, <1>3, <3>1, <2>2, <2>3 DEF DoneInv, Kept
    <3>4. files'[k] = filedata[w]
      BY <3>1, <2>2, <1>0
    <3> QED BY <1>k, <3>2, <3>3, <3>4, <2>1, <2>3 DEF Kept
  <2> QED BY <2>4, <2>5 DEF DoneInv, Kept
<1> QED BY <1>1, <1>4, <1>5, <1>6, <1>7, <1>8, <1>9 DEF UpdateStep

LEMMA NextKeepsDone ==
  ASSUME CallsInv, CallsInv', DoneInv, [Next]_vars
  PROVE  DoneInv'
<1>1. CASE ProcessEnds
  <2>1. /\ UNCHANGED <<files, overlap, acked, outdated>> /\ broken \subseteq broken'
        /\ \A w \in Workers : mpc'[w] = "out" /\ jpc'[w] = "idle"
    BY <1>1 DEF ProcessEnds, MongoEnds, ForAll, storeVars
  <2>2. ASSUME NEW i \in Images PROVE Kept(i)'
    BY <2>1, NothingSettled DEF DoneInv, Kept, Undisturbed, Settled, Succeeded, InWindow
  <2> QED BY <2>2 DEF DoneInv
<1>2. ASSUME NEW w \in Workers, WorkerStep(w) \/ \E r \in Requests : Begin(w, r), ~ ProcessEnds
      PROVE  DoneInv'
  <2>1. \/ \E r \in Requests : Begin(w, r)
        \/ Get(w) \/ GetFailed(w) \/ AcquireCodec(w) \/ WorkFails(w) \/ WorkDone(w)
        \/ Update(w) \/ ReclaimPng(w) \/ Finish(w)
    BY <1>2 DEF WorkerStep, Crash
  <2> QED BY <2>1, OtherStepKeepsDone, UpdateKeepsDone
<1>3. CASE UNCHANGED vars
  BY <1>3 DEF vars, mongoVars, callVars, storeVars, historyVars, jobVars, brokerVars,
       DoneInv, Kept, Undisturbed, Settled, Succeeded, InWindow
<1> QED BY <1>1, <1>2, <1>3 DEF Next

\* What Done was sent for is in the image as it is stored, unless an update of
\* the image failed half way, ran together with another or was made of an old
\* version: for every number of threads, requests, images and chunks.
THEOREM DoneStaysInStore == Spec => []DoneIsInStore
<1>1. CallsInv /\ DoneInv => DoneIsInStore
  <2>1. RequestsOK => acked \subseteq Requests
    BY DEF RequestsOK
  <2> QED BY <2>1, RequestsHaveImages DEF CallsInv, DoneInv, Kept, Settled, Undisturbed, DoneIsInStore
<1>2. CallsInv /\ [Next]_vars => CallsInv'
  BY NextKeepsCalls
<1>3. CallsInv /\ CallsInv' /\ DoneInv /\ [Next]_vars => DoneInv'
  BY NextKeepsDone
<1> QED BY InitCalls, InitDone, <1>1, <1>2, <1>3, PTL DEF Spec

-----------------------------------------------------------------------------
(* Nothing is applied twice before a restart                               *)

\* Worker w is putting the result of its request into the store, or has.
Applying(w) ==
  jpc[w] = "update" /\ ret[w] = "ok" /\ mpc[w] \in {"write", "close", "updatePush", "out"}

Applied == acked \cup {job[w] : w \in {v \in Workers : Applying(v)}}

\* No request of set S twice in the version, and none of another set.
Once(version, S) == version # None => IsInjective(version.ops) /\ Range(version.ops) \subseteq S

\* Wherever a version is kept.
AllOnce ==
  /\ \A i \in Images : Once(files[i], Applied)
  /\ \A i \in Images, n \in 1..Chunks : Once(chunks[i][n], Applied)
  /\ \A w \in Workers, n \in 1..Chunks : Once(outBuf[w][n], Applied)
  /\ \A w \in Workers : mpc[w] \in UpdateLabels => Once(filedata[w], Applied \cup {job[w]})

OnceInv == exits = 0 => AllOnce

LEMMA InitOnce == Init => OnceInv
<1> SUFFICES ASSUME Init PROVE AllOnce
  BY DEF OnceInv
<1>1. IsInjective(<<>>) /\ Range(<<>>) = {}
  BY DEF IsInjective, Range
<1>2. \A i \in Images : files[i].ops = <<>>
  BY DEF Init
<1>3. /\ \A i \in Images, n \in 1..Chunks : chunks[i][n] = files[i]
      /\ \A w \in Workers, n \in 1..Chunks : outBuf[w][n] = None
      /\ \A w \in Workers : mpc[w] = "out"
  BY DEF Init, Quiet, ForAll, NoChunks
<1> QED BY <1>1, <1>2, <1>3 DEF AllOnce, Once, UpdateLabels, Window

LEMMA OnceInMore ==
  ASSUME NEW version, NEW S, NEW T, S \subseteq T, Once(version, S)
  PROVE  Once(version, T)
BY DEF Once

\* What a worker applies stays applied: it is acknowledged when the job ends.
LEMMA AppliedGrows ==
  ASSUME CallsInv, NEW w \in Workers,
         \/ \E r \in Requests : Begin(w, r)
         \/ Get(w) \/ GetFailed(w) \/ AcquireCodec(w) \/ WorkFails(w) \/ WorkDone(w)
         \/ Update(w) \/ ReclaimPng(w) \/ Finish(w)
  PROVE  Applied \subseteq Applied'
<1>0. /\ MongoTypeOK /\ WorkerOK(w)
      /\ mpc \in [Workers -> Labels] /\ chunk \in [Workers -> 1..Chunks]
      /\ jpc \in [Workers -> {"idle", "get", "work", "update"}]
  BY DEF CallsInv, MongoIInv, MongoInv, WorkersOK, MongoTypeOK, RequestsOK
<1>1. acked \subseteq acked'
  BY DEF Begin, Get, GetFailed, AcquireCodec, WorkFails, WorkDone, Update, ReclaimPng, Finish,
     AnswerFail, jobVars, brokerVars
<1>2. Applying(w) => job[w] \in acked' \/ (Applying(w)' /\ job'[w] = job[w])
  <2>1. CASE Finish(w)
    BY <2>1 DEF Finish, Applying
  <2>2. CASE ReclaimPng(w)
    BY <2>2 DEF ReclaimPng, mongoVars, jobVars, Applying
  <2>3. CASE Update(w)
    <3>1. UpdateStep(w) /\ UNCHANGED <<jpc, job>>
      BY <2>3 DEF Update
    <3>2. ~ Applying(w) \/ Write(w) \/ Close(w) \/ UpdatePush(w)
      BY <3>1 DEF UpdateStep, UpdatePop, Pop, Find, RemoveDocument, RemoveFails, RemoveChunks,
         OpenUpload, ReplaceFails, Applying
    <3>3. CASE Write(w)
      <4>1. mpc[w] = "write" /\ NextChunk(w, "close") /\ "close" \in Labels /\ ret' = ret
        BY <3>3 DEF Write, Labels
      <4>2. mpc'[w] \in {"write", "close"}
        BY <4>1, <1>0, NextChunkStays
      <4> QED BY <3>1, <4>1, <4>2 DEF Applying
    <3>4. CASE Close(w)
      BY <3>1, <3>4, <1>0 DEF Close, Continue, Goto, Applying
    <3>5. CASE UpdatePush(w)
      BY <3>1, <3>5, <1>0 DEF UpdatePush, Return, Continue, Goto, Applying
    <3> QED BY <3>2, <3>3, <3>4, <3>5
  <2>4. CASE ~ (Finish(w) \/ ReclaimPng(w) \/ Update(w))
    <3>1. jpc[w] # "update"
      BY <2>4 DEF Begin, Get, GetFailed, AcquireCodec, WorkFails, WorkDone, AnswerFail, Step
    <3> QED BY <3>1 DEF Applying
  <2> QED BY <2>1, <2>2, <2>3, <2>4
<1>3. \A v \in Workers \ {w} : Applying(v) => Applying(v)' /\ job'[v] = job[v]
  BY OthersStay DEF Applying, SameCall
<1> QED BY <1>1, <1>2, <1>3 DEF Applied

LEMMA OtherStepKeepsOnce ==
  ASSUME CallsInv, CallsInv', AllOnce, NEW w \in Workers,
         \/ \E r \in Requests : Begin(w, r)
         \/ Get(w) \/ GetFailed(w) \/ AcquireCodec(w) \/ WorkFails(w) \/ WorkDone(w)
         \/ ReclaimPng(w) \/ Finish(w)
  PROVE  AllOnce'
<1>0. /\ MongoTypeOK /\ MongoTypeOK' /\ CallInv /\ RequestsOK /\ WorkerOK(w) /\ WorkerOK(w)'
      /\ outBuf \in [Workers -> [1..Chunks -> Versions \cup {None}]]
      /\ mpc \in [Workers -> Labels] /\ filedata \in [Workers -> Versions \cup {None}]
      /\ chunk \in [Workers -> 1..Chunks]
  BY DEF CallsInv, MongoIInv, MongoInv, WorkersOK, MongoTypeOK
<1>1. /\ Applied \subseteq Applied'
      /\ \A v \in Workers \ {w} : SameCall(v) /\ jpc'[v] = jpc[v] /\ job'[v] = job[v]
  BY AppliedGrows, OthersStay
<1>m. \A version : Once(version, Applied) => Once(version, Applied')
  BY <1>1, OnceInMore
<1>2. UNCHANGED <<files, chunks>>
  <2>1. Get(w) => UNCHANGED storeVars
    BY DEF Get, GetStep, GetPop, Pop, Open, ReadChunk, ReadFailsAtFirst, GetPush, Destroy, Return
  <2>2. ~ Get(w) => UNCHANGED storeVars
    BY DEF Begin, GetFailed, AcquireCodec, WorkFails, WorkDone, ReclaimPng, Finish, Drop,
       CallGet, CallUpdate, mongoVars
  <2> QED BY <2>1, <2>2 DEF storeVars
<1>3. ASSUME NEW n \in 1..Chunks PROVE Once(outBuf'[w][n], Applied')
  <2>1. CASE Get(w)
    <3>1. CASE ReadChunk(w)
      <4> DEFINE m == chunk[w]
                 read == chunks[img[w]][m]
      <4>1. mpc[w] = "read" /\ outBuf' = [outBuf EXCEPT ![w][m] = read]
        BY <3>1 DEF ReadChunk
      <4>2. img[w] \in Images /\ m \in 1..Chunks
        BY <4>1, <1>0 DEF CallInv
      <4>3. Once(read, Applied)
        BY <4>2 DEF AllOnce
      <4>4. outBuf'[w] = [outBuf[w] EXCEPT ![m] = read] /\ outBuf[w] \in [1..Chunks -> Versions \cup {None}]
        BY <4>1, <1>0
      <4>5. outBuf'[w][n] = IF n = m THEN read ELSE outBuf[w][n]
        BY <4>4
      <4> HIDE DEF read
      <4> QED BY <4>3, <4>5, <1>m DEF AllOnce
    <3>2. CASE ~ ReadChunk(w)
      <4>1. outBuf' = outBuf
        BY <2>1, <3>2 DEF Get, GetStep, GetPop, Pop, Open, ReadFailsAtFirst, GetPush, Destroy, Return, callVars
      <4> QED BY <4>1, <1>m DEF AllOnce
    <3> QED BY <3>1, <3>2
  <2>2. CASE ~ Get(w)
    <3>1. outBuf' = outBuf \/ outBuf' = [outBuf EXCEPT ![w] = NoChunks]
      BY <2>2 DEF Begin, GetFailed, AcquireCodec, WorkFails, WorkDone, ReclaimPng, Finish, Drop,
         CallGet, CallUpdate, mongoVars, callVars
    <3>2. outBuf'[w][n] = outBuf[w][n] \/ outBuf'[w][n] = None
      BY <3>1, <1>0 DEF NoChunks
    <3> QED BY <3>2, <1>m DEF AllOnce, Once
  <2> QED BY <2>1, <2>2
<1>4. mpc'[w] \in UpdateLabels => Once(filedata'[w], (Applied \cup {job[w]})')
  <2>1. CASE WorkDone(w)
    <3>1. PICK t \in {codec[<<w, "codec">>].type, "png"} :
            CallUpdate(w, imageId[job[w]], [format |-> t, ops |-> Append(outBuf[w][1].ops, job[w])])
      BY <2>1 DEF WorkDone
    <3>2. jpc[w] = "work" /\ job' = job
      BY <2>1 DEF WorkDone, Step
    <3>3. job[w] \in Requests /\ outBuf[w][1] \in Versions /\ outBuf[w][1] # None
      BY <3>2, <1>0, NoneIsNothing DEF WorkerOK, HasImage
    <3>4. outBuf[w][1].ops \in Seq(Requests)
      BY <3>3 DEF Versions
    <3>5. IsInjective(outBuf[w][1].ops) /\ Range(outBuf[w][1].ops) \subseteq Applied
      BY <3>3, ChunksAreThere DEF AllOnce, Once
    <3>6. job[w] \notin Applied
      <4>1. job[w] \notin acked /\ job[w] # None
        BY <3>3, <1>0, NoRequest DEF RequestsOK
      <4>2. \A v \in Workers : Applying(v) => job[v] # job[w]
        BY <3>2, <4>1, <1>0 DEF Applying, RequestsOK
      <4> QED BY <4>1, <4>2 DEF Applied
    <3> DEFINE ops == Append(outBuf[w][1].ops, job[w])
    <3>7. IsInjective(ops) /\ Range(ops) \subseteq Applied \cup {job[w]}
      BY <3>3, <3>4, <3>5, <3>6, AppendAddsOne
    <3>8. filedata'[w].ops = ops
      BY <3>1, <1>0 DEF CallUpdate
    <3> HIDE DEF ops
    <3>9. Applied \cup {job[w]} \subseteq (Applied \cup {job[w]})'
      BY <1>1, <3>2
    <3> QED BY <3>7, <3>8, <3>9 DEF Once
  <2>2. CASE ReclaimPng(w)
    <3>1. UNCHANGED <<mpc, filedata, job>>
      BY <2>2 DEF ReclaimPng, mongoVars, callVars, jobVars
    <3>2. Applied \cup {job[w]} \subseteq (Applied \cup {job[w]})'
      BY <1>1, <3>1
    <3> QED BY <3>1, <3>2, OnceInMore DEF AllOnce
  <2>3. CASE ~ (WorkDone(w) \/ ReclaimPng(w))
    <3>1. jpc'[w] \in {"idle", "get", "work"}
      BY <2>3, <1>0 DEF Begin, Get, GetFailed, AcquireCodec, WorkFails, Finish, AnswerFail, Step,
         jobVars, RequestsOK
    <3> QED BY <3>1, <1>0 DEF WorkerOK, GetLabels, UpdateLabels, Window
  <2> QED BY <2>1, <2>2, <2>3
<1>5. ASSUME NEW v \in Workers \ {w}
      PROVE  /\ \A n \in 1..Chunks : Once(outBuf'[v][n], Applied')
             /\ mpc'[v] \in UpdateLabels => Once(filedata'[v], (Applied \cup {job[v]})')
  <2>1. outBuf'[v] = outBuf[v] /\ mpc'[v] = mpc[v] /\ filedata'[v] = filedata[v] /\ job'[v] = job[v]
    BY <1>1 DEF SameCall
  <2>2. Applied \cup {job[v]} \subseteq (Applied \cup {job[v]})'
    BY <1>1, <2>1
  <2> QED BY <2>1, <2>2, <1>m, OnceInMore DEF AllOnce
<1> QED BY <1>2, <1>3, <1>4, <1>5, <1>m DEF AllOnce

LEMMA UpdateKeepsOnce ==
  ASSUME CallsInv, AllOnce, NEW w \in Workers, Update(w)
  PROVE  AllOnce'
<1>0. /\ MongoTypeOK /\ CallInv /\ WorkerOK(w) /\ mpc \in [Workers -> Labels]
      /\ filedata \in [Workers -> Versions \cup {None}] /\ chunk \in [Workers -> 1..Chunks]
      /\ files \in [Images -> Versions \cup {None}]
      /\ chunks \in [Images -> [1..Chunks -> Versions \cup {None}]]
  BY DEF CallsInv, MongoIInv, MongoInv, WorkersOK, MongoTypeOK
<1>1. /\ Applied \subseteq Applied' /\ jpc[w] = "update" /\ UNCHANGED <<job, jpc>> /\ UpdateStep(w)
      /\ \A v \in Workers \ {w} : SameCall(v)
  BY AppliedGrows, OthersStay DEF Update
<1>m. \A version : Once(version, Applied) => Once(version, Applied')
  BY <1>1, OnceInMore
<1>2. /\ outBuf' = outBuf /\ mpc[w] \in UpdateLabels
      /\ mpc'[w] = "out" \/ filedata' = filedata
  <2>1. CASE UpdatePush(w)
    BY <2>1, <1>0 DEF UpdatePush, Return, Continue, Goto, UpdateLabels
  <2>2. CASE ~ UpdatePush(w)
    <3>1. UNCHANGED callVars
      BY <2>2, <1>1 DEF UpdateStep, UpdatePop, Pop, Find, RemoveDocument, RemoveFails,
         RemoveChunks, OpenUpload, ReplaceFails, Write, Close
    <3>2. mpc[w] \in UpdateLabels
      BY <2>2, <1>1 DEF UpdateStep, UpdatePop, Pop, Find, RemoveDocument, RemoveFails,
         RemoveChunks, OpenUpload, ReplaceFails, Write, Close, UpdateLabels, Window
    <3> QED BY <3>1, <3>2 DEF callVars
  <2> QED BY <2>1, <2>2
<1>3. ASSUME NEW v \in Workers, mpc'[v] \in UpdateLabels
      PROVE  Once(filedata'[v], (Applied \cup {job[v]})')
  <2>1. mpc'[v] # "out" /\ Applied \cup {job[v]} \subseteq (Applied \cup {job[v]})'
    BY <1>1, <1>3 DEF UpdateLabels, Window
  <2>2. mpc[v] \in UpdateLabels /\ filedata'[v] = filedata[v]
    BY <1>1, <1>2, <1>3, <2>1 DEF SameCall
  <2> QED BY <2>1, <2>2, OnceInMore DEF AllOnce
<1>4. ASSUME \/ files' = files
             \/ files' = [files EXCEPT ![img[w]] = None]
             \/ files' = [files EXCEPT ![img[w]] = filedata[w]] /\ Applying(w)',
             NEW i \in Images
      PROVE  Once(files'[i], Applied')
  <2>1. files'[i] = files[i] \/ files'[i] = None \/ (files'[i] = filedata[w] /\ Applying(w)')
    BY <1>4, <1>0
  <2>2. Applying(w)' => Applied \cup {job[w]} \subseteq Applied'
    BY <1>1 DEF Applied
  <2>3. Once(filedata[w], Applied \cup {job[w]})
    BY <1>2 DEF AllOnce
  <2> QED BY <2>1, <2>2, <2>3, <1>m, OnceInMore DEF AllOnce, Once
<1>5. ASSUME \/ chunks' = chunks
             \/ chunks' = [chunks EXCEPT ![img[w]] = NoChunks]
             \/ \E m \in 1..Chunks :
                  chunks' = [chunks EXCEPT ![img[w]][m] = filedata[w]] /\ Applying(w)',
             NEW i \in Images, NEW n \in 1..Chunks
      PROVE  Once(chunks'[i][n], Applied')
  <2>1. \/ chunks'[i][n] = chunks[i][n] \/ chunks'[i][n] = None
        \/ (chunks'[i][n] = filedata[w] /\ Applying(w)')
    <3>1. CASE chunks' = [chunks EXCEPT ![img[w]] = NoChunks]
      BY <3>1, <1>0 DEF NoChunks
    <3>2. ASSUME NEW m \in 1..Chunks, Applying(w)',
                 chunks' = [chunks EXCEPT ![img[w]][m] = filedata[w]]
          PROVE  chunks'[i][n] = chunks[i][n] \/ chunks'[i][n] = filedata[w]
      <4>1. chunks'[i] = chunks[i] \/ chunks'[i] = [chunks[i] EXCEPT ![m] = filedata[w]]
        BY <3>2, <1>0
      <4>2. chunks[i] \in [1..Chunks -> Versions \cup {None}]
        BY <1>0
      <4> QED BY <4>1, <4>2
    <3> QED BY <1>5, <3>1, <3>2
  <2>2. Applying(w)' => Applied \cup {job[w]} \subseteq Applied'
    BY <1>1 DEF Applied
  <2>3. Once(filedata[w], Applied \cup {job[w]})
    BY <1>2 DEF AllOnce
  <2> QED BY <2>1, <2>2, <2>3, <1>m, OnceInMore DEF AllOnce, Once
<1>6. \/ files' = files
      \/ files' = [files EXCEPT ![img[w]] = None]
      \/ files' = [files EXCEPT ![img[w]] = filedata[w]] /\ Applying(w)'
  <2>1. CASE Close(w)
    <3>1. ret'[w] = "ok" /\ mpc'[w] = "updatePush"
      BY <2>1, <1>0 DEF Close, Continue, Goto, WorkerOK, UpdateLabels, Window
    <3>2. Applying(w)'
      BY <3>1, <1>1 DEF Applying
    <3> QED BY <2>1, <3>2 DEF Close
  <2>2. CASE ~ Close(w)
    BY <2>2, <1>1 DEF UpdateStep, UpdatePop, Pop, Find, RemoveDocument, RemoveFails, RemoveChunks,
       OpenUpload, ReplaceFails, Write, UpdatePush, Return, storeVars
  <2> QED BY <2>1, <2>2
<1>7. \/ chunks' = chunks
      \/ chunks' = [chunks EXCEPT ![img[w]] = NoChunks]
      \/ \E m \in 1..Chunks :
           chunks' = [chunks EXCEPT ![img[w]][m] = filedata[w]] /\ Applying(w)'
  <2>1. CASE Write(w)
    <3>1. mpc[w] = "write" /\ NextChunk(w, "close") /\ "close" \in Labels /\ ret' = ret
      BY <2>1 DEF Write, Labels
    <3>2. mpc'[w] \in {"write", "close"}
      BY <3>1, <1>0, NextChunkStays
    <3>3. Applying(w)'
      BY <3>1, <3>2, <1>0, <1>1 DEF Applying, WorkerOK, UpdateLabels, Window
    <3>4. chunk[w] \in 1..Chunks
      BY <1>0
    <3>5. chunks' = chunks \/ chunks' = [chunks EXCEPT ![img[w]][chunk[w]] = filedata[w]]
      BY <2>1 DEF Write
    <3> QED BY <3>3, <3>4, <3>5
  <2>2. CASE ~ Write(w)
    BY <2>2, <1>1 DEF UpdateStep, UpdatePop, Pop, Find, RemoveDocument, RemoveFails, RemoveChunks,
       OpenUpload, ReplaceFails, Close, UpdatePush, Return, storeVars
  <2> QED BY <2>1, <2>2
<1>8. \A v \in Workers, n \in 1..Chunks : Once(outBuf'[v][n], Applied')
  BY <1>2, <1>m DEF AllOnce
<1> QED BY <1>3, <1>4, <1>5, <1>6, <1>7, <1>8 DEF AllOnce

LEMMA NextKeepsOnce ==
  ASSUME CallsInv, CallsInv', OnceInv, [Next]_vars
  PROVE  OnceInv'
<1>1. CASE ProcessEnds
  <2>1. exits \in Nat /\ exits' = exits + 1
    BY <1>1 DEF CallsInv, RequestsOK, ProcessEnds
  <2> QED BY <2>1 DEF OnceInv
<1>2. ASSUME NEW w \in Workers, WorkerStep(w) \/ \E r \in Requests : Begin(w, r), ~ ProcessEnds
      PROVE  OnceInv'
  <2>1. \/ \E r \in Requests : Begin(w, r)
        \/ Get(w) \/ GetFailed(w) \/ AcquireCodec(w) \/ WorkFails(w) \/ WorkDone(w)
        \/ Update(w) \/ ReclaimPng(w) \/ Finish(w)
    BY <1>2 DEF WorkerStep, Crash
  <2>2. exits' = exits
    BY <2>1 DEF Begin, Get, GetFailed, AcquireCodec, WorkFails, WorkDone, Update, ReclaimPng,
       Finish, AnswerFail, jobVars
  <2>3. AllOnce => AllOnce'
    BY <2>1, OtherStepKeepsOnce, UpdateKeepsOnce
  <2> QED BY <2>2, <2>3 DEF OnceInv
<1>3. CASE UNCHANGED vars
  BY <1>3 DEF vars, mongoVars, callVars, storeVars, jobVars, brokerVars, OnceInv, AllOnce,
     Applied, Applying, Once
<1> QED BY <1>1, <1>2, <1>3 DEF Next

\* Before the process has ended for the first time no request is in an image
\* twice, and every one that is in an image is acknowledged or in hand: what
\* the workers do among each other never repeats a request.
THEOREM NothingTwice == Spec => []AppliedOnce
<1>1. CallsInv /\ OnceInv => AppliedOnce
  <2>1. ASSUME CallsInv PROVE Applied \subseteq acked \cup InHand
    <3>1. \A w \in Workers : Applying(w) => job[w] # None
      BY <2>1, NoRequest DEF Applying, CallsInv, WorkersOK, WorkerOK
    <3> QED BY <3>1 DEF Applied, InHand
  <2> QED BY <2>1 DEF OnceInv, AllOnce, Once, AppliedOnce
<1>2. CallsInv /\ [Next]_vars => CallsInv'
  BY NextKeepsCalls
<1>3. CallsInv /\ CallsInv' /\ OnceInv /\ [Next]_vars => OnceInv'
  BY NextKeepsOnce
<1> QED BY InitCalls, InitOnce, <1>1, <1>2, <1>3, PTL DEF Spec

-----------------------------------------------------------------------------
(* Clients and codecs are lent to one holder at a time                     *)

FactoryInv ==
  /\ CodecInv /\ NoCodecLost
  /\ \A h \in Holders : codec[h] # NoCodec => codec[h].id \in 1..allocated[codec[h].type]
  /\ \A t \in Types : allocated[t] <= Cardinality(Workers)

\* A worker's second codec is the png codec of a worker that has a jpg codec.
HoldersInv ==
  \A w \in Workers :
    /\ jpc[w] \notin {"work", "update"} => codec[<<w, "codec">>] = NoCodec
    /\ codec[<<w, "pngCodec">>] # NoCodec =>
         /\ jpc[w] = "update"
         /\ codec[<<w, "codec">>].type = "jpg" /\ codec[<<w, "pngCodec">>].type = "png"


LEMMA CodecFields ==
  ASSUME NEW c \in Codecs
  PROVE  c.type \in Types /\ c.id \in Nat /\ c # NoCodec
BY CodecAssumption DEF Codecs

LEMMA OnePerWorker ==
  ASSUME NEW H \in SUBSET Holders, \A g, h \in H : g[1] = h[1] => g = h
  PROVE  IsFiniteSet(H) /\ Cardinality(H) <= Cardinality(Workers)
<1> DEFINE f == [h \in H |-> h[1]]
<1>1. \A h \in H : h[1] \in Workers
  BY JobsAssumption
<1>2. f \in Injection(H, Workers)
  <2>1. f \in [H -> Workers]
    BY <1>1
  <2>2. \A g, h \in H : f[g] = f[h] => g = h
    OBVIOUS
  <2> QED BY <2>1, <2>2 DEF Injection, IsInjective
<1> HIDE DEF f
<1> QED BY <1>2, FS_Injection, JobsAssumption

LEMMA HoldersFinite == IsFiniteSet(Holders)
<1>1. IsFiniteSet({"codec", "pngCodec"})
  <2>1. {"codec", "pngCodec"} = {"codec"} \cup {"pngCodec"}
    OBVIOUS
  <2>2. IsFiniteSet({"codec"})
    BY FS_Singleton
  <2>3. IsFiniteSet({"codec"} \cup {"pngCodec"})
    BY <2>2, FS_AddElement
  <2> QED BY <2>1, <2>3
<1> QED BY <1>1, FS_Product, JobsAssumption

LEMMA AcquireKeepsFactory ==
  ASSUME CodecTypes, FactoryInv, NEW h \in Holders, NEW t \in Types, acquireFromType(h, t),
         \A g, k \in HeldBy(t) \cup {h} : g[1] = k[1] => g = k
  PROVE  FactoryInv'
<1>s. PICK s : s = m_pool[t]
  OBVIOUS
<1>n. PICK n \in Nat : n = Len(s)
  BY <1>s DEF CodecTypes
<1>a. PICK a \in Nat : a = allocated[t]
  BY DEF CodecTypes
<1>0. /\ codec \in [Holders -> Codecs \cup {NoCodec}] /\ m_pool \in [Types -> Seq(Codecs)]
      /\ allocated \in [Types -> Nat] /\ s \in Seq(Codecs) /\ codec[h] = NoCodec
      /\ DOMAIN s = 1..n /\ \A k \in 1..n : s[k] \in Codecs
  BY <1>s, <1>n DEF CodecTypes, acquireFromType
<1>i. /\ \A u \in Types : \A k \in DOMAIN m_pool[u] :
           /\ m_pool[u][k].type = u /\ m_pool[u][k].id \in 1..allocated[u]
           /\ \A j \in DOMAIN m_pool[u] : m_pool[u][j] = m_pool[u][k] => j = k
           /\ \A g \in Holders : codec[g] # m_pool[u][k]
      /\ \A g, k \in Holders : codec[g] # NoCodec /\ codec[g] = codec[k] => g = k
      /\ \A u \in Types : allocated[u] = Len(m_pool[u]) + Cardinality(HeldBy(u))
      /\ \A g \in Holders : codec[g] # NoCodec => codec[g].id \in 1..allocated[codec[g].type]
      /\ \A u \in Types : allocated[u] <= Cardinality(Workers)
  BY DEF FactoryInv, CodecInv, NoCodecLost
<1>e. \A k \in 1..n :
        /\ s[k].type = t /\ s[k].id \in 1..a
        /\ \A j \in 1..n : s[j] = s[k] => j = k
        /\ \A g \in Holders : codec[g] # s[k]
  <2>1. \A k \in DOMAIN m_pool[t] :
           /\ m_pool[t][k].type = t /\ m_pool[t][k].id \in 1..allocated[t]
           /\ \A j \in DOMAIN m_pool[t] : m_pool[t][j] = m_pool[t][k] => j = k
           /\ \A g \in Holders : codec[g] # m_pool[t][k]
    BY <1>i
  <2>2. \A k \in DOMAIN s :
           /\ s[k].type = t /\ s[k].id \in 1..a
           /\ \A j \in DOMAIN s : s[j] = s[k] => j = k
           /\ \A g \in Holders : codec[g] # s[k]
    BY <2>1, <1>s, <1>a
  <2> QED BY <2>2, <1>0
<1>x. PICK x : /\ x \in Codecs /\ x.type = t
               /\ codec' = [codec EXCEPT ![h] = x]
               /\ \A g \in Holders : codec[g] # x
               /\ \/ /\ n >= 1 /\ x = s[n] /\ m_pool' = [m_pool EXCEPT ![t] = Front(s)]
                     /\ allocated' = allocated /\ x.id \in 1..a
                  \/ /\ n = 0 /\ m_pool' = m_pool /\ x.id = a + 1
                     /\ allocated' = [allocated EXCEPT ![t] = a + 1]
  <2>1. CASE s # <<>>
    <3>1. n >= 1 /\ Last(s) = s[n]
      BY <2>1, <1>n, <1>0 DEF Last
    <3>2. s[n] \in Codecs /\ s[n].type = t /\ s[n].id \in 1..a /\ \A g \in Holders : codec[g] # s[n]
      BY <3>1, <1>0, <1>e
    <3> QED BY <3>1, <3>2, <2>1, <1>s DEF acquireFromType
  <2>2. CASE s = <<>>
    <3> DEFINE x == [type |-> t, id |-> a + 1]
    <3>1. x \in Codecs /\ x.type = t /\ x.id = a + 1
      BY DEF Codecs
    <3>2. ASSUME NEW g \in Holders, codec[g] = x PROVE FALSE
      <4>1. codec[g] # NoCodec /\ codec[g].type = t /\ codec[g].id = a + 1
        BY <3>1, <3>2, CodecFields
      <4>2. codec[g].id \in 1..a
        BY <4>1, <1>i, <1>a
      <4> QED BY <4>1, <4>2
    <3>3. n = 0
      BY <2>2, <1>n
    <3> QED BY <3>1, <3>2, <3>3, <2>2, <1>s, <1>a DEF acquireFromType
  <2> QED BY <2>1, <2>2
<1>1. /\ codec'[h] = x /\ \A g \in Holders \ {h} : codec'[g] = codec[g]
      /\ \A u \in Types \ {t} : m_pool'[u] = m_pool[u] /\ allocated'[u] = allocated[u]
      /\ allocated'[t] \in Nat /\ allocated'[t] >= a /\ x.id \in 1..allocated'[t]
  BY <1>0, <1>x, <1>a
<1>2. PICK p : p = m_pool'[t]
  OBVIOUS
<1>3. PICK m \in Nat : /\ m <= n /\ Len(p) = m /\ DOMAIN p = 1..m
                       /\ \A k \in 1..m : p[k] = s[k] /\ p[k] # x
                       /\ \/ m = n - 1 /\ n >= 1 /\ allocated'[t] = a
                          \/ m = n /\ n = 0 /\ allocated'[t] = a + 1
  <2>1. CASE n = 0
    BY <2>1, <1>x, <1>0, <1>2, <1>s, <1>n, <1>a
  <2>2. CASE n >= 1
    <3>1. p = Front(s) /\ x = s[n] /\ allocated'[t] = a
      BY <2>2, <1>x, <1>0, <1>2, <1>a
    <3>2. p \in Seq(Codecs) /\ Len(p) = n - 1 /\ \A k \in 1..(n - 1) : p[k] = s[k]
      <4>1. s # <<>>
        BY <2>2, <1>n
      <4> QED BY <3>1, <4>1, <1>0, <1>n, FrontElements, Zenon
    <3>3. \A k \in 1..(n - 1) : s[k] # s[n]
      <4>1. \A k \in 1..(n - 1) : k \in 1..n /\ n \in 1..n /\ k # n
        BY <2>2
      <4> QED BY <4>1, <1>e
    <3> QED BY <2>2, <3>1, <3>2, <3>3
  <2> QED BY <2>1, <2>2
<1>4. /\ HeldBy(t)' = HeldBy(t) \cup {h} /\ h \notin HeldBy(t)
      /\ \A u \in Types \ {t} : HeldBy(u)' = HeldBy(u)
  BY <1>0, <1>1, <1>x, CodecFields DEF HeldBy
<1>5. IsFiniteSet(HeldBy(t))
  BY HoldersFinite, FS_Subset DEF HeldBy
<1>6. Cardinality(HeldBy(t)) \in Nat /\ Cardinality(HeldBy(t)') = Cardinality(HeldBy(t)) + 1
  BY <1>4, <1>5, FS_AddElement, FS_CardinalityType
<1>7. Cardinality(HeldBy(t)') <= Cardinality(Workers) /\ Cardinality(Workers) \in Nat
  <2>1. HeldBy(t)' \in SUBSET Holders
    BY <1>4 DEF HeldBy
  <2> QED BY <2>1, <1>4, OnePerWorker, FS_CardinalityType, JobsAssumption
<1>8. allocated'[t] = Len(m_pool'[t]) + Cardinality(HeldBy(t)')
  BY <1>2, <1>3, <1>6, <1>i, <1>s, <1>n, <1>a
<1>9. NoCodecLost'
  <2>1. ASSUME NEW u \in Types, u # t
        PROVE  allocated'[u] = Len(m_pool'[u]) + Cardinality(HeldBy(u)')
    <3>1. HeldBy(u)' = HeldBy(u) /\ m_pool'[u] = m_pool[u] /\ allocated'[u] = allocated[u]
      BY <2>1, <1>1, <1>4
    <3>2. allocated[u] = Len(m_pool[u]) + Cardinality(HeldBy(u))
      BY <1>i
    <3> QED BY <3>1, <3>2
  <2>2. \A u \in Types : allocated'[u] = Len(m_pool'[u]) + Cardinality(HeldBy(u)')
    BY <2>1, <1>8
  <2> QED BY <2>2 DEF NoCodecLost
<1>10. allocated'[t] <= Cardinality(Workers)
  <2>1. m = 0 \/ allocated'[t] = a
    BY <1>3
  <2>2. CASE m = 0
    BY <2>2, <1>8, <1>7, <1>6, <1>2, <1>3
  <2>3. CASE allocated'[t] = a
    BY <2>3, <1>i, <1>a
  <2> QED BY <2>1, <2>2, <2>3
<1>11. \A u \in Types : allocated'[u] <= Cardinality(Workers)
  BY <1>1, <1>10, <1>i
<1>12. \A g \in Holders : codec'[g] # NoCodec => codec'[g].id \in 1..allocated'[codec'[g].type]
  <2>1. ASSUME NEW g \in Holders \ {h}, codec[g] # NoCodec
        PROVE  codec[g].id \in 1..allocated'[codec[g].type]
    <3>1. codec[g].type \in Types /\ codec[g].id \in 1..allocated[codec[g].type]
      BY <2>1, <1>0, <1>i, CodecFields
    <3> QED BY <3>1, <1>1, <1>a, <1>0
  <2> QED BY <2>1, <1>1, <1>x
<1>13. ASSUME NEW u \in Types, NEW k \in DOMAIN m_pool'[u]
       PROVE  /\ m_pool'[u][k].type = u /\ m_pool'[u][k].id \in 1..allocated'[u]
              /\ \A j \in DOMAIN m_pool'[u] : m_pool'[u][j] = m_pool'[u][k] => j = k
              /\ \A g \in Holders : codec'[g] # m_pool'[u][k]
  <2>1. CASE u = t
    <3>1. k \in 1..m /\ k \in 1..n /\ p[k] = s[k] /\ p[k] # x
      BY <2>1, <1>13, <1>2, <1>3
    <3>2. s[k].type = t /\ s[k].id \in 1..a
      BY <3>1, <1>e
    <3>3. \A j \in 1..m : p[j] = p[k] => j = k
      <4>1. \A j \in 1..m : j \in 1..n /\ p[j] = s[j]
        BY <1>3
      <4> QED BY <4>1, <3>1, <1>e
    <3>4. \A g \in Holders : codec'[g] # p[k]
      BY <3>1, <1>e, <1>1
    <3> QED BY <2>1, <3>1, <3>2, <3>3, <3>4, <1>2, <1>3, <1>1
  <2>2. CASE u # t
    <3>1. m_pool'[u] = m_pool[u] /\ allocated'[u] = allocated[u]
      BY <2>2, <1>1
    <3>2. x # m_pool[u][k]
      BY <2>2, <3>1, <1>13, <1>i, <1>x
    <3> QED BY <3>1, <3>2, <1>13, <1>i, <1>1
  <2> QED BY <2>1, <2>2
<1>14. \A g, k \in Holders : codec'[g] # NoCodec /\ codec'[g] = codec'[k] => g = k
  BY <1>1, <1>i, <1>x
<1>15. CodecInv'
  BY <1>13, <1>14 DEF CodecInv
<1> QED BY <1>9, <1>11, <1>12, <1>15 DEF FactoryInv

LEMMA AppendElements ==
  ASSUME NEW S, NEW s \in Seq(S), NEW x \in S, NEW n \in Nat, n = Len(s)
  PROVE  /\ Len(Append(s, x)) = n + 1 /\ DOMAIN Append(s, x) = 1..(n + 1)
         /\ \A k \in 1..n : Append(s, x)[k] = s[k]
         /\ Append(s, x)[n + 1] = x
OBVIOUS

LEMMA ReclaimKeepsFactory ==
  ASSUME CodecTypes, FactoryInv, NEW h \in Holders, reclaimCodec(h)
  PROVE  FactoryInv'
<1>c. PICK c : c = codec[h]
  OBVIOUS
<1>0. /\ codec \in [Holders -> Codecs \cup {NoCodec}] /\ m_pool \in [Types -> Seq(Codecs)]
      /\ allocated \in [Types -> Nat] /\ allocated' = allocated
      /\ c \in Codecs /\ c.type \in Types /\ c # NoCodec
  BY <1>c, CodecFields DEF CodecTypes, reclaimCodec
<1>t. PICK t \in Types : t = c.type
  BY <1>0
<1>s. PICK s : s = m_pool[t]
  OBVIOUS
<1>n. PICK n \in Nat : n = Len(s)
  BY <1>s, <1>0
<1>i. /\ \A u \in Types : \A k \in DOMAIN m_pool[u] :
           /\ m_pool[u][k].type = u /\ m_pool[u][k].id \in 1..allocated[u]
           /\ \A j \in DOMAIN m_pool[u] : m_pool[u][j] = m_pool[u][k] => j = k
           /\ \A g \in Holders : codec[g] # m_pool[u][k]
      /\ \A g, k \in Holders : codec[g] # NoCodec /\ codec[g] = codec[k] => g = k
      /\ \A u \in Types : allocated[u] = Len(m_pool[u]) + Cardinality(HeldBy(u))
      /\ \A g \in Holders : codec[g] # NoCodec => codec[g].id \in 1..allocated[codec[g].type]
      /\ \A u \in Types : allocated[u] <= Cardinality(Workers)
  BY DEF FactoryInv, CodecInv, NoCodecLost
<1>1. PICK p : /\ p = m_pool'[t] /\ p = Append(s, c) /\ s \in Seq(Codecs)
  BY <1>0, <1>c, <1>t, <1>s DEF reclaimCodec
<1>2. /\ DOMAIN s = 1..n /\ Len(p) = n + 1 /\ DOMAIN p = 1..(n + 1) /\ p[n + 1] = c
      /\ \A k \in 1..n : p[k] = s[k]
  BY <1>1, <1>n, <1>0, AppendElements
<1>3. /\ codec'[h] = NoCodec /\ \A g \in Holders \ {h} : codec'[g] = codec[g]
      /\ \A u \in Types \ {t} : m_pool'[u] = m_pool[u]
  BY <1>0, <1>c, <1>t DEF reclaimCodec
<1>4. \A k \in DOMAIN s :
        /\ s[k].type = t /\ s[k].id \in 1..allocated[t]
        /\ \A j \in DOMAIN s : s[j] = s[k] => j = k
        /\ \A g \in Holders : codec[g] # s[k]
  <2>1. \A k \in DOMAIN m_pool[t] :
          /\ m_pool[t][k].type = t /\ m_pool[t][k].id \in 1..allocated[t]
          /\ \A j \in DOMAIN m_pool[t] : m_pool[t][j] = m_pool[t][k] => j = k
          /\ \A g \in Holders : codec[g] # m_pool[t][k]
    BY <1>i
  <2> QED BY <2>1, <1>s
<1>5. ASSUME NEW u \in Types, NEW k \in DOMAIN m_pool'[u]
      PROVE  /\ m_pool'[u][k].type = u /\ m_pool'[u][k].id \in 1..allocated'[u]
             /\ \A j \in DOMAIN m_pool'[u] : m_pool'[u][j] = m_pool'[u][k] => j = k
             /\ \A g \in Holders : codec'[g] # m_pool'[u][k]
  <2>1. CASE u = t
    <3>1. k \in 1..(n + 1) /\ \A j \in 1..(n + 1) : j \in 1..n \/ j = n + 1
      BY <2>1, <1>5, <1>1, <1>2
    <3>2. \A j \in 1..n : p[j] # c /\ p[j] # NoCodec /\ p[j].type = t /\ p[j].id \in 1..allocated[t]
      <4>1. \A j \in 1..n : s[j] \in Codecs
        BY <1>1, <1>2
      <4> QED BY <4>1, <1>2, <1>4, <1>c, CodecFields
    <3>3. c.type = t /\ c.id \in 1..allocated[t]
      BY <1>0, <1>c, <1>t, <1>i
    <3>4. p[k].type = t /\ p[k].id \in 1..allocated[t]
      BY <3>1, <3>2, <3>3, <1>2
    <3>5. \A j \in 1..(n + 1) : p[j] = p[k] => j = k
      BY <3>1, <3>2, <1>2, <1>4
    <3>6. \A g \in Holders : codec'[g] # p[k]
      <4>1. CASE k = n + 1
        <5>1. \A g \in Holders \ {h} : codec[g] # c
          BY <1>i, <1>c, <1>0
        <5> QED BY <4>1, <5>1, <1>2, <1>3, <1>0
      <4>2. CASE k \in 1..n
        BY <4>2, <3>2, <1>2, <1>3, <1>4
      <4> QED BY <3>1, <4>1, <4>2
    <3> QED BY <2>1, <3>4, <3>5, <3>6, <1>1, <1>2, <1>0
  <2>2. CASE u # t
    <3>1. m_pool'[u] = m_pool[u]
      BY <2>2, <1>3
    <3>2. m_pool[u][k] # NoCodec
      <4>1. m_pool[u] \in Seq(Codecs) /\ k \in DOMAIN m_pool[u]
        BY <1>0, <1>5, <3>1
      <4>2. m_pool[u][k] \in Codecs
        BY <4>1
      <4> QED BY <4>2, CodecFields
    <3> QED BY <3>1, <3>2, <1>5, <1>i, <1>3, <1>0
  <2> QED BY <2>1, <2>2
<1>6. \A g, k \in Holders : codec'[g] # NoCodec /\ codec'[g] = codec'[k] => g = k
  BY <1>i, <1>3
<1>7. CodecInv'
  BY <1>5, <1>6 DEF CodecInv
<1>8. /\ h \in HeldBy(t) /\ HeldBy(t)' = HeldBy(t) \ {h}
      /\ \A u \in Types \ {t} : HeldBy(u)' = HeldBy(u)
  BY <1>0, <1>3, <1>c, <1>t DEF HeldBy
<1>9. /\ Cardinality(HeldBy(t)) \in Nat /\ Cardinality(HeldBy(t)') = Cardinality(HeldBy(t)) - 1
  <2>1. IsFiniteSet(HeldBy(t))
    BY HoldersFinite, FS_Subset DEF HeldBy
  <2> QED BY <2>1, <1>8, FS_RemoveElement, FS_CardinalityType
<1>10. NoCodecLost'
  <2>1. ASSUME NEW u \in Types, u # t
        PROVE  allocated'[u] = Len(m_pool'[u]) + Cardinality(HeldBy(u)')
    <3>1. HeldBy(u)' = HeldBy(u) /\ m_pool'[u] = m_pool[u]
      BY <2>1, <1>3, <1>8
    <3>2. allocated[u] = Len(m_pool[u]) + Cardinality(HeldBy(u))
      BY <1>i
    <3> QED BY <3>1, <3>2, <1>0
  <2>2. allocated'[t] = Len(m_pool'[t]) + Cardinality(HeldBy(t)')
    <3>1. allocated[t] = n + Cardinality(HeldBy(t))
      BY <1>i, <1>s, <1>n
    <3>2. allocated'[t] = allocated[t] /\ Len(m_pool'[t]) = n + 1
      BY <1>0, <1>1, <1>2
    <3> QED BY <3>1, <3>2, <1>9
  <2>3. \A u \in Types : allocated'[u] = Len(m_pool'[u]) + Cardinality(HeldBy(u)')
    BY <2>1, <2>2
  <2> QED BY <2>3 DEF NoCodecLost
<1>11. /\ \A g \in Holders : codec'[g] # NoCodec => codec'[g].id \in 1..allocated'[codec'[g].type]
       /\ \A u \in Types : allocated'[u] <= Cardinality(Workers)
  BY <1>i, <1>3, <1>0
<1> QED BY <1>7, <1>10, <1>11 DEF FactoryInv

\* Steps that move no codec.
LEMMA SameCodecs ==
  ASSUME UNCHANGED codecVars, FactoryInv
  PROVE  FactoryInv'
<1>2. \A t : HeldBy(t)' = HeldBy(t)
  BY DEF codecVars, HeldBy
<1>3. CodecInv'
  BY DEF codecVars, FactoryInv, CodecInv
<1>4. NoCodecLost'
  BY <1>2 DEF codecVars, FactoryInv, NoCodecLost
<1> QED BY <1>3, <1>4 DEF codecVars, FactoryInv

\* What is known of the codecs of worker w.
HolderOK(w) ==
  /\ jpc[w] \notin {"work", "update"} => codec[<<w, "codec">>] = NoCodec
  /\ codec[<<w, "pngCodec">>] # NoCodec =>
       /\ jpc[w] = "update"
       /\ codec[<<w, "codec">>].type = "jpg" /\ codec[<<w, "pngCodec">>].type = "png"

LEMMA OneOfEachType ==
  ASSUME HoldersInv, NEW t \in Types, NEW g \in HeldBy(t), NEW k \in HeldBy(t), g[1] = k[1]
  PROVE  g = k
<1>1. PICK v \in Workers, a \in {"codec", "pngCodec"} : g = <<v, a>>
  BY JobsAssumption DEF HeldBy
<1>2. PICK b \in {"codec", "pngCodec"} : k = <<v, b>>
  BY <1>1, JobsAssumption DEF HeldBy
<1>3. codec[<<v, a>>] # NoCodec /\ codec[<<v, b>>] # NoCodec
      /\ codec[<<v, a>>].type = codec[<<v, b>>].type
  BY <1>1, <1>2 DEF HeldBy
<1>4. a = b
  BY <1>3 DEF HoldersInv
<1> QED BY <1>1, <1>2, <1>4

LEMMA WorkerKeepsLending ==
  ASSUME CallsInv, CallsInv', FactoryInv, HoldersInv, NEW w \in Workers,
         \/ \E r \in Requests : Begin(w, r)
         \/ Get(w) \/ GetFailed(w) \/ AcquireCodec(w) \/ WorkFails(w) \/ WorkDone(w)
         \/ Update(w) \/ ReclaimPng(w) \/ Finish(w)
  PROVE  FactoryInv' /\ HoldersInv'
<1> DEFINE first == <<w, "codec">>
           second == <<w, "pngCodec">>
<1>0. /\ CodecTypes /\ RequestsOK /\ jpc \in [Workers -> {"idle", "get", "work", "update"}]
      /\ first \in Holders /\ second \in Holders /\ first # second
      /\ HolderOK(w) /\ \A v \in Workers : HolderOK(v)
      /\ WorkerOK(w) /\ WorkerOK(w)'
  BY HoldersOfWorkers DEF CallsInv, RequestsOK, WorkersOK, HoldersInv, HolderOK
<1>j. \A v \in Workers \ {w} : jpc'[v] = jpc[v]
  BY OthersStay
<1>d. ASSUME HolderOK(w)', \A g \in Holders \ {first, second} : codec'[g] = codec[g]
      PROVE  HoldersInv'
  <2>1. ASSUME NEW v \in Workers \ {w} PROVE HolderOK(v)'
    <3>1. <<v, "codec">> \in Holders \ {first, second} /\ <<v, "pngCodec">> \in Holders \ {first, second}
      BY HoldersOfWorkers
    <3>2. jpc'[v] = jpc[v] /\ codec'[<<v, "codec">>] = codec[<<v, "codec">>]
          /\ codec'[<<v, "pngCodec">>] = codec[<<v, "pngCodec">>]
      BY <3>1, <1>d, <1>j
    <3> QED BY <3>2, <1>0 DEF HolderOK
  <2> QED BY <2>1, <1>d DEF HoldersInv, HolderOK
<1>a. ASSUME NEW h \in {first, second}, NEW t \in Types, acquireFromType(h, t),
             \/ codec[first] = NoCodec /\ codec[second] = NoCodec
             \/ h = second /\ t # codec[first].type
      PROVE  FactoryInv' /\ \A g \in Holders \ {h} : codec'[g] = codec[g]
  <2>1. ASSUME NEW g \in HeldBy(t), g[1] = w PROVE FALSE
    <3>1. g \in Holders /\ codec[g] # NoCodec /\ codec[g].type = t
      BY <2>1 DEF HeldBy
    <3>2. g \in {first, second}
      BY <3>1, <2>1, JobsAssumption
    <3>3. codec[h] = NoCodec
      BY <1>a DEF acquireFromType
    <3> QED BY <3>1, <3>2, <3>3, <1>a
  <2>2. h[1] = w
    OBVIOUS
  <2>3. \A g, k \in HeldBy(t) \cup {h} : g[1] = k[1] => g = k
    BY <2>1, <2>2, OneOfEachType
  <2> QED BY <2>3, <1>0, <1>a, AcquireKeepsFactory, AcquireTypes
<1>1. CASE (\E r \in Requests : Begin(w, r)) \/ Get(w) \/ Update(w) \/ GetFailed(w)
  <2>1. UNCHANGED codecVars
    BY <1>1 DEF Begin, Get, Update, GetFailed
  <2>2. jpc'[w] = jpc[w] \/ jpc[w] \notin {"work", "update"}
    BY <1>1, <1>0 DEF Begin, Get, Update, GetFailed, AnswerFail, Step, jobVars
  <2>3. codec' = codec
    BY <2>1 DEF codecVars
  <2>4. HolderOK(w)'
    BY <2>2, <2>3, <1>0, HoldersOfWorkers DEF HolderOK, WorkerOK
  <2> QED BY <2>1, <2>3, <2>4, <1>d, SameCodecs
<1>2. CASE AcquireCodec(w)
  <2>1. PICK t \in Types : acquireFromType(first, t)
    BY <1>2 DEF AcquireCodec
  <2>2. jpc[w] = "get" /\ jpc'[w] = "work"
    BY <1>2, <1>0 DEF AcquireCodec, Step
  <2>3. codec[first] = NoCodec /\ codec[second] = NoCodec
    BY <2>2, <1>0 DEF HolderOK
  <2>4. FactoryInv' /\ \A g \in Holders \ {first} : codec'[g] = codec[g]
    BY <2>1, <2>3, <1>a
  <2>5. HolderOK(w)'
    BY <2>2, <2>3, <2>4, <1>0 DEF HolderOK
  <2> QED BY <2>4, <2>5, <1>d
<1>3. CASE WorkFails(w) \/ Finish(w)
  <2>1. reclaimCodec(first) /\ jpc'[w] = "idle" /\ codec[second] = NoCodec
    BY <1>3, <1>0 DEF WorkFails, Finish, AnswerFail, Step, HolderOK
  <2>2. FactoryInv' /\ codec'[first] = NoCodec /\ \A g \in Holders \ {first} : codec'[g] = codec[g]
    BY <2>1, <1>0, ReclaimKeepsFactory, ReclaimTypes DEF reclaimCodec, CodecTypes
  <2>3. HolderOK(w)'
    BY <2>1, <2>2, <1>0 DEF HolderOK
  <2> QED BY <2>2, <2>3, <1>d
<1>4. CASE ReclaimPng(w)
  <2>1. reclaimCodec(second) /\ jpc'[w] = jpc[w]
    BY <1>4 DEF ReclaimPng, jobVars
  <2>2. FactoryInv' /\ codec'[second] = NoCodec /\ \A g \in Holders \ {second} : codec'[g] = codec[g]
    BY <2>1, <1>0, ReclaimKeepsFactory, ReclaimTypes DEF reclaimCodec, CodecTypes
  <2>3. HolderOK(w)'
    BY <2>1, <2>2, <1>0 DEF HolderOK
  <2> QED BY <2>2, <2>3, <1>d
<1>5. CASE WorkDone(w)
  <2>1. jpc[w] = "work" /\ jpc'[w] = "update"
    BY <1>5, <1>0 DEF WorkDone, Step
  <2>2. codec[second] = NoCodec
    BY <2>1, <1>0 DEF HolderOK
  <2>3. CASE UNCHANGED codecVars
    <3>1. codec' = codec
      BY <2>3 DEF codecVars
    <3>2. HolderOK(w)'
      BY <2>1, <2>2, <3>1 DEF HolderOK
    <3> QED BY <2>3, <3>1, <3>2, <1>d, SameCodecs
  <2>4. CASE codec[first].type = "jpg" /\ acquireFromType(second, "png")
    <3>1. "png" \in Types /\ "png" # codec[first].type
      BY <2>4, JobsAssumption
    <3>2. FactoryInv' /\ \A g \in Holders \ {second} : codec'[g] = codec[g]
      BY <2>4, <3>1, <1>a
    <3>3. codec'[second].type = "png"
      <4>1. CASE m_pool["png"] = <<>>
        BY <2>4, <4>1, <1>0 DEF acquireFromType, CodecTypes
      <4>2. CASE m_pool["png"] # <<>>
        <5>1. codec'[second] = Last(m_pool["png"])
          BY <2>4, <4>2, <1>0 DEF acquireFromType, CodecTypes
        <5>2. m_pool["png"] \in Seq(Codecs)
          BY <3>1, <1>0 DEF CodecTypes
        <5>3. PICK n \in Nat : n = Len(m_pool["png"]) /\ n >= 1 /\ n \in DOMAIN m_pool["png"]
          BY <5>2, <4>2
        <5> QED BY <5>1, <5>3, <3>1 DEF Last, FactoryInv, CodecInv
      <4> QED BY <4>1, <4>2
    <3>4. HolderOK(w)'
      BY <2>1, <2>4, <3>2, <3>3, <1>0 DEF HolderOK
    <3> QED BY <3>2, <3>4, <1>d
  <2> QED BY <1>5, <2>3, <2>4 DEF WorkDone
<1> QED BY <1>1, <1>2, <1>3, <1>4, <1>5

LendingInv == FactoryInv /\ HoldersInv /\ exits <= MaxExits + 1

LEMMA StartLending == CodecInit => FactoryInv /\ HoldersInv
<1> SUFFICES ASSUME CodecInit PROVE FactoryInv /\ HoldersInv
  OBVIOUS
<1>0. /\ m_pool = [t \in Types |-> <<>>] /\ allocated = [t \in Types |-> 0]
      /\ codec = [h \in Holders |-> NoCodec]
  BY DEF CodecInit
<1>1. \A t \in Types : HeldBy(t) = {}
  BY <1>0 DEF HeldBy
<1>2. NoCodecLost
  <2>1. Cardinality({}) = 0
    BY FS_EmptySet
  <2>2. \A t \in Types : allocated[t] = 0 /\ m_pool[t] = <<>> /\ Len(<<>>) = 0
    BY <1>0
  <2>3. \A t \in Types : allocated[t] = Len(m_pool[t]) + Cardinality(HeldBy(t))
    BY <1>1, <2>1, <2>2
  <2> QED BY <2>3 DEF NoCodecLost
<1>3. CodecInv
  BY <1>0 DEF CodecInv
<1>4. \A t \in Types : allocated[t] <= Cardinality(Workers)
  <2>1. Cardinality(Workers) \in Nat
    BY FS_CardinalityType, JobsAssumption
  <2> QED BY <2>1, <1>0
<1>5. HoldersInv
  BY <1>0, HoldersOfWorkers DEF HoldersInv
<1>6. \A h \in Holders : codec[h] = NoCodec
  BY <1>0
<1> QED BY <1>2, <1>3, <1>4, <1>5, <1>6 DEF FactoryInv

LEMMA InitLending == Init => LendingInv
BY StartLending, JobsAssumption DEF Init, LendingInv

LEMMA EndKeepsLending == ProcessEnds => FactoryInv' /\ HoldersInv'
<1>1. ProcessEnds => CodecInit'
  BY DEF ProcessEnds, CodecsEnd, CodecInit
<1> QED BY <1>1, StartLending, PTL

LEMMA NextKeepsLending ==
  ASSUME CallsInv, CallsInv', LendingInv, [Next]_vars
  PROVE  LendingInv'
<1>0. FactoryInv /\ HoldersInv /\ exits <= MaxExits + 1 /\ exits \in Nat /\ MaxExits \in Nat
  BY JobsAssumption DEF LendingInv, CallsInv, RequestsOK
<1>1. CASE ProcessEnds
  <2>1. exits' <= MaxExits + 1
    BY <1>1, <1>0 DEF ProcessEnds, Up
  <2> QED BY <1>1, <2>1, EndKeepsLending DEF LendingInv
<1>2. ASSUME NEW w \in Workers, WorkerStep(w) \/ \E r \in Requests : Begin(w, r), ~ ProcessEnds
      PROVE  LendingInv'
  <2>1. \/ \E r \in Requests : Begin(w, r)
        \/ Get(w) \/ GetFailed(w) \/ AcquireCodec(w) \/ WorkFails(w) \/ WorkDone(w)
        \/ Update(w) \/ ReclaimPng(w) \/ Finish(w)
    BY <1>2 DEF WorkerStep, Crash
  <2>2. exits' = exits
    BY <2>1 DEF Begin, Get, GetFailed, AcquireCodec, WorkFails, WorkDone, Update, ReclaimPng,
       Finish, AnswerFail, jobVars
  <2>3. FactoryInv' /\ HoldersInv'
    BY <2>1, <1>0, WorkerKeepsLending
  <2> QED BY <2>2, <2>3, <1>0 DEF LendingInv
<1>3. CASE UNCHANGED vars
  <2>1. UNCHANGED codecVars /\ codec' = codec /\ jpc' = jpc /\ exits' = exits
    BY <1>3 DEF vars, codecVars, jobVars
  <2>2. HoldersInv'
    BY <2>1, <1>0 DEF HoldersInv
  <2> QED BY <2>1, <2>2, <1>0, SameCodecs DEF LendingInv
<1> QED BY <1>1, <1>2, <1>3 DEF Next

\* The requests, the repository and the codec factory agree in every state: no
\* codec or client is lost or used twice, a worker has its codecs exactly while
\* it works, and no more codecs of a type are made than there are workers.
THEOREM JobsAreConsistent == Spec => []JobsInv
<1>1. CallsInv /\ LendingInv => JobsInv
  <2> SUFFICES ASSUME CallsInv, LendingInv PROVE JobsInv
    OBVIOUS
  <2>1. /\ MongoInv /\ CodecInv /\ NoCodecLost
        /\ \A t \in Types : allocated[t] <= Cardinality(Workers)
    BY DEF CallsInv, MongoIInv, LendingInv, FactoryInv
  <2>2. /\ ready \subseteq Requests /\ acked \subseteq Requests \ ready
        /\ InHand \cap (ready \cup acked) = {} /\ outdated \subseteq Images
    BY DEF CallsInv, RequestsOK, InHand
  <2>3. exits \in 0..(MaxExits + 1)
    BY JobsAssumption DEF CallsInv, RequestsOK, LendingInv
  <2>4. ASSUME NEW w \in Workers
        PROVE  /\ jpc[w] \in {"idle", "get", "work", "update"}
               /\ jpc[w] # "idle" <=> job[w] # None
               /\ \A v \in Workers : job[w] # None /\ job[w] = job[v] => w = v
               /\ mpc[w] # "out" => img[w] = imageId[job[w]]
               /\ jpc[w] \notin Calls => mpc[w] = "out"
               /\ jpc[w] \in {"work", "update"} <=> codec[<<w, "codec">>] # NoCodec
               /\ jpc[w] # "update" => codec[<<w, "pngCodec">>] = NoCodec
    <3>1. WorkerOK(w) /\ RequestsOK /\ HoldersInv
      BY DEF CallsInv, WorkersOK, LendingInv
    <3>2. jpc[w] \in {"work", "update"} <=> codec[<<w, "codec">>] # NoCodec
      BY <3>1, CodecFields DEF WorkerOK, HoldersInv
    <3>3. jpc[w] # "idle" <=> job[w] # None
      BY <3>1, NoRequest DEF WorkerOK
    <3> QED BY <3>1, <3>2, <3>3 DEF WorkerOK, RequestsOK, HoldersInv, Calls
  <2> QED BY <2>1, <2>2, <2>3, <2>4 DEF JobsInv
<1>2. CallsInv /\ [Next]_vars => CallsInv'
  BY NextKeepsCalls
<1>3. CallsInv /\ CallsInv' /\ LendingInv /\ [Next]_vars => LendingInv'
  BY NextKeepsLending
<1> QED BY InitCalls, InitLending, <1>1, <1>2, <1>3, PTL DEF Spec

-----------------------------------------------------------------------------
(* Refinement: clients and codecs are lent to one holder at a time         *)

LentTo(w) == IF Owns(w) THEN client[w] ELSE None
Lent == [w \in Workers |-> LentTo(w)]

\* A call gets a client from the pool and keeps it until it gives it back.
LEMMA CallStepLends ==
  ASSUME MongoTypeOK, NEW w \in Workers, CallStep(w)
  PROVE  /\ \A v \in Workers \ {w} : mpc'[v] = mpc[v] /\ client'[v] = client[v]
         /\ Owns(w)' => IF Owns(w) THEN client'[w] = client[w] ELSE client'[w] \in free
<1> DEFINE Goal == /\ \A v \in Workers \ {w} : mpc'[v] = mpc[v] /\ client'[v] = client[v]
                   /\ Owns(w)' => IF Owns(w) THEN client'[w] = client[w] ELSE client'[w] \in free
<1> SUFFICES Goal
  OBVIOUS
<1> USE DEF Goto, Continue, GiveUp, poolVars, Owns
<1>0. mpc \in [Workers -> Labels] /\ client \in [Workers -> Clients \cup {None}]
  BY DEF MongoTypeOK
<1>1. ASSUME NEW i \in Images, CallGet(w, i) PROVE Goal
  BY <1>1, <1>0 DEF CallGet
<1>2. ASSUME NEW i \in Images, NEW c \in Versions, CallUpdate(w, i, c) PROVE Goal
  BY <1>2, <1>0 DEF CallUpdate
<1>3. CASE Drop(w)
  BY <1>3, <1>0 DEF Drop
<1>4. CASE GetStep(w)
  <2>1. CASE GetPop(w)
    BY <2>1, <1>0 DEF GetPop, Pop
  <2>2. CASE Open(w) \/ ReadFailsAtFirst(w)
    BY <2>2, <1>0 DEF Open, ReadFailsAtFirst
  <2>3. CASE ReadChunk(w)
    BY <2>3, <1>0 DEF ReadChunk, NextChunk
  <2>4. CASE GetPush(w) \/ Destroy(w)
    BY <2>4, <1>0 DEF GetPush, Destroy, Return
  <2> QED BY <1>4, <2>1, <2>2, <2>3, <2>4 DEF GetStep
<1>5. CASE UpdateStep(w)
  <2>1. CASE UpdatePop(w)
    BY <2>1, <1>0 DEF UpdatePop, Pop
  <2>2. CASE Find(w) \/ RemoveFails(w) \/ RemoveDocument(w) \/ RemoveChunks(w)
    BY <2>2, <1>0 DEF Find, RemoveFails, RemoveDocument, RemoveChunks
  <2>3. CASE OpenUpload(w) \/ ReplaceFails(w) \/ Close(w)
    BY <2>3, <1>0 DEF OpenUpload, ReplaceFails, Close
  <2>4. CASE Write(w)
    BY <2>4, <1>0 DEF Write, NextChunk
  <2>5. CASE UpdatePush(w)
    BY <2>5, <1>0 DEF UpdatePush, Return
  <2> QED BY <1>5, <2>1, <2>2, <2>3, <2>4, <2>5 DEF UpdateStep
<1> QED BY <1>1, <1>2, <1>3, <1>4, <1>5 DEF CallStep

LEMMA ClientsAreLent ==
  ASSUME MongoInv, [MongoNext]_mongoVars
  PROVE  [ClientLending!Next]_Lent
<1>0. MongoTypeOK /\ ClientsInv
  BY DEF MongoInv
<1>1. ASSUME NEW w \in Workers, CallStep(w) PROVE [ClientLending!Next]_Lent
  <2>1. \A v \in Workers \ {w} : LentTo(v)' = LentTo(v)
    BY <1>0, <1>1, CallStepLends DEF LentTo, Owns
  <2>2. Owns(w)' => IF Owns(w) THEN client'[w] = client[w] ELSE client'[w] \in free
    BY <1>0, <1>1, CallStepLends
  <2>3. CASE ~ Owns(w)'
    <3>1. LentTo(w)' = None
      BY <2>3 DEF LentTo
    <3>2. Lent' = [v \in Workers |-> IF v \in {w} THEN None ELSE Lent[v]]
      BY <3>1, <2>1 DEF Lent
    <3> QED BY <3>2 DEF ClientLending!Next, ClientLending!Return, Lent, LentTo
  <2>4. CASE Owns(w)' /\ Owns(w)
    <3>1. LentTo(w)' = LentTo(w)
      BY <2>2, <2>4 DEF LentTo
    <3>2. Lent' = Lent
      BY <3>1, <2>1 DEF Lent
    <3> QED BY <3>2
  <2>5. CASE Owns(w)' /\ ~ Owns(w)
    <3>1. PICK x \in Clients : x \in free /\ x = client'[w]
      BY <2>2, <2>5, <1>0 DEF MongoTypeOK
    <3>2. LentTo(w) = None /\ LentTo(w)' = x
      BY <3>1, <2>5 DEF LentTo
    <3>3. \A v \in Workers : LentTo(v) # x
      BY <3>1, <1>0, NoneIsNothing DEF LentTo, ClientsInv
    <3>4. Lent' = [Lent EXCEPT ![w] = x]
      BY <3>2, <2>1 DEF Lent
    <3> QED BY <3>1, <3>2, <3>3, <3>4 DEF ClientLending!Next, ClientLending!Lend, Lent, LentTo
  <2> QED BY <2>3, <2>4, <2>5
<1>2. CASE MongoEnds
  <2>1. \A v \in Workers : LentTo(v)' = None
    BY <1>2 DEF MongoEnds, ForAll, LentTo, Owns
  <2>2. Lent' = [v \in Workers |-> IF v \in Workers THEN None ELSE Lent[v]]
    BY <2>1 DEF Lent
  <2> QED BY <2>2 DEF ClientLending!Next, ClientLending!Return, Lent, LentTo
<1>3. CASE UNCHANGED mongoVars
  BY <1>3 DEF mongoVars, poolVars, Lent, LentTo, Owns
<1> QED BY <1>1, <1>2, <1>3 DEF MongoNext, CallStep

LEMMA AcquireLends ==
  ASSUME CodecTypes, CodecTypes', FactoryInv', NEW h \in Holders, NEW t \in Types,
         acquireFromType(h, t)
  PROVE  CodecLending!Next
<1>1. PICK x : x = codec'[h]
  OBVIOUS
<1>2. /\ codec[h] = NoCodec /\ x \in Codecs /\ x # NoCodec
      /\ \A g \in Holders \ {h} : codec'[g] = codec[g]
  BY <1>1, AcquireTypes, CodecFields DEF acquireFromType
<1>3. \A g \in Holders : codec[g] # x
  BY <1>1, <1>2 DEF FactoryInv, CodecInv
<1>4. x \in [type : Types, id : 1..Cardinality(Workers)]
  <2>1. x.type \in Types /\ x.id \in Nat /\ x.id \in 1..allocated'[x.type]
    BY <1>1, <1>2, CodecFields DEF FactoryInv
  <2>2. allocated'[x.type] <= Cardinality(Workers) /\ allocated'[x.type] \in Nat
    BY <2>1 DEF FactoryInv, CodecTypes
  <2>3. Cardinality(Workers) \in Nat
    BY FS_CardinalityType, JobsAssumption
  <2>4. x.id \in 1..Cardinality(Workers)
    BY <2>1, <2>2, <2>3
  <2> QED BY <2>1, <2>4, <1>2 DEF Codecs
<1>5. codec' = [codec EXCEPT ![h] = x]
  BY <1>1, <1>2 DEF CodecTypes
<1> QED BY <1>2, <1>3, <1>4, <1>5 DEF CodecLending!Next, CodecLending!Lend

LEMMA ReclaimReturns ==
  ASSUME CodecTypes, NEW h \in Holders, reclaimCodec(h)
  PROVE  CodecLending!Next
<1>1. codec' = [g \in Holders |-> IF g \in {h} THEN NoCodec ELSE codec[g]]
  BY DEF CodecTypes, reclaimCodec
<1> QED BY <1>1 DEF CodecLending!Next, CodecLending!Return

LEMMA CodecsAreLent ==
  ASSUME CallsInv, CallsInv', LendingInv', [Next]_vars
  PROVE  [CodecLending!Next]_codec
<1>0. CodecTypes /\ CodecTypes' /\ FactoryInv'
  BY DEF CallsInv, LendingInv
<1>1. CASE ProcessEnds
  <2>1. codec' = [g \in Holders |-> IF g \in Holders THEN NoCodec ELSE codec[g]]
    BY <1>1 DEF ProcessEnds, CodecsEnd
  <2> QED BY <2>1 DEF CodecLending!Next, CodecLending!Return
<1>2. ASSUME NEW w \in Workers, WorkerStep(w) \/ \E r \in Requests : Begin(w, r), ~ ProcessEnds
      PROVE  [CodecLending!Next]_codec
  <2>1. \/ \E r \in Requests : Begin(w, r)
        \/ Get(w) \/ GetFailed(w) \/ AcquireCodec(w) \/ WorkFails(w) \/ WorkDone(w)
        \/ Update(w) \/ ReclaimPng(w) \/ Finish(w)
    BY <1>2 DEF WorkerStep, Crash
  <2>2. \/ UNCHANGED codecVars
        \/ \E h \in {<<w, "codec">>, <<w, "pngCodec">>} :
             reclaimCodec(h) \/ \E t \in Types : acquireFromType(h, t)
    BY <2>1, JobsAssumption DEF Begin, Get, GetFailed, AcquireCodec, WorkFails, WorkDone, Update,
       ReclaimPng, Finish
  <2> QED BY <2>2, <1>0, HoldersOfWorkers, AcquireLends, ReclaimReturns DEF codecVars
<1>3. CASE UNCHANGED vars
  BY <1>3 DEF vars, codecVars
<1> QED BY <1>1, <1>2, <1>3 DEF Next

\* For every number of threads, clients and codecs: the client pool and the
\* codec factory behave as pools that lend an item to one holder at a time.
THEOREM PoolsLendToOne == Spec => LendsToOne
<1>1. Init => ClientLending!Init /\ CodecLending!Init
  <2> SUFFICES ASSUME Init PROVE ClientLending!Init /\ CodecLending!Init
    OBVIOUS
  <2>1. \A w \in Workers : ~ Owns(w)
    BY DEF Init, Quiet, ForAll, Owns
  <2>2. ClientLending!Init
    BY <2>1 DEF ClientLending!Init
  <2>3. CodecLending!Init
    BY DEF Init, CodecInit, CodecLending!Init
  <2> QED BY <2>2, <2>3
<1>2. CallsInv /\ [Next]_vars => [ClientLending!Next]_Lent
  BY JobStepIsMongoStep, ClientsAreLent DEF CallsInv, MongoIInv
<1>3. CallsInv /\ CallsInv' /\ LendingInv' /\ [Next]_vars => [CodecLending!Next]_codec
  BY CodecsAreLent
<1>4. CallsInv /\ [Next]_vars => CallsInv'
  BY NextKeepsCalls
<1>5. CallsInv /\ CallsInv' /\ LendingInv /\ [Next]_vars => LendingInv'
  BY NextKeepsLending
<1>6. Spec => ClientLending!Init /\ [][ClientLending!Next]_Lent
  BY InitCalls, <1>1, <1>2, <1>4, PTL DEF Spec
<1>7. Spec => CodecLending!Init /\ [][CodecLending!Next]_codec
  BY InitCalls, InitLending, <1>1, <1>3, <1>4, <1>5, PTL DEF Spec
<1> QED BY <1>6, <1>7, PTL DEF LendsToOne, ClientLending!Spec, CodecLending!Spec, Lent, LentTo
=============================================================================
