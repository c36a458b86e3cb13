----------------------------- MODULE MongoClient -----------------------------
(***************************************************************************)
(* MongoClient::getImageById and updateImageById                           *)
(* (internal/media-repository/mongo-client.cpp), called by the threads of  *)
(* the pool, on the GridFS store they share: a document of "fs.files" per  *)
(* image and its chunks in "fs.chunks".                                    *)
(*                                                                         *)
(* libmongoc is external.  Modelled of it: a client pool of bounded size;  *)
(* a read that reports a missing chunk as -1; mongoc_gridfs_file_remove,   *)
(* which deletes the document and then the chunks and does not mind that   *)
(* they are gone; and an upload, whose chunks are refused when the store   *)
(* already has them, and which after a failed write saves no document.     *)
(* Every call of it may fail for the network.                              *)
(***************************************************************************)
EXTENDS Naturals, FiniteSets, Sequences

CONSTANTS
  Workers,   \* the threads that call the repository
  Images,    \* the ids
  Clients,   \* the clients of m_cPool
  Requests,  \* the requests that change images
  Chunks,    \* chunks per image
  None       \* no client, no chunk

\* A version of an image: its format, and the requests it is the result of.
Versions == [format : {"png", "jpg", "other"}, ops : Seq(Requests)]

ASSUME MongoAssumption ==
  /\ Chunks \in Nat \ {0}
  /\ None \notin Clients \cup Images \cup Requests \cup Versions

VARIABLES
  free,     \* the clients in m_cPool
  client,   \* client[w]: the one w has popped, used until w returns
  mpc,      \* where w is in getImageById or updateImageById
  img,      \* the id w has been called with
  chunk,    \* the chunk w reads or writes next
  outBuf,   \* what w's get has read
  filedata, \* what w's update has to write
  ret,      \* what w's last call returns
  spoiled,  \* a write of w's upload stream has failed
  files,    \* fs.files: the version each image's document describes
  chunks,   \* fs.chunks: the version each chunk is part of
  overlap,  \* history: the images that two updates worked on at once
  broken    \* history: the images of which an update failed half way

poolVars == <<free, client>>
callVars == <<img, outBuf, filedata>>
storeVars == <<files, chunks>>
historyVars == <<overlap, broken>>
mongoVars == <<poolVars, mpc, callVars, chunk, ret, spoiled, storeVars, historyVars>>

NoChunks == [n \in 1..Chunks |-> None]

ForAll(value) == [w \in Workers |-> value]

\* No call is under way, in a process that has just started.
Quiet ==
  /\ free = Clients /\ client = ForAll(None)
  /\ mpc = ForAll("out") /\ ret = ForAll("ok")
  /\ img = ForAll(None) /\ chunk = ForAll(1) /\ spoiled = ForAll(FALSE)
  /\ outBuf = ForAll(NoChunks) /\ filedata = ForAll(None)

\* The image is stored: a document, and all chunks of the version it describes.
Whole(i) == files[i] # None /\ \A n \in 1..Chunks : chunks[i][n] = files[i]

MongoInit ==
  /\ Quiet
  /\ files \in [Images -> Versions]
  /\ chunks = [i \in Images |-> [n \in 1..Chunks |-> files[i]]]
  /\ overlap = {} /\ broken = {}

Goto(w, label) == mpc' = [mpc EXCEPT ![w] = label]

\* A step that only gets further, and one that ends the work with an error.
Continue(w, label) == Goto(w, label) /\ UNCHANGED ret
GiveUp(w, label) == Goto(w, label) /\ ret' = [ret EXCEPT ![w] = "error"]

\* The loop over the chunks, which goes on at label when it is through.
NextChunk(w, label) ==
  IF chunk[w] < Chunks
  THEN chunk' = [chunk EXCEPT ![w] = @ + 1] /\ UNCHANGED mpc
  ELSE chunk' = [chunk EXCEPT ![w] = 1] /\ Goto(w, label)

\* Between the removal of the old document and the end of the upload.
InWindow(w) == mpc[w] \in {"removeChunks", "openUpload", "write", "close"}

-----------------------------------------------------------------------------
(* mongoc_client_pool_pop waits for a client, push gives it back.          *)

Pop(w, from, to) ==
  /\ mpc[w] = from
  /\ \E c \in free :
       /\ free' = free \ {c}
       /\ client' = [client EXCEPT ![w] = c]
  /\ Continue(w, to)
  /\ UNCHANGED <<callVars, chunk, spoiled, storeVars, historyVars>>

Push(w) == free' = free \cup {client[w]}

\* The variables of the function end with it.
Return(w) ==
  /\ Continue(w, "out")
  /\ client' = [client EXCEPT ![w] = None]
  /\ img' = [img EXCEPT ![w] = None]
  /\ filedata' = [filedata EXCEPT ![w] = None]
  /\ spoiled' = [spoiled EXCEPT ![w] = FALSE]
  /\ UNCHANGED <<outBuf, chunk, storeVars, historyVars>>

\* The caller is done with what a call has given it.
Drop(w) ==
  /\ mpc[w] = "out"
  /\ outBuf' = [outBuf EXCEPT ![w] = NoChunks]
  /\ ret' = [ret EXCEPT ![w] = "ok"]
  /\ UNCHANGED <<poolVars, mpc, img, filedata, chunk, spoiled, storeVars, historyVars>>

-----------------------------------------------------------------------------
(* getImageById                                                            *)

CallGet(w, i) ==
  /\ mpc[w] = "out"
  /\ Goto(w, "getPop")
  /\ img' = [img EXCEPT ![w] = i]
  /\ UNCHANGED <<poolVars, outBuf, filedata, chunk, ret, spoiled, storeVars, historyVars>>

GetPop(w) == Pop(w, "getPop", "open")

\* No such image, an id of another length, or no answer.
Open(w) ==
  /\ mpc[w] = "open"
  /\ \/ files[img[w]] # None /\ Continue(w, "read")
     \/ GiveUp(w, "getPush")
  /\ UNCHANGED <<poolVars, callVars, chunk, spoiled, storeVars, historyVars>>

ReadChunk(w) ==
  LET read == chunks[img[w]][chunk[w]] IN
  /\ mpc[w] = "read" /\ read # None
  /\ outBuf' = [outBuf EXCEPT ![w][chunk[w]] = read]
  /\ NextChunk(w, "getPush")
  /\ UNCHANGED <<poolVars, img, filedata, ret, spoiled, storeVars, historyVars>>

\* readv returns -1 for a missing chunk or the network, and -1 is the size of
\* what is to be copied: malloc refuses it.
ReadFailsAtFirst(w) ==
  /\ mpc[w] = "read" /\ chunk[w] = 1
  /\ GiveUp(w, "getPush")
  /\ UNCHANGED <<poolVars, callVars, chunk, spoiled, storeVars, historyVars>>

\* realloc does not refuse it, and memcpy ends the process: see ProcessEnds.
ReadCrashes(w) == mpc[w] = "read" /\ chunk[w] > 1

\* The client is back in the pool before database, bucket and stream, which
\* refer to it, are destroyed.
GetPush(w) ==
  /\ mpc[w] = "getPush"
  /\ Push(w)
  /\ Continue(w, "destroy")
  /\ UNCHANGED <<client, callVars, chunk, spoiled, storeVars, historyVars>>

Destroy(w) ==
  /\ mpc[w] = "destroy"
  /\ Return(w)
  /\ UNCHANGED free

-----------------------------------------------------------------------------
(* updateImageById                                                         *)

CallUpdate(w, i, c) ==
  /\ mpc[w] = "out"
  /\ Goto(w, "updatePop")
  /\ img' = [img EXCEPT ![w] = i]
  /\ outBuf' = [outBuf EXCEPT ![w] = NoChunks]
  /\ filedata' = [filedata EXCEPT ![w] = c]
  /\ UNCHANGED <<poolVars, chunk, ret, spoiled, storeVars, historyVars>>

UpdatePop(w) == Pop(w, "updatePop", "find")

Find(w) ==
  /\ mpc[w] = "find"
  /\ \/ files[img[w]] # None /\ Continue(w, "remove")
     \/ GiveUp(w, "updatePush")
  /\ UNCHANGED <<poolVars, callVars, chunk, spoiled, storeVars, historyVars>>

\* The document goes; the file may have been found long before.
RemoveDocument(w) ==
  /\ mpc[w] = "remove"
  /\ files' = [files EXCEPT ![img[w]] = None]
  /\ overlap' = overlap \cup {i \in {img[w]} : \E v \in Workers : InWindow(v) /\ img[v] = i}
  /\ Continue(w, "removeChunks")
  /\ UNCHANGED <<poolVars, callVars, chunk, spoiled, chunks, broken>>

RemoveFails(w) ==
  /\ mpc[w] = "remove"
  /\ GiveUp(w, "updatePush")
  /\ UNCHANGED <<poolVars, callVars, chunk, spoiled, storeVars, historyVars>>

RemoveChunks(w) ==
  /\ mpc[w] = "removeChunks"
  /\ chunks' = [chunks EXCEPT ![img[w]] = NoChunks]
  /\ Continue(w, "openUpload")
  /\ UNCHANGED <<poolVars, callVars, chunk, spoiled, files, historyVars>>

OpenUpload(w) ==
  /\ mpc[w] = "openUpload"
  /\ Continue(w, "write")
  /\ UNCHANGED <<poolVars, callVars, chunk, spoiled, storeVars, historyVars>>

\* The chunks cannot be removed or the stream not opened: the document is gone.
ReplaceFails(w) ==
  /\ mpc[w] \in {"removeChunks", "openUpload"}
  /\ broken' = broken \cup {img[w]}
  /\ GiveUp(w, "updatePush")
  /\ UNCHANGED <<poolVars, callVars, chunk, spoiled, storeVars, overlap>>

\* mongoc_stream_write: its result is added to a total that nobody reads, and
\* after a failure the stream takes no more.
Write(w) ==
  LET n == chunk[w] IN
  /\ mpc[w] = "write"
  /\ NextChunk(w, "close")
  /\ \/ /\ ~ spoiled[w] /\ chunks[img[w]][n] = None
        /\ chunks' = [chunks EXCEPT ![img[w]][n] = filedata[w]]
        /\ UNCHANGED <<spoiled, broken>>
     \/ /\ spoiled' = [spoiled EXCEPT ![w] = TRUE]
        /\ broken' = broken \cup {img[w]}
        /\ UNCHANGED chunks
  /\ UNCHANGED <<poolVars, callVars, ret, files, overlap>>

\* Mutant: the stream is leaked instead of destroyed.
Close_Leaks(w) ==
  /\ mpc[w] = "close"
  /\ UNCHANGED <<files, broken>>
  /\ Continue(w, "updatePush")
  /\ UNCHANGED <<poolVars, callVars, chunk, spoiled, chunks, overlap>>

\* mongoc_stream_destroy saves the document, unless a write has failed, another
\* update has saved one or the network fails: ret stays kOk.
Close(w) ==
  /\ mpc[w] = "close"
  /\ \/ /\ ~ spoiled[w] /\ files[img[w]] = None
        /\ files' = [files EXCEPT ![img[w]] = filedata[w]]
        /\ UNCHANGED broken
     \/ broken' = broken \cup {img[w]} /\ UNCHANGED files
  /\ Continue(w, "updatePush")
  /\ UNCHANGED <<poolVars, callVars, chunk, spoiled, chunks, overlap>>

UpdatePush(w) ==
  /\ mpc[w] = "updatePush"
  /\ Push(w)
  /\ Return(w)

-----------------------------------------------------------------------------
\* The process ends, by a signal or a crash, and is started again.
MongoEnds ==
  /\ free' = Clients /\ client' = ForAll(None)
  /\ mpc' = ForAll("out") /\ ret' = ForAll("ok")
  /\ img' = ForAll(None) /\ chunk' = ForAll(1) /\ spoiled' = ForAll(FALSE)
  /\ outBuf' = ForAll(NoChunks) /\ filedata' = ForAll(None)
  /\ broken' = broken \cup {img[w] : w \in {v \in Workers : InWindow(v)}}
  /\ UNCHANGED <<storeVars, overlap>>

GetStep(w) ==
  \/ GetPop(w) \/ Open(w) \/ ReadChunk(w) \/ ReadFailsAtFirst(w)
  \/ GetPush(w) \/ Destroy(w)

UpdateStep(w) ==
  \/ UpdatePop(w) \/ Find(w) \/ RemoveDocument(w) \/ RemoveFails(w)
  \/ RemoveChunks(w) \/ OpenUpload(w) \/ ReplaceFails(w) \/ Write(w)
  \/ Close(w) \/ UpdatePush(w)

MongoNext ==
  \/ \E w \in Workers :
       \/ \E i \in Images : CallGet(w, i) \/ \E c \in Versions : CallUpdate(w, i, c)
       \/ Drop(w) \/ GetStep(w) \/ UpdateStep(w)
  \/ MongoEnds

MongoSpec == MongoInit /\ [][MongoNext]_mongoVars

-----------------------------------------------------------------------------
(* Properties                                                              *)

Labels ==
  {"out", "getPop", "open", "read", "getPush", "destroy", "updatePop", "find",
   "remove", "removeChunks", "openUpload", "write", "close", "updatePush"}

MongoTypeOK ==
  /\ free \in SUBSET Clients
  /\ client \in [Workers -> Clients \cup {None}]
  /\ mpc \in [Workers -> Labels]
  /\ img \in [Workers -> Images \cup {None}]
  /\ chunk \in [Workers -> 1..Chunks]
  /\ outBuf \in [Workers -> [1..Chunks -> Versions \cup {None}]]
  /\ filedata \in [Workers -> Versions \cup {None}]
  /\ ret \in [Workers -> {"ok", "error"}]
  /\ spoiled \in [Workers -> BOOLEAN]
  /\ files \in [Images -> Versions \cup {None}]
  /\ chunks \in [Images -> [1..Chunks -> Versions \cup {None}]]
  /\ overlap \in SUBSET Images
  /\ broken \in SUBSET Images

\* A call owns its client from pop to push and uses it until it returns.
Owns(w) == mpc[w] \notin {"out", "getPop", "updatePop", "destroy"}
UsesClient(w) == Owns(w) \/ mpc[w] = "destroy"

ClientsInv ==
  \A w \in Workers :
    /\ UsesClient(w) <=> client[w] # None
    /\ Owns(w) => client[w] \notin free
    /\ \A v \in Workers : Owns(w) /\ Owns(v) /\ client[w] = client[v] => v = w

\* No client is lost: what is not in the pool a call owns.
NoClientLost == \A c \in Clients \ free : \E w \in Workers : Owns(w) /\ client[w] = c

\* An image that is not stored as one version is being updated, has been
\* updated by two threads at once, or an update of it has failed half way: a
\* finished update, and any number of them one after the other, leaves it whole.
LossNeedsFailure ==
  \A i \in Images \ (overlap \cup broken) :
    Whole(i) \/ \E w \in Workers : InWindow(w) /\ img[w] = i

\* An update in its window, alone and unspoiled, has put its version in the
\* place of what it has removed as far as it has come.
Written(w) ==
  /\ ~ spoiled[w] /\ files[img[w]] = None
  /\ mpc[w] = "openUpload" => chunks[img[w]] = NoChunks
  /\ mpc[w] = "write" =>
       \A n \in 1..Chunks :
         chunks[img[w]][n] = IF n < chunk[w] THEN filedata[w] ELSE None
  /\ mpc[w] = "close" => \A n \in 1..Chunks : chunks[img[w]][n] = filedata[w]

StoreInv ==
  /\ LossNeedsFailure
  /\ \A w \in Workers :
       InWindow(w) /\ img[w] \notin overlap \cup broken =>
         /\ Written(w)
         /\ \A v \in Workers : InWindow(v) /\ img[v] = img[w] => v = w

MongoInv == MongoTypeOK /\ ClientsInv /\ NoClientLost /\ StoreInv
=============================================================================
