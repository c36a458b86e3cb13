------------------------------ MODULE ImageJobs ------------------------------
(***************************************************************************)
(* Requests for images from the broker to the store and back:              *)
(* handleProcessImage (internal/app-transport/amqp-transport.cpp) around   *)
(* ImageService::processImage (include/image-service/image-service.hpp),   *)
(* composed of MongoClient and CodecFactory.                               *)
(*                                                                         *)
(* What the processors compute is left out, and how their containers come  *)
(* to life is in ImageService.                                             *)
(***************************************************************************)
EXTENDS MongoClient, CodecFactory

CONSTANTS
  MaxExits,  \* bound: how often the process is started again
  imageId,   \* imageId[r]: the image request r is about
  Format     \* Format[i]: what image i is: "png", "jpg" or another format

ASSUME JobsAssumption ==
  /\ IsFiniteSet(Workers)
  /\ Types = {"png", "jpg"}
  /\ Holders = Workers \X {"codec", "pngCodec"}
  /\ MaxExits \in Nat
  /\ imageId \in [Requests -> Images]
  /\ Format \in [Images -> {"png", "jpg", "other"}]

VARIABLES
  jpc,      \* where each worker is in handleProcessImage
  job,      \* the request it works on
  ready,    \* the requests the broker has to deliver
  acked,    \* the requests it is done with
  exits,    \* how often the process has ended
  outdated  \* history: the images that an update has replaced by a version
            \* made of an older one

brokerVars == <<ready, acked>>
jobVars == <<jpc, job, brokerVars, exits, outdated>>
vars == <<mongoVars, codecVars, jobVars>>

Init ==
  /\ Quiet
  /\ files = [i \in Images |-> [format |-> Format[i], ops |-> <<>>]]
  /\ chunks = [i \in Images |-> [n \in 1..Chunks |-> files[i]]]
  /\ overlap = {} /\ broken = {} /\ outdated = {}
  /\ CodecInit
  /\ jpc = [w \in Workers |-> "idle"]
  /\ job = [w \in Workers |-> None]
  /\ ready = Requests
  /\ acked = {}
  /\ exits = 0

\* A process that has ended more than MaxExits times stays down.
Up == exits <= MaxExits

Step(w, from, to) == jpc[w] = from /\ jpc' = [jpc EXCEPT ![w] = to]

\* Fail is sent; the request is neither acknowledged nor rejected.
AnswerFail(w, from) ==
  /\ Step(w, from, "idle")
  /\ job' = [job EXCEPT ![w] = None]
  /\ UNCHANGED <<brokerVars, exits, outdated>>

\* What a get has read: the format shows in the first bytes, and a jpg only
\* counts as one when its last bytes are those of a jpg too.
FormatOf(buf) ==
  CASE buf[1].format = "png" -> "png"
    [] buf[1].format = "jpg" /\ buf[Chunks].format = "jpg" -> "jpg"
    [] OTHER -> "other"

-----------------------------------------------------------------------------
\* Mutant: the request stays with the broker when it is delivered.
Begin_KeepsReady(w, r) ==
  /\ r \in ready /\ Up
  /\ Step(w, "idle", "get")
  /\ job' = [job EXCEPT ![w] = r]
  /\ CallGet(w, imageId[r])
  /\ UNCHANGED <<codecVars, ready, acked, exits, outdated>>

\* A request is delivered to a free thread, which gets the image.
Begin(w, r) ==
  /\ r \in ready /\ Up
  /\ Step(w, "idle", "get")
  /\ job' = [job EXCEPT ![w] = r]
  /\ ready' = ready \ {r}
  /\ CallGet(w, imageId[r])
  /\ UNCHANGED <<codecVars, acked, exits, outdated>>

Get(w) == jpc[w] = "get" /\ GetStep(w) /\ UNCHANGED <<codecVars, jobVars>>

GetFailed(w) ==
  /\ mpc[w] = "out" /\ ret[w] = "error"
  /\ AnswerFail(w, "get")
  /\ Drop(w)
  /\ UNCHANGED codecVars

AcquireCodec(w) ==
  /\ Step(w, "get", "work")
  /\ mpc[w] = "out" /\ ret[w] = "ok" /\ FormatOf(outBuf[w]) \in Types
  /\ acquireFromType(<<w, "codec">>, FormatOf(outBuf[w]))
  /\ UNCHANGED <<mongoVars, job, brokerVars, exits, outdated>>

\* acquireFromData returns a null codec and its decode is called.
NoCodecCrashes(w) ==
  jpc[w] = "get" /\ mpc[w] = "out" /\ ret[w] = "ok" /\ FormatOf(outBuf[w]) \notin Types

\* decode refuses the data, there is no container, or process_image fails.
\* Mutant: this way out forgets the codec.
WorkFails_Leaks(w) ==
  /\ AnswerFail(w, "work")
  /\ reclaimCodec_Leaks(<<w, "codec">>)
  /\ Drop(w)

WorkFails(w) ==
  /\ AnswerFail(w, "work")
  /\ reclaimCodec(<<w, "codec">>)
  /\ Drop(w)

\* The image is processed and encoded: one with an alpha channel as png.
WorkDone(w) ==
  LET type == codec[<<w, "codec">>].type
      result(t) == [format |-> t, ops |-> Append(outBuf[w][1].ops, job[w])] IN
  /\ Step(w, "work", "update")
  /\ \/ /\ CallUpdate(w, imageId[job[w]], result(type))
        /\ UNCHANGED codecVars
     \/ /\ type = "jpg"
        /\ acquireFromType(<<w, "pngCodec">>, "png")
        /\ CallUpdate(w, imageId[job[w]], result("png"))
  /\ UNCHANGED <<job, brokerVars, exits, outdated>>

\* The version that is replaced is the one the new version was made of, unless
\* another update came between the get and the removal.
Update(w) ==
  /\ jpc[w] = "update" /\ UpdateStep(w)
  /\ outdated' =
       IF RemoveDocument(w) /\ files[img[w]] # None
            /\ files[img[w]].ops # Front(filedata[w].ops)
       THEN outdated \cup {img[w]} ELSE outdated
  /\ UNCHANGED <<codecVars, jpc, job, brokerVars, exits>>

\* The codecs are reclaimed one after the other.
ReclaimPng(w) ==
  /\ jpc[w] = "update" /\ mpc[w] = "out"
  /\ reclaimCodec(<<w, "pngCodec">>)
  /\ UNCHANGED <<mongoVars, jobVars>>

\* Mutant: Done is sent whatever updateImageById has returned.
Finish_Always(w) ==
  /\ mpc[w] = "out" /\ codec[<<w, "pngCodec">>] = NoCodec
  /\ reclaimCodec(<<w, "codec">>)
  /\ Step(w, "update", "idle")
  /\ job' = [job EXCEPT ![w] = None]
  /\ acked' = acked \cup {job[w]}
  /\ Drop(w)
  /\ UNCHANGED <<ready, exits, outdated>>

\* Done is sent and the request acknowledged, or Fail is sent.
Finish(w) ==
  /\ mpc[w] = "out" /\ codec[<<w, "pngCodec">>] = NoCodec
  /\ reclaimCodec(<<w, "codec">>)
  /\ Step(w, "update", "idle")
  /\ job' = [job EXCEPT ![w] = None]
  /\ acked' = IF ret[w] = "ok" THEN acked \cup {job[w]} ELSE acked
  /\ Drop(w)
  /\ UNCHANGED <<ready, exits, outdated>>

\* The process is stopped, or crashes in a worker; the broker delivers what was
\* not acknowledged again.
ProcessEnds ==
  /\ Up
  /\ exits' = exits + 1
  /\ ready' = Requests \ acked
  /\ jpc' = [w \in Workers |-> "idle"]
  /\ job' = [w \in Workers |-> None]
  /\ CodecsEnd
  /\ MongoEnds
  /\ UNCHANGED <<acked, outdated>>

Crash(w) == (ReadCrashes(w) \/ NoCodecCrashes(w)) /\ ProcessEnds

-----------------------------------------------------------------------------
\* What the thread itself does next.
WorkerStep(w) ==
  \/ Get(w) \/ GetFailed(w) \/ AcquireCodec(w) \/ WorkFails(w) \/ WorkDone(w)
  \/ Update(w) \/ ReclaimPng(w) \/ Finish(w) \/ Crash(w)

Next ==
  \/ \E w \in Workers :
       WorkerStep(w) \/ \E r \in Requests : Begin(w, r)
  \/ ProcessEnds

Spec == Init /\ [][Next]_vars

-----------------------------------------------------------------------------
(* Properties                                                              *)

Calls == {"get", "update"}
InHand == {job[w] : w \in Workers} \ {None}

\* What runs is known to be not acknowledged and not to be delivered again, a
\* thread without a call of the repository is out of it, and a job has its
\* codec until it is over.  The factory gets every codec back and makes no more
\* of a type than threads work at once.
JobsInv ==
  /\ MongoInv /\ CodecInv /\ NoCodecLost
  /\ \A t \in Types : allocated[t] <= Cardinality(Workers)
  /\ ready \subseteq Requests /\ acked \subseteq Requests \ ready
  /\ InHand \cap (ready \cup acked) = {}
  /\ exits \in 0..(MaxExits + 1) /\ outdated \subseteq Images
  /\ \A w \in Workers :
       /\ jpc[w] \in {"idle", "get", "work", "update"}
       /\ jpc[w] # "idle" <=> job[w] # None
       /\ \A v \in Workers : job[w] # None /\ job[w] = job[v] => w = v
       /\ mpc[w] # "out" => img[w] = imageId[job[w]]
       /\ jpc[w] \notin Calls => mpc[w] = "out"
       /\ jpc[w] \in {"work", "update"} <=> codec[<<w, "codec">>] # NoCodec
       /\ jpc[w] # "update" => codec[<<w, "pngCodec">>] = NoCodec

\* What Done was sent for is in the image, in the version that is stored: an
\* acknowledged request can only be lost with an update that failed half way,
\* that ran together with another or that came from an older version.
DoneIsInStore ==
  \A r \in acked :
    LET i == imageId[r] IN
    i \notin overlap \cup broken \cup outdated /\ files[i] # None =>
      r \in Range(files[i].ops)

\* Before the process ends for the first time, what has been applied to an
\* image was applied once, and is acknowledged or still in hand: only an end
\* between the upload and the acknowledgement makes a request apply twice.
AppliedOnce ==
  exits = 0 =>
    \A i \in Images : files[i] # None =>
      /\ IsInjective(files[i].ops)
      /\ Range(files[i].ops) \subseteq acked \cup InHand

\* The client pool and the factory lend an item to one holder at a time.  A get
\* whose client is back in the pool is not counted: it still destroys what
\* refers to the client.
ClientLending ==
  INSTANCE Lending WITH Holders <- Workers, Items <- Clients, Nothing <- None,
    held <- [w \in Workers |-> IF Owns(w) THEN client[w] ELSE None]

CodecLending ==
  INSTANCE Lending WITH Items <- [type : Types, id : 1..Cardinality(Workers)],
    Nothing <- NoCodec, held <- codec

LendsToOne == ClientLending!Spec /\ CodecLending!Spec
=============================================================================
