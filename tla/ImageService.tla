----------------------------- MODULE ImageService -----------------------------
(***************************************************************************)
(* The life of the processor containers: ImageService::processImage        *)
(* (include/image-service/image-service.hpp), called by every thread of    *)
(* the pool, ProcessorInitializer and ProcessorStorage, which initialise a *)
(* container on its first use and have no lock, the containers of          *)
(* RealESRGAN and RMBG, and App::deinit (include/limb-app.h).              *)
(*                                                                         *)
(* A step reads or writes the shared set or the shared pointer of a        *)
(* container once.  Every call that can fail may fail or not each time.    *)
(* The images are abstract.                                                *)
(***************************************************************************)
EXTENDS Integers, FiniteSets

CONSTANTS
  Workers,     \* the threads that call processImage
  Containers,  \* the indices App::init has registered
  Unknown,     \* an index that is not registered
  Early,       \* the RealesrganContainers; the others are RmbgContainers
  MaxCalls     \* bound: calls per worker

ASSUME ContainersAssumption ==
  IsFiniteSet(Workers) /\ Unknown \notin Containers /\ Early \subseteq Containers
ASSUME MaxCallsAssumption == MaxCalls \in Nat

VARIABLES
  initialized,  \* m_initializedMap
  snapshot,     \* what of it each worker's insert has read
  made,         \* made[c]: how many models container c has allocated
  model,        \* model[c]: the one net or session points to; 0 is nullptr
  params,       \* params[c]: the nets whose layers are loaded
  loaded,       \* loaded[c]: the models reported to be completely loaded
  freed,        \* freed[c]: the models that are deleted
  wpc,          \* where each worker is in processImage
  index,        \* input.modelId
  uses,         \* uses[w]: the model worker w loads, deletes or processes with
  result,       \* what the last call of each worker has returned
  calls,        \* how many calls each worker has made
  app,          \* what the owner of App does
  destroyed,    \* the containers that are deallocated
  \* History:
  inits,        \* inits[c]: how often init of container c was called
  raced,        \* two first uses were in the set of indices at once
  disturbed,    \* the containers with two inits at once, or a failing repetition
  began,        \* began[w]: the container was ready when the call began
  hasty         \* hasty[w]: the net was taken while an init was under way

setVars == <<initialized, snapshot, raced>>
modelVars == <<made, model, params, loaded, freed>>
initVars == <<inits, disturbed>>
callVars == <<index, began, calls>>
workVars == <<uses, hasty>>
appVars == <<app, destroyed>>

vars == <<setVars, modelVars, initVars, callVars, workVars, appVars, wpc, result>>

Init ==
  /\ initialized = {}
  /\ snapshot = [w \in Workers |-> {}]
  /\ made = [c \in Containers |-> 0]
  /\ model = [c \in Containers |-> 0]
  /\ params = [c \in Containers |-> {}]
  /\ loaded = [c \in Containers |-> {}]
  /\ freed = [c \in Containers |-> {}]
  /\ wpc = [w \in Workers |-> "idle"]
  /\ index = [w \in Workers |-> Unknown]
  /\ uses = [w \in Workers |-> 0]
  /\ result = [w \in Workers |-> "none"]
  /\ calls = [w \in Workers |-> 0]
  /\ app = "running" /\ destroyed = {}
  /\ inits = [c \in Containers |-> 0]
  /\ raced = FALSE /\ disturbed = {}
  /\ began = [w \in Workers |-> FALSE]
  /\ hasty = [w \in Workers |-> FALSE]

Goto(w, label) == wpc' = [wpc EXCEPT ![w] = label]

Return(w, status) ==
  /\ Goto(w, "idle")
  /\ result' = [result EXCEPT ![w] = status]

\* A container is ready when it gives out processors on a loaded model.
Ready(c) == model[c] # 0 /\ model[c] \in loaded[c]

InitLabels ==
  {"setup", "param", "inParam", "weights", "inModel", "file", "session",
   "deinit", "delete", "null"}

\* Worker w is in init of container c, the deinit of a failed one included.
InInit(w, c) == index[w] = c /\ wpc[w] \in InitLabels

Others(w) == Workers \ {w}

-----------------------------------------------------------------------------
(* processImage up to the container                                        *)

Call(w, i) ==
  /\ wpc[w] = "idle" /\ app = "running" /\ calls[w] < MaxCalls
  /\ calls' = [calls EXCEPT ![w] = @ + 1]
  /\ index' = [index EXCEPT ![w] = i]
  /\ began' = [began EXCEPT ![w] = i \in Containers /\ Ready(i)]
  /\ result' = [result EXCEPT ![w] = "none"]
  /\ Goto(w, "decode")
  /\ UNCHANGED <<setVars, modelVars, initVars, workVars, appVars>>

\* getImageById or decode reports an error.
DecodeFails(w) ==
  /\ wpc[w] = "decode"
  /\ Return(w, "failed")
  /\ UNCHANGED <<setVars, modelVars, initVars, callVars, workVars, appVars>>

Decodes(w) ==
  /\ wpc[w] = "decode"
  /\ Goto(w, "find")
  /\ UNCHANGED <<setVars, modelVars, initVars, callVars, workVars, result, appVars>>

\* ProcessorStorage::acquireContainer is m_containers.at(index).
FindThrows(w) ==
  /\ wpc[w] = "find" /\ index[w] \notin Containers
  /\ Return(w, "threw")
  /\ UNCHANGED <<setVars, modelVars, initVars, callVars, workVars, appVars>>

Inserting(w) == \E v \in Others(w) : wpc[v] \in {"insert", "link"}
Linking(w) == \E v \in Others(w) : wpc[v] = "link"

\* Mutant: the set of initialised indices is not looked at.
Find_NoTest(w) ==
  /\ wpc[w] = "find" /\ index[w] \in Containers
  /\ Goto(w, "insert")
  /\ raced' = (raced \/ Inserting(w))
  /\ UNCHANGED <<initialized, snapshot, modelVars, initVars, callVars, workVars,
                 result, appVars>>

\* m_initializedMap.contains without a lock may miss an index while another
\* worker links one in.
Find(w) ==
  /\ wpc[w] = "find" /\ index[w] \in Containers
  /\ \/ /\ index[w] \in initialized
        /\ Goto(w, "acquire")
        /\ UNCHANGED raced
     \/ /\ index[w] \notin initialized \/ Linking(w)
        /\ Goto(w, "insert")
        /\ raced' = (raced \/ Inserting(w))
  /\ UNCHANGED <<initialized, snapshot, modelVars, initVars, callVars, workVars,
                 result, appVars>>

\* m_initializedMap.insert without a lock: it looks for the place of the index
\* and then links it in, and may lose an index inserted in between.
InsertReads(w) ==
  /\ wpc[w] = "insert"
  /\ snapshot' = [snapshot EXCEPT ![w] = initialized]
  /\ Goto(w, "link")
  /\ UNCHANGED <<initialized, raced, modelVars, initVars, callVars, workVars, result,
                 appVars>>

InsertWrites(w) ==
  /\ wpc[w] = "link"
  /\ \/ initialized' = initialized \cup {index[w]}
     \/ initialized' = snapshot[w] \cup {index[w]}
  /\ Goto(w, "init")
  /\ UNCHANGED <<snapshot, raced, modelVars, initVars, callVars, workVars, result,
                 appVars>>

-----------------------------------------------------------------------------
(* init, whose result acquireContainer ignores                             *)

CountsInit(w) ==
  LET c == index[w] IN
  /\ inits' = [inits EXCEPT ![c] = @ + 1]
  /\ disturbed' = IF \E v \in Others(w) : InInit(v, c) THEN disturbed \cup {c} ELSE disturbed

\* A new model replaces the one the container points to.
MakesModel(c) ==
  /\ made' = [made EXCEPT ![c] = @ + 1]
  /\ model' = [model EXCEPT ![c] = made[c] + 1]

\* Mutant: init first releases the session that an earlier init has left.
InitBegins_Resets(w) ==
  LET c == index[w] IN
  /\ wpc[w] = "init"
  /\ CountsInit(w)
  /\ IF c \in Early
     THEN MakesModel(c) /\ Goto(w, "setup")
     ELSE model' = [model EXCEPT ![c] = 0] /\ Goto(w, "file") /\ UNCHANGED made
  /\ UNCHANGED <<setVars, params, loaded, freed, callVars, workVars, result, appVars>>

\* RealesrganContainer replaces net before anything is loaded into it.
InitBegins(w) ==
  LET c == index[w] IN
  /\ wpc[w] = "init"
  /\ CountsInit(w)
  /\ \/ c \in Early /\ MakesModel(c) /\ Goto(w, "setup")
     \/ c \notin Early /\ Goto(w, "file") /\ UNCHANGED <<made, model>>
  /\ UNCHANGED <<setVars, params, loaded, freed, callVars, workVars, result, appVars>>

Fails(c) ==
  /\ disturbed' = IF inits[c] > 1 THEN disturbed \cup {c} ELSE disturbed
  /\ UNCHANGED inits

\* The options are set in whatever net points to by now.
SetsUp(w) ==
  /\ wpc[w] = "setup" /\ model[index[w]] # 0
  /\ Goto(w, "param")
  /\ UNCHANGED <<setVars, modelVars, initVars, callVars, workVars, result, appVars>>

SetUpFails(w) ==
  /\ wpc[w] = "setup" /\ model[index[w]] = 0
  /\ Fails(index[w])
  /\ Goto(w, "acquire")
  /\ UNCHANGED <<setVars, modelVars, callVars, workVars, result, appVars>>

\* load_param and then load_model are called on whatever net points to by then.
LoadBegins(w) ==
  LET c == index[w] IN
  /\ wpc[w] \in {"param", "weights"} /\ model[c] # 0
  /\ uses' = [uses EXCEPT ![w] = model[c]]
  /\ params' = [params EXCEPT ![c] = IF wpc[w] = "param" THEN @ \ {model[c]} ELSE @]
  /\ loaded' = [loaded EXCEPT ![c] = @ \ {model[c]}]
  /\ Goto(w, IF wpc[w] = "param" THEN "inParam" ELSE "inModel")
  /\ UNCHANGED <<setVars, made, model, freed, initVars, callVars, hasty, result, appVars>>

LoadsParam(w) ==
  /\ wpc[w] = "inParam"
  /\ params' = [params EXCEPT ![index[w]] = @ \cup {uses[w]}]
  /\ Goto(w, "weights")
  /\ UNCHANGED <<setVars, made, model, loaded, freed, initVars, callVars, workVars,
                 result, appVars>>

\* A net without layers cannot take weights.
LoadsModel(w) ==
  /\ wpc[w] = "inModel" /\ uses[w] \in params[index[w]]
  /\ loaded' = [loaded EXCEPT ![index[w]] = @ \cup {uses[w]}]
  /\ Goto(w, "acquire")
  /\ UNCHANGED <<setVars, made, model, params, freed, initVars, callVars, workVars,
                 result, appVars>>

\* RmbgContainer sets its session when the file is read and the session is made.
LoadsFile(w) ==
  /\ wpc[w] = "file"
  /\ Goto(w, "session")
  /\ UNCHANGED <<setVars, modelVars, initVars, callVars, workVars, result, appVars>>

SessionIsMade(w) ==
  LET c == index[w] IN
  /\ wpc[w] = "session"
  /\ MakesModel(c)
  /\ loaded' = [loaded EXCEPT ![c] = @ \cup {made[c] + 1}]
  /\ Goto(w, "acquire")
  /\ UNCHANGED <<setVars, params, freed, initVars, callVars, workVars, result, appVars>>

\* The ONNX runtime throws, and the exception leaves processImage.
InitThrows(w) ==
  /\ wpc[w] \in {"file", "session"}
  /\ Fails(index[w])
  /\ Return(w, "threw")
  /\ UNCHANGED <<setVars, modelVars, callVars, workVars, appVars>>

\* Mutant: init does not deinit when the load fails.
LoadFails_Keeps(w) ==
  /\ wpc[w] \in {"inParam", "inModel", "file"}
  /\ Fails(index[w])
  /\ Goto(w, "acquire")
  /\ UNCHANGED <<setVars, modelVars, callVars, workVars, result, appVars>>

LoadFails(w) ==
  /\ wpc[w] \in {"inParam", "inModel", "file"}
  /\ Fails(index[w])
  /\ Goto(w, "deinit")
  /\ UNCHANGED <<setVars, modelVars, callVars, workVars, result, appVars>>

\* deinit deletes the model, whoever has made it, and then clears the pointer.
DeinitReads(w) ==
  LET c == index[w] IN
  /\ wpc[w] = "deinit"
  /\ uses' = [uses EXCEPT ![w] = model[c]]
  /\ Goto(w, IF model[c] = 0 THEN "acquire" ELSE "delete")
  /\ UNCHANGED <<setVars, modelVars, initVars, callVars, hasty, result, appVars>>

\* The compiler may read the pointer once or again.
Deletes(w) ==
  LET c == index[w] IN
  /\ wpc[w] = "delete"
  /\ \E m \in {uses[w], model[c]} : freed' = [freed EXCEPT ![c] = @ \cup ({m} \ {0})]
  /\ Goto(w, "null")
  /\ UNCHANGED <<setVars, made, model, params, loaded, initVars, callVars, workVars,
                 result, appVars>>

\* Mutant: the pointer to the deleted model stays.
Forgets_Not(w) ==
  /\ wpc[w] = "null"
  /\ Goto(w, "acquire")
  /\ UNCHANGED <<setVars, modelVars, initVars, callVars, workVars, result, appVars>>

Forgets(w) ==
  /\ wpc[w] = "null"
  /\ model' = [model EXCEPT ![index[w]] = 0]
  /\ Goto(w, "acquire")
  /\ UNCHANGED <<setVars, made, params, loaded, freed, initVars, callVars, workVars,
                 result, appVars>>

-----------------------------------------------------------------------------
(* The processor                                                           *)

IsHasty(w) == index[w] \in Early /\ \E v \in Others(w) : InInit(v, index[w])

TryAcquireFails(w) ==
  /\ wpc[w] = "acquire" /\ model[index[w]] = 0
  /\ Return(w, "aborted")
  /\ UNCHANGED <<setVars, modelVars, initVars, callVars, workVars, appVars>>

TryAcquire(w) ==
  /\ wpc[w] = "acquire" /\ model[index[w]] # 0
  /\ uses' = [uses EXCEPT ![w] = model[index[w]]]
  /\ hasty' = [hasty EXCEPT ![w] = IsHasty(w)]
  /\ Goto(w, "build")
  /\ UNCHANGED <<setVars, modelVars, initVars, callVars, result, appVars>>

\* The processor is made of the pointer, which the compiler may read again.
Builds(w) ==
  /\ wpc[w] = "build"
  /\ \E m \in {uses[w], model[index[w]]} : uses' = [uses EXCEPT ![w] = m]
  /\ hasty' = [hasty EXCEPT ![w] = @ \/ IsHasty(w)]
  /\ Goto(w, "process")
  /\ UNCHANGED <<setVars, modelVars, initVars, callVars, result, appVars>>

\* process_image, encode and updateImageById; the processor is reclaimed.
Process(w) ==
  /\ wpc[w] = "process" /\ uses[w] # 0
  /\ \E status \in {"ok", "failed"} : Return(w, status)
  /\ UNCHANGED <<setVars, modelVars, initVars, callVars, workVars, appVars>>

-----------------------------------------------------------------------------
(* The end of the process                                                  *)

UsableModel(w) == uses[w] \in loaded[index[w]] /\ uses[w] \notin freed[index[w]]

\* What the next step of worker w does is undefined.
Undefined(w) ==
  LET c == index[w] IN
  \* no codec knows the format, codec is null and is called
  \/ wpc[w] = "decode"
  \* the set is read or written while another worker writes it
  \/ wpc[w] \in {"find", "link"} /\ Linking(w)
  \* net is null or deleted
  \/ wpc[w] \in {"setup", "param", "weights"} /\ model[c] \in {0} \cup freed[c]
  \* the net is deleted, or another worker loads into it too
  \/ wpc[w] \in {"inParam", "inModel"} /\
       (uses[w] \in freed[c] \/
        \E v \in Others(w) :
          index[v] = c /\ wpc[v] \in {"inParam", "inModel"} /\ uses[v] = uses[w])
  \* modelBuffer and sessionOptions are shared by all inits
  \/ wpc[w] \in {"file", "session"} /\ \E v \in Others(w) : InInit(v, c)
  \/ wpc[w] = "delete" /\ {uses[w], model[c]} \cap freed[c] # {}
  \/ wpc[w] = "process" /\ ~ UsableModel(w)

Crash(w) ==
  /\ Undefined(w)
  /\ wpc' = [v \in Workers |-> "crashed"]
  /\ app' = "crashed"
  /\ UNCHANGED <<setVars, modelVars, initVars, callVars, workVars, result, destroyed>>

\* App::deinit, after the pool has joined its workers.
DeinitBegins ==
  /\ app = "running"
  /\ \A w \in Workers : wpc[w] = "idle"
  /\ app' = "destroying"
  /\ UNCHANGED <<setVars, modelVars, initVars, callVars, workVars, wpc, result, destroyed>>

\* The model a container has when getContainer returns: its own, or, if the index
\* is not marked, what an init leaves that succeeds or deletes what there is.
LastModels(c) ==
  IF c \in initialized THEN {model[c]}
  ELSE IF c \in Early THEN {made[c] + 1} ELSE {made[c] + 1, model[c]}

\* getContainer initialises a container that was never used, and the container
\* is destroyed with its model.
DestroyContainer(c) ==
  /\ app = "destroying" /\ c \notin destroyed
  /\ initialized' = initialized \cup {c}
  /\ inits' = [inits EXCEPT ![c] = IF c \in initialized THEN @ ELSE @ + 1]
  /\ \E last \in LastModels(c) :
       /\ made' = [made EXCEPT ![c] = IF last > @ THEN last ELSE @]
       /\ freed' = [freed EXCEPT ![c] = @ \cup ({last} \ {0})]
  /\ model' = [model EXCEPT ![c] = 0]
  /\ destroyed' = destroyed \cup {c}
  /\ app' = IF destroyed' = Containers THEN "clearing" ELSE "destroying"
  /\ UNCHANGED <<snapshot, raced, params, loaded, disturbed, callVars, workVars,
                 wpc, result>>

\* That init throws, and nobody catches it.
DestroyThrows(c) ==
  /\ app = "destroying" /\ c \notin destroyed \cup initialized \cup Early
  /\ initialized' = initialized \cup {c}
  /\ inits' = [inits EXCEPT ![c] = @ + 1]
  /\ app' = "aborted"
  /\ UNCHANGED <<snapshot, raced, modelVars, disturbed, callVars, workVars, wpc,
                 result, destroyed>>

\* clear() goes over m_initializedMap, calls deinit on each container, although
\* it is deallocated, and erases the index its iterator stands at: both may go
\* wrong.
ClearContainer(c) ==
  /\ app = "clearing" /\ c \in initialized
  /\ initialized' = initialized \ {c}
  /\ \/ app' = IF initialized' = {} THEN "down" ELSE "clearing"
     \/ app' = "aborted"
  /\ UNCHANGED <<snapshot, raced, modelVars, initVars, callVars, workVars, wpc, result,
                 destroyed>>

-----------------------------------------------------------------------------
Begins(w) ==
  \/ \E i \in Containers \cup {Unknown} : Call(w, i)
  \/ DecodeFails(w) \/ Decodes(w) \/ FindThrows(w) \/ Find(w)
  \/ InsertReads(w) \/ InsertWrites(w)

Initializes(w) ==
  \/ InitBegins(w) \/ SetsUp(w) \/ SetUpFails(w) \/ LoadBegins(w) \/ LoadsParam(w)
  \/ LoadsModel(w) \/ LoadsFile(w) \/ SessionIsMade(w) \/ InitThrows(w) \/ LoadFails(w)
  \/ DeinitReads(w) \/ Deletes(w) \/ Forgets(w)

Processes(w) ==
  TryAcquireFails(w) \/ TryAcquire(w) \/ Builds(w) \/ Process(w)

Deinit ==
  \/ DeinitBegins
  \/ \E c \in Containers : DestroyContainer(c) \/ DestroyThrows(c) \/ ClearContainer(c)

Next ==
  Deinit \/ \E w \in Workers : Begins(w) \/ Initializes(w) \/ Processes(w) \/ Crash(w)

Spec == Init /\ [][Next]_vars

-----------------------------------------------------------------------------
(* Properties                                                              *)

\* Of a container whose inits do not overlap, none but the first of which fails,
\* every processor works on a loaded model that is not deleted, unless its net
\* was taken while RealesrganContainer::init was still loading it.
ProcessesOnUsableModel ==
  \A w \in Workers :
    wpc[w] = "process" /\ ~ hasty[w] /\ index[w] \notin disturbed => UsableModel(w)

\* A call that begins when such a container is ready gets a processor, although
\* the set may lose its index and a second init replace its model meanwhile.
ReadyIsServed ==
  \A w \in Workers :
    began[w] /\ wpc[w] \in {"acquire", "build"} /\ index[w] \notin disturbed =>
      model[index[w]] # 0

\* When no init of a container is under way, however they were interleaved and
\* whichever of them failed, it has a loaded model that is not deleted, or none:
\* a failing init leaves nothing half made for later calls.
SettledIsReady ==
  app = "running" =>
    \A c \in Containers :
      (\A w \in Workers : ~ InInit(w, c)) =>
        model[c] = 0 \/ (Ready(c) /\ model[c] \notin freed[c])

\* acquireContainer initialises a container twice only if two first uses, of
\* whatever containers, were in the set at the same time.
SecondInitNeedsRace == ~ raced => \A c \in Containers : inits[c] <= 1

Labels ==
  InitLabels \cup
  {"idle", "decode", "find", "insert", "link", "init", "acquire", "build", "process",
   "crashed"}

TypeOK ==
  /\ initialized \in SUBSET Containers
  /\ snapshot \in [Workers -> SUBSET Containers]
  /\ raced \in BOOLEAN
  /\ made \in [Containers -> Nat]
  /\ model \in [Containers -> Nat]
  /\ params \in [Containers -> SUBSET Nat]
  /\ loaded \in [Containers -> SUBSET Nat]
  /\ freed \in [Containers -> SUBSET Nat]
  /\ \A c \in Containers :
       /\ model[c] <= made[c]
       /\ loaded[c] \subseteq 0..made[c]
       /\ freed[c] \subseteq 1..made[c]
  /\ inits \in [Containers -> Nat]
  /\ disturbed \in SUBSET Containers
  /\ wpc \in [Workers -> Labels]
  /\ index \in [Workers -> Containers \cup {Unknown}]
  /\ uses \in [Workers -> Nat]
  /\ hasty \in [Workers -> BOOLEAN] /\ began \in [Workers -> BOOLEAN]
  /\ result \in [Workers -> {"none", "ok", "failed", "aborted", "threw"}]
  /\ calls \in [Workers -> 0..MaxCalls]
  /\ app \in {"running", "destroying", "clearing", "down", "aborted", "crashed"}
  /\ destroyed \in SUBSET Containers

\* Where a call needs a container it has one that is registered, of the kind
\* whose init it is in, the model it uses is one the container has made, and
\* containers are destroyed when no call is running.
PlacesInv ==
  /\ \A w \in Workers :
       /\ wpc[w] \in Labels \ {"idle", "decode", "find", "crashed"} =>
            index[w] \in Containers
       /\ wpc[w] \in {"setup", "param", "inParam", "weights", "inModel"} => index[w] \in Early
       /\ wpc[w] \in {"file", "session"} => index[w] \notin Early
       /\ wpc[w] \in {"inParam", "inModel", "delete", "build", "process"} =>
            uses[w] <= made[index[w]]
  /\ app # "running" => \A w \in Workers : wpc[w] \in {"idle", "crashed"}
  /\ destroyed # {} => app # "running"

\* Without a race the set is exact: an index goes in once, before its init.
SetIsExact ==
  /\ \A v, w \in Workers :
       /\ {wpc[v], wpc[w]} \subseteq {"insert", "link"} => v = w
       /\ wpc[v] = "init" /\ wpc[w] = "init" /\ index[v] = index[w] => v = w
  /\ \A w \in Workers :
       /\ wpc[w] = "link" => snapshot[w] = initialized
       /\ wpc[w] \in {"insert", "link"} => index[w] \notin initialized
       /\ wpc[w] = "init" => index[w] \in initialized /\ inits[index[w]] = 0
  /\ \A c \in Containers \ initialized : inits[c] = 0

InitializerInv ==
  /\ SecondInitNeedsRace
  /\ ~ raced /\ app \in {"running", "destroying"} => SetIsExact

\* A visible model that is not loaded has a worker in its init, and one that is
\* deleted a worker that is about to clear the pointer.
Completes(w, c) ==
  InInit(w, c) /\ wpc[w] \notin {"file", "session"} /\ (wpc[w] = "inModel" => uses[w] = model[c])

ModelsInv ==
  /\ \A c \in Containers :
       /\ made[c] # 0 => inits[c] # 0
       /\ c \notin Early /\ model[c] # 0 => model[c] \in loaded[c]
       /\ app = "running" /\ model[c] \notin {0} \cup loaded[c] =>
            \E w \in Workers : Completes(w, c)
       /\ app = "running" /\ model[c] \in freed[c] =>
            \E w \in Workers : index[w] = c /\ wpc[w] = "null"
  /\ \A w \in Workers :
       /\ wpc[w] \in InitLabels => inits[index[w]] # 0
       /\ wpc[w] \in {"build", "process"} => made[index[w]] # 0

\* One init at a time works on its own model, and what processors were built on
\* or calls rely on is an older one.
InitIsAlone(c) ==
  \A w \in Workers : InInit(w, c) =>
    /\ \A v \in Workers : InInit(v, c) => v = w
    /\ wpc[w] \in {"deinit", "delete", "null"} => inits[c] = 1
    /\ c \in Early =>
         /\ model[c] = made[c] /\ made[c] # 0 /\ made[c] \notin loaded[c]
         /\ wpc[w] \in {"inParam", "inModel", "delete"} => uses[w] = made[c]
    /\ c \notin Early /\ inits[c] = 1 => model[c] = 0 /\ wpc[w] \notin {"delete", "null"}

Relies(w) ==
  \/ began[w] /\ wpc[w] \notin {"idle", "crashed"}
  \/ wpc[w] = "build" /\ ~ hasty[w]

BeingInit(c) == \E w \in Workers : InInit(w, c)

IsServed(w) ==
  LET c == index[w]
      holds == wpc[w] \in {"build", "process"} /\ ~ hasty[w] IN
  /\ Relies(w) => model[c] # 0
  /\ (Relies(w) \/ holds) /\ BeingInit(c) => inits[c] > 1
  /\ holds => UsableModel(w) /\ (c \in Early /\ BeingInit(c) => uses[w] # made[c])

IsUndisturbed(c) ==
  /\ InitIsAlone(c)
  /\ c \notin Early => freed[c] = {}
  /\ \A w \in Workers : index[w] = c => IsServed(w)

UndisturbedInv ==
  app = "running" => \A c \in Containers \ disturbed : IsUndisturbed(c)

ServiceInv == TypeOK /\ PlacesInv /\ InitializerInv /\ ModelsInv /\ UndisturbedInv
=============================================================================
