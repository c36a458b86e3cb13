-------------------------- MODULE ImageServiceProofs --------------------------
(***************************************************************************)
(* Proofs about the life of the processor containers, for every number of  *)
(* workers, containers and calls and every interleaving of their steps.    *)
(***************************************************************************)
EXTENDS ImageService, TLAPS

-----------------------------------------------------------------------------
(* Types                                                                   *)

LEMMA InitType == Init => TypeOK
<1> SUFFICES ASSUME Init PROVE TypeOK
  OBVIOUS
<1>1. \A c \in Containers :
        model[c] <= made[c] /\ loaded[c] \subseteq 0..made[c] /\ freed[c] \subseteq 1..made[c]
  BY DEF Init
<1>2. /\ wpc \in [Workers -> Labels]
      /\ index \in [Workers -> Containers \cup {Unknown}]
      /\ uses \in [Workers -> Nat] /\ calls \in [Workers -> 0..MaxCalls]
      /\ snapshot \in [Workers -> SUBSET Containers]
      /\ hasty \in [Workers -> BOOLEAN] /\ began \in [Workers -> BOOLEAN]
      /\ result \in [Workers -> {"none", "ok", "failed", "aborted", "threw"}]
  BY MaxCallsAssumption DEF Init, Labels
<1>3. /\ made \in [Containers -> Nat] /\ model \in [Containers -> Nat]
      /\ inits \in [Containers -> Nat] /\ params \in [Containers -> SUBSET Nat]
      /\ loaded \in [Containers -> SUBSET Nat] /\ freed \in [Containers -> SUBSET Nat]
  BY DEF Init
<1> QED BY <1>1, <1>2, <1>3 DEF Init, TypeOK

LEMMA BeginsType ==
  ASSUME TypeOK, PlacesInv, NEW w \in Workers, Begins(w)
  PROVE  TypeOK'
<1> USE DEF TypeOK, Goto, Return, Labels, setVars, modelVars, initVars, callVars, workVars,
            appVars
<1>1. CASE \E i \in Containers \cup {Unknown} : Call(w, i)
  BY <1>1, MaxCallsAssumption DEF Call
<1>2. CASE DecodeFails(w) \/ Decodes(w) \/ FindThrows(w)
  BY <1>2 DEF DecodeFails, Decodes, FindThrows
<1>3. CASE Find(w) \/ InsertReads(w)
  BY <1>3 DEF Find, InsertReads, Inserting
<1>4. CASE InsertWrites(w)
  <2>1. index[w] \in Containers
    BY <1>4 DEF InsertWrites, PlacesInv
  <2> QED BY <1>4, <2>1 DEF InsertWrites
<1> QED BY <1>1, <1>2, <1>3, <1>4 DEF Begins

LEMMA InitializesType ==
  ASSUME TypeOK, PlacesInv, NEW w \in Workers, Initializes(w)
  PROVE  TypeOK'
<1> DEFINE c == index[w]
<1> USE DEF TypeOK, Goto, Return, Labels, InitLabels, setVars, modelVars, initVars, callVars,
            workVars, appVars
<1>1. c \in Containers /\ made[c] \in Nat /\ model[c] \in Nat /\ inits[c] \in Nat
  BY DEF Initializes, PlacesInv, InitBegins, SetsUp, SetUpFails, LoadBegins, LoadsParam, LoadsModel,
         LoadsFile, SessionIsMade, InitThrows, LoadFails, DeinitReads, Deletes, Forgets
<1>2. CASE InitBegins(w)
  <2>1. /\ inits' = [inits EXCEPT ![c] = inits[c] + 1] /\ inits' \in [Containers -> Nat]
        /\ disturbed' \in SUBSET Containers
    BY <1>1, <1>2 DEF InitBegins, CountsInit
  <2>2. CASE c \in Early
    <3>1. made' = [made EXCEPT ![c] = made[c] + 1] /\ model' = [model EXCEPT ![c] = made[c] + 1]
      BY <1>2, <2>2 DEF InitBegins, MakesModel
    <3>2. \A d \in Containers :
            model'[d] <= made'[d] /\ loaded[d] \subseteq 0..made'[d] /\ freed[d] \subseteq 1..made'[d]
      BY <1>1, <3>1
    <3>3. made' \in [Containers -> Nat] /\ model' \in [Containers -> Nat]
      BY <1>1, <3>1
    <3> QED BY <1>2, <2>1, <2>2, <3>2, <3>3 DEF InitBegins
  <2>3. CASE c \notin Early
    BY <1>1, <1>2, <2>1, <2>3 DEF InitBegins
  <2> QED BY <2>2, <2>3
<1>3. CASE SetsUp(w) \/ LoadsFile(w) \/ DeinitReads(w)
  BY <1>1, <1>3 DEF SetsUp, LoadsFile, DeinitReads
<1>4. CASE SetUpFails(w) \/ InitThrows(w) \/ LoadFails(w)
  BY <1>1, <1>4 DEF SetUpFails, InitThrows, LoadFails, Fails
<1>5. CASE LoadBegins(w)
  BY <1>1, <1>5 DEF LoadBegins
<1>6. CASE LoadsParam(w) \/ LoadsModel(w)
  <2>1. uses[w] \in 0..made[c]
    BY <1>6 DEF LoadsParam, LoadsModel, PlacesInv
  <2>2. CASE LoadsParam(w)
    BY <1>1, <2>1, <2>2 DEF LoadsParam
  <2>3. CASE LoadsModel(w)
    BY <1>1, <2>1, <2>3 DEF LoadsModel
  <2> QED BY <1>6, <2>2, <2>3
<1>7. CASE SessionIsMade(w)
  <2>1. /\ made' = [made EXCEPT ![c] = made[c] + 1]
        /\ model' = [model EXCEPT ![c] = made[c] + 1]
        /\ loaded' = [loaded EXCEPT ![c] = loaded[c] \cup {made[c] + 1}]
    BY <1>7 DEF SessionIsMade, MakesModel
  <2>2. /\ made' \in [Containers -> Nat] /\ model' \in [Containers -> Nat]
        /\ loaded' \in [Containers -> SUBSET Nat]
    BY <1>1, <2>1
  <2>3. \A d \in Containers :
          model'[d] <= made'[d] /\ loaded'[d] \subseteq 0..made'[d] /\ freed[d] \subseteq 1..made'[d]
    BY <1>1, <2>1
  <2> QED BY <1>7, <2>2, <2>3 DEF SessionIsMade
<1>8. CASE Deletes(w)
  <2>1. uses[w] \in 0..made[c] /\ model[c] \in 0..made[c]
    BY <1>1, <1>8 DEF Deletes, PlacesInv
  <2> QED BY <1>1, <1>8, <2>1 DEF Deletes
<1>9. CASE Forgets(w)
  BY <1>1, <1>9 DEF Forgets
<1> QED BY <1>2, <1>3, <1>4, <1>5, <1>6, <1>7, <1>8, <1>9 DEF Initializes

LEMMA ProcessesType ==
  ASSUME TypeOK, PlacesInv, NEW w \in Workers, Processes(w) \/ Crash(w)
  PROVE  TypeOK'
<1> USE DEF TypeOK, Goto, Return, Labels, setVars, modelVars, initVars, callVars, workVars,
            appVars
<1>1. CASE Crash(w)
  BY <1>1 DEF Crash
<1>2. CASE TryAcquireFails(w) \/ Process(w)
  BY <1>2 DEF TryAcquireFails, Process
<1>3. CASE TryAcquire(w) \/ Builds(w)
  <2>1. model[index[w]] \in Nat
    BY <1>3 DEF TryAcquire, Builds, PlacesInv
  <2>2. uses' \in [Workers -> Nat]
    BY <1>3, <2>1 DEF TryAcquire, Builds
  <2>3. hasty' \in [Workers -> BOOLEAN] /\ wpc' \in [Workers -> Labels]
    BY <1>3 DEF TryAcquire, Builds, IsHasty
  <2> HIDE DEF Labels
  <2> QED BY <1>3, <2>2, <2>3 DEF TryAcquire, Builds
<1> QED BY <1>1, <1>2, <1>3 DEF Processes

LEMMA DeinitType ==
  ASSUME TypeOK, Deinit
  PROVE  TypeOK'
<1> USE DEF TypeOK, setVars, modelVars, initVars, callVars, workVars
<1>1. CASE DeinitBegins
  BY <1>1 DEF DeinitBegins
<1>2. ASSUME NEW c \in Containers, DestroyContainer(c) PROVE TypeOK'
  BY <1>2 DEF DestroyContainer, LastModels
<1>3. ASSUME NEW c \in Containers, DestroyThrows(c) \/ ClearContainer(c) PROVE TypeOK'
  BY <1>3 DEF DestroyThrows, ClearContainer
<1> QED BY <1>1, <1>2, <1>3 DEF Deinit

LEMMA TypeStep == TypeOK /\ PlacesInv /\ [Next]_vars => TypeOK'
<1> SUFFICES ASSUME TypeOK, PlacesInv, [Next]_vars PROVE TypeOK'
  OBVIOUS
<1>1. CASE UNCHANGED vars
  BY <1>1 DEF TypeOK, vars, setVars, modelVars, initVars, callVars, workVars, appVars
<1> QED BY <1>1, BeginsType, InitializesType, ProcessesType, DeinitType DEF Next

-----------------------------------------------------------------------------
(* Places                                                                  *)

\* A step of worker w that takes it to a place it may be at.
LEMMA PlacesMoves ==
  ASSUME TypeOK, PlacesInv, NEW w \in Workers, app = "running", UNCHANGED appVars,
         \A v \in Others(w) : wpc'[v] = wpc[v] /\ index'[v] = index[v] /\ uses'[v] = uses[v],
         \A c \in Containers : made[c] \in Nat /\ made'[c] \in Nat /\ made'[c] >= made[c],
         wpc'[w] \in Labels \ {"idle", "decode", "find", "crashed"} => index'[w] \in Containers,
         wpc'[w] \in {"setup", "param", "inParam", "weights", "inModel"} => index'[w] \in Early,
         wpc'[w] \in {"file", "session"} => index'[w] \notin Early,
         wpc'[w] \in {"inParam", "inModel", "delete", "build", "process"} =>
           uses'[w] <= made'[index'[w]]
  PROVE  PlacesInv'
<1>1. ASSUME NEW v \in Others(w)
      PROVE  wpc'[v] \in {"inParam", "inModel", "delete", "build", "process"} =>
               uses'[v] <= made'[index'[v]]
  <2> SUFFICES ASSUME wpc'[v] \in {"inParam", "inModel", "delete", "build", "process"}
               PROVE  uses'[v] <= made'[index'[v]]
    OBVIOUS
  <2>1. /\ wpc[v] = wpc'[v] /\ index[v] = index'[v] /\ uses[v] = uses'[v] /\ v \in Workers
    BY DEF Others
  <2>2. index[v] \in Containers /\ uses[v] <= made[index[v]] /\ uses[v] \in Nat
    BY <2>1 DEF PlacesInv, TypeOK, Labels, InitLabels
  <2> QED BY <2>1, <2>2
<1> QED BY <1>1 DEF PlacesInv, Others, appVars

LEMMA BeginsPlaces ==
  ASSUME TypeOK, PlacesInv, NEW w \in Workers, Begins(w)
  PROVE  PlacesInv'
<1>1. app = "running" /\ UNCHANGED <<made, appVars>>
  BY DEF Begins, Call, DecodeFails, Decodes, FindThrows, Find, InsertReads, InsertWrites, PlacesInv,
         modelVars
<1>2. \A v \in Others(w) : wpc'[v] = wpc[v] /\ index'[v] = index[v] /\ uses'[v] = uses[v]
  BY DEF Begins, Call, DecodeFails, Decodes, FindThrows, Find, InsertReads, InsertWrites, TypeOK,
         Goto, Return, Others, callVars, workVars
<1>3. wpc'[w] \in {"idle", "decode", "find", "acquire", "insert", "link", "init"}
  BY DEF Begins, Call, DecodeFails, Decodes, FindThrows, Find, InsertReads, InsertWrites, TypeOK,
         Goto, Return
<1>4. wpc'[w] \notin {"idle", "decode", "find"} => index'[w] \in Containers
  BY DEF Begins, Call, DecodeFails, Decodes, FindThrows, Find, InsertReads, InsertWrites, TypeOK,
         Goto, Return, callVars, PlacesInv, Labels
<1>5. \A c \in Containers : made[c] \in Nat /\ made'[c] \in Nat /\ made'[c] >= made[c]
  BY <1>1 DEF TypeOK
<1> QED BY <1>1, <1>2, <1>3, <1>4, <1>5, PlacesMoves

LEMMA InitializesPlaces ==
  ASSUME TypeOK, PlacesInv, NEW w \in Workers, Initializes(w)
  PROVE  PlacesInv'
<1> USE DEF Goto, Return
<1>1. /\ index[w] \in Containers /\ app = "running" /\ UNCHANGED <<index, appVars>>
      /\ wpc \in [Workers -> Labels] /\ uses \in [Workers -> Nat]
  BY DEF Initializes, PlacesInv, InitBegins, SetsUp, SetUpFails, LoadBegins, LoadsParam, LoadsModel,
         LoadsFile, SessionIsMade, InitThrows, LoadFails, DeinitReads, Deletes, Forgets, Labels,
         InitLabels, callVars, TypeOK
<1>2. \A c \in Containers : made[c] \in Nat /\ made'[c] \in Nat /\ made'[c] >= made[c]
  <2>1. UNCHANGED made \/ made' = [made EXCEPT ![index[w]] = made[index[w]] + 1]
    BY DEF Initializes, InitBegins, SetsUp, SetUpFails, LoadBegins, LoadsParam, LoadsModel, LoadsFile,
           SessionIsMade, InitThrows, LoadFails, DeinitReads, Deletes, Forgets, modelVars, MakesModel
  <2> QED BY <1>1, <2>1 DEF TypeOK
<1>3. CASE UNCHANGED uses /\ ~ LoadBegins(w) /\ ~ DeinitReads(w)
  <2>1. PICK label \in Labels : wpc' = [wpc EXCEPT ![w] = label]
    BY DEF Initializes, InitBegins, SetsUp, SetUpFails, LoadBegins, LoadsParam, LoadsModel, LoadsFile,
           SessionIsMade, InitThrows, LoadFails, DeinitReads, Deletes, Forgets, Labels, InitLabels
  <2>2. (\A v \in Others(w) : wpc'[v] = wpc[v]) /\ wpc'[w] = label
    BY <1>1, <2>1 DEF Others
  <2>3. /\ wpc'[w] \in {"setup", "param", "weights"} => index[w] \in Early
        /\ wpc'[w] \in {"file", "session"} => index[w] \notin Early
        /\ wpc'[w] \notin {"inParam", "inModel", "delete", "build", "process"}
    BY <1>1, <1>3 DEF Initializes, InitBegins, SetsUp, SetUpFails, LoadsParam, LoadsModel,
           LoadsFile, SessionIsMade, InitThrows, LoadFails, Deletes, Forgets, PlacesInv
  <2> QED BY <1>1, <1>2, <1>3, <2>2, <2>3, PlacesMoves
<1>4. CASE LoadBegins(w) \/ DeinitReads(w)
  <2>1. /\ \A v \in Others(w) : wpc'[v] = wpc[v] /\ uses'[v] = uses[v]
        /\ wpc'[w] \in {"inParam", "inModel", "acquire", "delete"}
        /\ wpc'[w] \in {"inParam", "inModel"} => index[w] \in Early
        /\ uses'[w] = model[index[w]]
        /\ made' = made
    BY <1>1, <1>4 DEF LoadBegins, DeinitReads, Others, PlacesInv, modelVars
  <2>2. model[index[w]] <= made[index[w]]
    BY <1>1 DEF TypeOK
  <2> QED BY <1>1, <1>2, <2>1, <2>2, PlacesMoves
<1> QED BY <1>3, <1>4 DEF Initializes, InitBegins, SetsUp, SetUpFails, LoadsParam, LoadsModel,
           LoadsFile, SessionIsMade, InitThrows, LoadFails, Deletes, Forgets, workVars

LEMMA ProcessesPlaces ==
  ASSUME TypeOK, PlacesInv, NEW w \in Workers, Processes(w) \/ Crash(w)
  PROVE  PlacesInv'
<1>1. CASE Crash(w)
  BY <1>1 DEF Crash, PlacesInv, TypeOK
<1>2. CASE Processes(w)
  <2>1. /\ index[w] \in Containers /\ app = "running" /\ UNCHANGED <<index, made, appVars>>
        /\ wpc \in [Workers -> Labels] /\ uses \in [Workers -> Nat]
    BY <1>2 DEF Processes, TryAcquireFails, TryAcquire, Builds, Process, PlacesInv, Labels, callVars,
                modelVars, TypeOK
  <2>2. /\ \A v \in Others(w) : wpc'[v] = wpc[v] /\ uses'[v] = uses[v]
        /\ wpc'[w] \in {"idle", "build", "process"}
        /\ wpc'[w] # "idle" => uses'[w] = model[index[w]] \/ (wpc[w] = "build" /\ uses'[w] = uses[w])
    BY <1>2, <2>1 DEF Processes, TryAcquireFails, TryAcquire, Builds, Process, Others, Goto, Return,
                      workVars
  <2>3. \A c \in Containers : made[c] \in Nat /\ model[c] <= made[c]
    BY DEF TypeOK
  <2>4. wpc'[w] # "idle" => uses'[w] <= made'[index[w]]
    BY <2>1, <2>2, <2>3 DEF PlacesInv
  <2> QED BY <2>1, <2>2, <2>3, <2>4, PlacesMoves
<1> QED BY <1>1, <1>2

LEMMA DeinitPlaces ==
  ASSUME TypeOK, PlacesInv, Deinit
  PROVE  PlacesInv'
<1>1. /\ UNCHANGED <<wpc, index, uses>> /\ app' # "running"
      /\ \A w \in Workers : wpc[w] \in {"idle", "crashed"}
  BY DEF Deinit, DeinitBegins, DestroyContainer, DestroyThrows, ClearContainer, PlacesInv, callVars,
         workVars
<1> QED BY <1>1 DEF PlacesInv

LEMMA PlacesStep == TypeOK /\ PlacesInv /\ [Next]_vars => PlacesInv'
<1> SUFFICES ASSUME TypeOK, PlacesInv, [Next]_vars PROVE PlacesInv'
  OBVIOUS
<1>1. CASE UNCHANGED vars
  BY <1>1 DEF PlacesInv, vars, modelVars, callVars, workVars, appVars
<1> QED BY <1>1, BeginsPlaces, InitializesPlaces, ProcessesPlaces, DeinitPlaces DEF Next

-----------------------------------------------------------------------------
(* The set of initialised indices                                          *)

\* What the set knows and who is in it do not change.
LEMMA SetMoves ==
  ASSUME InitializerInv, NEW w \in Workers, app = "running",
         UNCHANGED <<initialized, snapshot, raced, inits>>,
         \A v \in Others(w) : wpc'[v] = wpc[v] /\ index'[v] = index[v],
         wpc'[w] \notin {"insert", "link", "init"}
  PROVE  InitializerInv'
<1>1. SecondInitNeedsRace'
  BY DEF InitializerInv, SecondInitNeedsRace
<1>2. ASSUME SetIsExact PROVE SetIsExact'
  <2>1. ASSUME NEW v \in Workers, wpc'[v] \in {"insert", "link", "init"}
        PROVE  wpc[v] = wpc'[v] /\ index[v] = index'[v]
    BY <2>1 DEF Others
  <2> QED BY <1>2, <2>1 DEF SetIsExact
<1> QED BY <1>1, <1>2 DEF InitializerInv

LEMMA FindSet ==
  ASSUME TypeOK, InitializerInv, app = "running", NEW w \in Workers, Find(w)
  PROVE  InitializerInv'
<1>1. /\ \A v \in Others(w) : wpc'[v] = wpc[v] /\ index'[v] = index[v]
      /\ UNCHANGED <<initialized, snapshot, inits, index, app>>
      /\ raced => raced'
      /\ \/ wpc'[w] = "acquire" /\ UNCHANGED raced
         \/ wpc'[w] = "insert" /\ (raced' \/ (~ Inserting(w) /\ index[w] \notin initialized))
  <2>1. /\ UNCHANGED <<initialized, snapshot, inits, index, app>>
        /\ \A v \in Others(w) : index'[v] = index[v]
    BY DEF Find, callVars, initVars, appVars
  <2>2. wpc' = [wpc EXCEPT ![w] = wpc'[w]]
    BY DEF Find, Goto, TypeOK
  <2>3. \A v \in Others(w) : wpc'[v] = wpc[v]
    BY <2>2 DEF TypeOK, Others
  <2>4. Linking(w) => Inserting(w)
    BY DEF Linking, Inserting
  <2>5. raced => raced'
    BY DEF Find
  <2>6. \/ wpc'[w] = "acquire" /\ UNCHANGED raced
        \/ /\ wpc'[w] = "insert" /\ (Inserting(w) => raced')
           /\ index[w] \notin initialized \/ Linking(w)
    BY DEF Find, Goto, TypeOK
  <2> QED BY <2>1, <2>3, <2>4, <2>5, <2>6
<1>2. CASE wpc'[w] = "acquire" /\ UNCHANGED raced
  BY <1>1, <1>2, SetMoves
<1>3. CASE wpc'[w] = "insert" /\ ~ raced'
  <2>1. SetIsExact /\ SecondInitNeedsRace /\ ~ Inserting(w) /\ index[w] \notin initialized
    BY <1>1, <1>3 DEF InitializerInv
  <2>2. \A v \in Workers : wpc'[v] \in {"insert", "link"} => v = w
    BY <1>1, <2>1 DEF Inserting, Others
  <2>3. \A v \in Workers : v # w => wpc'[v] = wpc[v] /\ index'[v] = index[v]
    BY <1>1 DEF Others
  <2>4. SetIsExact'
    BY <1>1, <1>3, <2>1, <2>2, <2>3 DEF SetIsExact
  <2> QED BY <1>1, <2>1, <2>4 DEF InitializerInv, SecondInitNeedsRace
<1> QED BY <1>1, <1>2, <1>3 DEF InitializerInv, SecondInitNeedsRace

\* Without a race insert writes what it has read.
LEMMA InsertSet ==
  ASSUME TypeOK, PlacesInv, InitializerInv, app = "running", NEW w \in Workers,
         InsertReads(w) \/ InsertWrites(w)
  PROVE  InitializerInv'
<1>1. /\ UNCHANGED <<raced, inits, index, app>>
      /\ \A v \in Workers : v # w => wpc'[v] = wpc[v] /\ snapshot'[v] = snapshot[v]
      /\ wpc[w] \in {"insert", "link"}
  BY DEF InsertReads, InsertWrites, TypeOK, Goto, initVars, callVars, appVars
<1>2. CASE raced
  BY <1>1, <1>2 DEF InitializerInv, SecondInitNeedsRace
<1>3. CASE ~ raced
  <2>1. SetIsExact /\ SecondInitNeedsRace
    BY <1>3 DEF InitializerInv
  <2>2. /\ index[w] \notin initialized
        /\ \A v \in Workers : wpc[v] \in {"insert", "link"} => v = w
    BY <1>1, <2>1 DEF SetIsExact
  <2>3. CASE InsertReads(w)
    <3>1. wpc'[w] = "link" /\ snapshot'[w] = initialized /\ initialized' = initialized
      BY <2>3 DEF InsertReads, Goto, TypeOK
    <3>2. SetIsExact'
      BY <1>1, <2>1, <2>2, <3>1 DEF SetIsExact
    <3> QED BY <1>1, <2>1, <3>2 DEF InitializerInv, SecondInitNeedsRace
  <2>4. CASE InsertWrites(w)
    <3>1. snapshot[w] = initialized
      BY <2>1, <2>4 DEF InsertWrites, SetIsExact
    <3>2. wpc'[w] = "init" /\ initialized' = initialized \cup {index[w]}
      BY <2>4, <3>1 DEF InsertWrites, Goto, TypeOK
    <3>3. inits[index[w]] = 0
      BY <2>1, <2>2, <2>4 DEF SetIsExact, InsertWrites, PlacesInv, Labels
    <3>4. SetIsExact'
      BY <1>1, <2>1, <2>2, <3>2, <3>3 DEF SetIsExact
    <3> QED BY <1>1, <2>1, <3>4 DEF InitializerInv, SecondInitNeedsRace
  <2> QED BY <2>3, <2>4
<1> QED BY <1>2, <1>3

LEMMA InitBeginsSet ==
  ASSUME TypeOK, PlacesInv, InitializerInv, app = "running", NEW w \in Workers, InitBegins(w)
  PROVE  InitializerInv'
<1> DEFINE c == index[w]
<1>1. /\ UNCHANGED <<raced, initialized, snapshot, index, app>>
      /\ \A v \in Workers : v # w => wpc'[v] = wpc[v]
      /\ wpc[w] = "init" /\ wpc'[w] \in {"setup", "file"}
      /\ inits' = [inits EXCEPT ![c] = inits[c] + 1] /\ c \in Containers
  BY DEF InitBegins, TypeOK, PlacesInv, Labels, Goto, CountsInit, setVars, callVars, appVars
<1>2. CASE raced
  BY <1>1, <1>2 DEF InitializerInv, SecondInitNeedsRace
<1>3. CASE ~ raced
  <2>1. SetIsExact /\ SecondInitNeedsRace
    BY <1>3 DEF InitializerInv
  <2>2. c \in initialized /\ inits[c] = 0 /\ \A v \in Workers : wpc[v] = "init" /\ index[v] = c => v = w
    BY <1>1, <2>1 DEF SetIsExact
  <2>3. inits \in [Containers -> Nat]
    BY DEF TypeOK
  <2>4. \A d \in Containers : inits'[d] = IF d = c THEN 1 ELSE inits[d]
    BY <1>1, <2>2, <2>3
  <2>5. \A v \in Workers : wpc[v] = "init" => index[v] \in Containers
    BY DEF PlacesInv, Labels
  <2>6. SetIsExact'
    BY <1>1, <2>1, <2>2, <2>4, <2>5 DEF SetIsExact
  <2> QED BY <1>1, <2>1, <2>4, <2>6 DEF InitializerInv, SecondInitNeedsRace
<1> QED BY <1>2, <1>3

LEMMA DeinitSet ==
  ASSUME TypeOK, PlacesInv, InitializerInv, Deinit
  PROVE  InitializerInv'
<1>1. /\ UNCHANGED <<raced, snapshot, wpc, index>>
      /\ \A w \in Workers : wpc[w] \in {"idle", "crashed"}
  BY DEF Deinit, DeinitBegins, DestroyContainer, DestroyThrows, ClearContainer, PlacesInv, setVars,
         callVars
<1>2. CASE DeinitBegins
  BY <1>1, <1>2 DEF DeinitBegins, InitializerInv, SecondInitNeedsRace, SetIsExact, setVars, initVars
<1>3. ASSUME NEW c \in Containers, DestroyContainer(c) \/ DestroyThrows(c) PROVE InitializerInv'
  <2>1. CASE raced
    BY <1>1, <2>1 DEF InitializerInv, SecondInitNeedsRace
  <2>2. CASE ~ raced
    <3>1. app = "destroying" /\ SetIsExact /\ SecondInitNeedsRace
      BY <1>3, <2>2 DEF InitializerInv, DestroyContainer, DestroyThrows
    <3>2. initialized' = initialized \cup {c} /\ inits \in [Containers -> Nat]
      BY <1>3 DEF DestroyContainer, DestroyThrows, TypeOK
    <3>3. \A d \in Containers :
            inits'[d] = IF d = c /\ c \notin initialized THEN inits[d] + 1 ELSE inits[d]
      BY <1>3, <3>2 DEF DestroyContainer, DestroyThrows
    <3>4. \A d \in Containers : inits'[d] <= 1 /\ (d \notin initialized' => inits'[d] = 0)
      BY <2>2, <3>1, <3>2, <3>3 DEF SetIsExact, SecondInitNeedsRace
    <3> QED BY <1>1, <3>4 DEF InitializerInv, SecondInitNeedsRace, SetIsExact
  <2> QED BY <2>1, <2>2
<1>4. ASSUME NEW c \in Containers, ClearContainer(c) PROVE InitializerInv'
  BY <1>1, <1>4 DEF ClearContainer, InitializerInv, SecondInitNeedsRace, initVars
<1> QED BY <1>2, <1>3, <1>4 DEF Deinit

LEMMA SetStep == TypeOK /\ PlacesInv /\ InitializerInv /\ [Next]_vars => InitializerInv'
<1> SUFFICES ASSUME TypeOK, PlacesInv, InitializerInv, [Next]_vars PROVE InitializerInv'
  OBVIOUS
<1>1. CASE UNCHANGED vars
  BY <1>1 DEF InitializerInv, SecondInitNeedsRace, SetIsExact, vars, setVars, initVars, callVars,
              appVars
<1>2. ASSUME NEW w \in Workers, Begins(w) PROVE InitializerInv'
  <2>1. app = "running"
    BY <1>2 DEF Begins, Call, DecodeFails, Decodes, FindThrows, Find, InsertReads, InsertWrites,
                PlacesInv
  <2>2. CASE Find(w) \/ InsertReads(w) \/ InsertWrites(w)
    BY <2>1, <2>2, FindSet, InsertSet
  <2>3. CASE (\E i \in Containers \cup {Unknown} : Call(w, i)) \/ DecodeFails(w) \/ Decodes(w)
             \/ FindThrows(w)
    <3>1. UNCHANGED <<initialized, snapshot, raced, inits>>
      BY <2>3 DEF Call, DecodeFails, Decodes, FindThrows, setVars, initVars
    <3>2. /\ \A v \in Others(w) : wpc'[v] = wpc[v] /\ index'[v] = index[v]
          /\ wpc'[w] \in {"decode", "find", "idle"}
      BY <2>3 DEF Call, DecodeFails, Decodes, FindThrows, Goto, Return, callVars, TypeOK, Others
    <3> QED BY <2>1, <3>1, <3>2, SetMoves
  <2> QED BY <1>2, <2>2, <2>3 DEF Begins
<1>3. ASSUME NEW w \in Workers, Initializes(w) \/ Processes(w), ~ InitBegins(w)
      PROVE  InitializerInv'
  <2>1. app = "running" /\ UNCHANGED <<initialized, snapshot, raced, inits, index>>
    BY <1>3 DEF Initializes, Processes, PlacesInv, SetsUp, SetUpFails, LoadBegins, LoadsParam,
         LoadsModel, LoadsFile, SessionIsMade, InitThrows, LoadFails, DeinitReads, Deletes, Forgets,
         TryAcquireFails, TryAcquire, Builds, Process, Fails, setVars, initVars, callVars
  <2>2. PICK label \in Labels \ {"insert", "link", "init"} : wpc' = [wpc EXCEPT ![w] = label]
    BY <1>3 DEF Initializes, Processes, SetsUp, SetUpFails, LoadBegins, LoadsParam,
         LoadsModel, LoadsFile, SessionIsMade, InitThrows, LoadFails, DeinitReads, Deletes, Forgets,
         TryAcquireFails, TryAcquire, Builds, Process, Goto, Return, Labels, InitLabels
  <2> QED BY <2>1, <2>2, SetMoves DEF TypeOK, Others
<1>4. ASSUME NEW w \in Workers, InitBegins(w) PROVE InitializerInv'
  BY <1>4, InitBeginsSet DEF InitBegins, PlacesInv
<1>5. ASSUME NEW w \in Workers, Crash(w) PROVE InitializerInv'
  BY <1>5 DEF Crash, InitializerInv, SecondInitNeedsRace, setVars, initVars
<1> QED BY <1>1, <1>2, <1>3, <1>4, <1>5, DeinitSet DEF Next

-----------------------------------------------------------------------------
(* Models                                                                  *)

\* A step of a worker that is not in an init leaves the models alone.
LEMMA CallModels ==
  ASSUME TypeOK, PlacesInv, ModelsInv, NEW w \in Workers, Begins(w) \/ Processes(w)
  PROVE  ModelsInv'
<1>1. app = "running" /\ UNCHANGED <<made, model, loaded, freed, inits, app>>
  BY DEF Begins, Call, DecodeFails, Decodes, FindThrows, Find, InsertReads, InsertWrites, Processes,
         TryAcquireFails, TryAcquire, Builds, Process, PlacesInv, modelVars, initVars, appVars
<1>2. \A v \in Workers : v # w => wpc'[v] = wpc[v] /\ index'[v] = index[v] /\ uses'[v] = uses[v]
  BY DEF Begins, Call, DecodeFails, Decodes, FindThrows, Find, InsertReads, InsertWrites, Processes,
         TryAcquireFails, TryAcquire, Builds, Process, TypeOK, Goto, Return, callVars, workVars
<1>3. wpc[w] \notin InitLabels /\ wpc'[w] \notin InitLabels
  BY DEF Begins, Call, DecodeFails, Decodes, FindThrows, Find, InsertReads, InsertWrites, Processes,
         TryAcquireFails, TryAcquire, Builds, Process, TypeOK, Goto, Return, InitLabels
<1>4. wpc'[w] \in {"build", "process"} => made[index'[w]] # 0
  <2>1. CASE TryAcquire(w)
    BY <2>1 DEF TryAcquire, TypeOK, PlacesInv, Labels, callVars
  <2>2. CASE ~ TryAcquire(w)
    BY <2>2 DEF Begins, Call, DecodeFails, Decodes, FindThrows, Find, InsertReads, InsertWrites,
         Processes, TryAcquireFails, Builds, Process, TypeOK, Goto, Return, callVars, ModelsInv
  <2> QED BY <2>1, <2>2
<1>5. ASSUME NEW v \in Workers, NEW c \in Containers
      PROVE  /\ Completes(v, c) => Completes(v, c)'
             /\ index[v] = c /\ wpc[v] = "null" => index'[v] = c /\ wpc'[v] = "null"
  BY <1>1, <1>2, <1>3 DEF Completes, InInit, InitLabels
<1>6. \A c \in Containers :
        /\ (\E v \in Workers : Completes(v, c)) => \E v \in Workers : Completes(v, c)'
        /\ (\E v \in Workers : index[v] = c /\ wpc[v] = "null") =>
             \E v \in Workers : index'[v] = c /\ wpc'[v] = "null"
  BY <1>5
<1>7. \A v \in Workers :
        /\ wpc'[v] \in InitLabels => inits'[index'[v]] # 0
        /\ wpc'[v] \in {"build", "process"} => made'[index'[v]] # 0
  BY <1>1, <1>2, <1>3, <1>4 DEF ModelsInv
<1>8. \A c \in Containers :
        /\ made'[c] # 0 => inits'[c] # 0
        /\ c \notin Early /\ model'[c] # 0 => model'[c] \in loaded'[c]
        /\ app' = "running" /\ model'[c] \notin {0} \cup loaded'[c] =>
             \E v \in Workers : Completes(v, c)'
        /\ app' = "running" /\ model'[c] \in freed'[c] =>
             \E v \in Workers : index'[v] = c /\ wpc'[v] = "null"
  BY <1>1, <1>6 DEF ModelsInv
<1> QED BY <1>7, <1>8 DEF ModelsInv

\* A step of an init concerns its container.
LEMMA OwnModel ==
  ASSUME TypeOK, PlacesInv, ModelsInv, NEW w \in Workers, NEW c \in Containers, index[w] = c,
         app = "running", UNCHANGED <<app, index>>,
         \A v \in Others(w) : wpc'[v] = wpc[v] /\ uses'[v] = uses[v],
         \A d \in Containers \ {c} :
           /\ made'[d] = made[d] /\ model'[d] = model[d] /\ inits'[d] = inits[d]
           /\ loaded'[d] = loaded[d] /\ freed'[d] = freed[d],
         inits'[c] # 0, made[c] # 0 => made'[c] # 0, wpc'[w] \notin {"build", "process"},
         c \notin Early /\ model'[c] # 0 => model'[c] \in loaded'[c],
         model'[c] \notin {0} \cup loaded'[c] => \E v \in Workers : Completes(v, c)',
         model'[c] \in freed'[c] => \E v \in Workers : index'[v] = c /\ wpc'[v] = "null"
  PROVE  ModelsInv'
<1>1. ASSUME NEW d \in Containers \ {c}, NEW v \in Workers
      PROVE  /\ Completes(v, d) => Completes(v, d)'
             /\ index[v] = d /\ wpc[v] = "null" => index'[v] = d /\ wpc'[v] = "null"
  BY DEF Completes, InInit, Others
<1>2. \A d \in Containers \ {c} :
        /\ (\E v \in Workers : Completes(v, d)) => \E v \in Workers : Completes(v, d)'
        /\ (\E v \in Workers : index[v] = d /\ wpc[v] = "null") =>
             \E v \in Workers : index'[v] = d /\ wpc'[v] = "null"
  BY <1>1
<1>3. \A d \in Containers :
        /\ made'[d] # 0 => inits'[d] # 0
        /\ d \notin Early /\ model'[d] # 0 => model'[d] \in loaded'[d]
        /\ app' = "running" /\ model'[d] \notin {0} \cup loaded'[d] =>
             \E v \in Workers : Completes(v, d)'
        /\ app' = "running" /\ model'[d] \in freed'[d] =>
             \E v \in Workers : index'[v] = d /\ wpc'[v] = "null"
  BY <1>2 DEF ModelsInv
<1>4. ASSUME NEW v \in Workers
      PROVE  /\ wpc'[v] \in InitLabels => inits'[index'[v]] # 0
             /\ wpc'[v] \in {"build", "process"} => made'[index'[v]] # 0
  <2>1. CASE v = w
    BY <2>1
  <2>2. CASE v # w
    <3>1. /\ wpc'[v] = wpc[v] /\ index'[v] = index[v]
          /\ wpc[v] \in InitLabels => inits[index[v]] # 0
          /\ wpc[v] \in {"build", "process"} => made[index[v]] # 0
          /\ index[v] \in Containers \cup {Unknown}
      BY <2>2 DEF Others, ModelsInv, TypeOK
    <3>2. CASE index[v] \in Containers
      BY <3>1, <3>2
    <3>3. CASE index[v] \notin Containers
      BY <3>1, <3>3 DEF PlacesInv, Labels, InitLabels
    <3> QED BY <3>2, <3>3
  <2> QED BY <2>1, <2>2
<1> QED BY <1>3, <1>4 DEF ModelsInv

\* What every step of an init leaves alone.
LEMMA InitFrame ==
  ASSUME TypeOK, PlacesInv, ModelsInv, NEW w \in Workers, Initializes(w)
  PROVE  /\ app = "running" /\ UNCHANGED <<app, index>> /\ index[w] \in Containers
         /\ wpc[w] \in InitLabels \cup {"init"}
         /\ \A v \in Others(w) : wpc'[v] = wpc[v] /\ uses'[v] = uses[v]
         /\ \A d \in Containers \ {index[w]} :
              /\ made'[d] = made[d] /\ model'[d] = model[d] /\ inits'[d] = inits[d]
              /\ loaded'[d] = loaded[d] /\ freed'[d] = freed[d]
         /\ inits'[index[w]] # 0
         /\ made[index[w]] # 0 => made'[index[w]] # 0
<1> USE DEF Goto, Return
<1>1. /\ app = "running" /\ UNCHANGED <<app, index>> /\ index[w] \in Containers
      /\ wpc[w] \in InitLabels \cup {"init"}
  BY DEF Initializes, PlacesInv, InitBegins, SetsUp, SetUpFails, LoadBegins, LoadsParam, LoadsModel,
         LoadsFile, SessionIsMade, InitThrows, LoadFails, DeinitReads, Deletes, Forgets, Labels,
         InitLabels, callVars, appVars
<1>2. /\ wpc \in [Workers -> Labels] /\ uses \in [Workers -> Nat]
      /\ made \in [Containers -> Nat] /\ model \in [Containers -> Nat]
      /\ inits \in [Containers -> Nat]
      /\ loaded \in [Containers -> SUBSET Nat] /\ freed \in [Containers -> SUBSET Nat]
  BY DEF TypeOK
<1>3. \E label \in Labels : wpc' = [wpc EXCEPT ![w] = label]
  BY DEF Initializes, InitBegins, SetsUp, SetUpFails, LoadBegins, LoadsParam, LoadsModel, LoadsFile,
         SessionIsMade, InitThrows, LoadFails, DeinitReads, Deletes, Forgets, Labels, InitLabels
<1>4. \E m : uses' = [uses EXCEPT ![w] = m] \/ uses' = uses
  BY DEF Initializes, InitBegins, SetsUp, SetUpFails, LoadBegins, LoadsParam, LoadsModel, LoadsFile,
         SessionIsMade, InitThrows, LoadFails, DeinitReads, Deletes, Forgets, workVars
<1>5. \E m : model' = [model EXCEPT ![index[w]] = m] \/ model' = model
  BY DEF Initializes, InitBegins, SetsUp, SetUpFails, LoadBegins, LoadsParam, LoadsModel, LoadsFile,
         SessionIsMade, InitThrows, LoadFails, DeinitReads, Deletes, Forgets, modelVars, MakesModel
<1>6. made' = [made EXCEPT ![index[w]] = made[index[w]] + 1] \/ made' = made
  BY DEF Initializes, InitBegins, SetsUp, SetUpFails, LoadBegins, LoadsParam, LoadsModel, LoadsFile,
         SessionIsMade, InitThrows, LoadFails, DeinitReads, Deletes, Forgets, modelVars, MakesModel
<1>7. \E s : loaded' = [loaded EXCEPT ![index[w]] = s] \/ loaded' = loaded
  BY DEF Initializes, InitBegins, SetsUp, SetUpFails, LoadBegins, LoadsParam, LoadsModel, LoadsFile,
         SessionIsMade, InitThrows, LoadFails, DeinitReads, Deletes, Forgets, modelVars
<1>8. \E s : freed' = [freed EXCEPT ![index[w]] = s] \/ freed' = freed
  BY DEF Initializes, InitBegins, SetsUp, SetUpFails, LoadBegins, LoadsParam, LoadsModel, LoadsFile,
         SessionIsMade, InitThrows, LoadFails, DeinitReads, Deletes, Forgets, modelVars
<1>9. \/ wpc[w] = "init" /\ inits' = [inits EXCEPT ![index[w]] = inits[index[w]] + 1]
      \/ wpc[w] \in InitLabels /\ inits' = inits
  BY DEF Initializes, InitBegins, SetsUp, SetUpFails, LoadBegins, LoadsParam, LoadsModel, LoadsFile,
         SessionIsMade, InitThrows, LoadFails, DeinitReads, Deletes, Forgets, initVars, CountsInit,
         Fails, InitLabels
<1>10. inits'[index[w]] # 0
  BY <1>1, <1>2, <1>9 DEF ModelsInv
<1>11. made[index[w]] # 0 => made'[index[w]] # 0
  BY <1>1, <1>2, <1>6
<1> QED BY <1>1, <1>2, <1>3, <1>4, <1>5, <1>6, <1>7, <1>8, <1>9, <1>10, <1>11 DEF Others

LEMMA InitializesModels ==
  ASSUME TypeOK, PlacesInv, ModelsInv, NEW w \in Workers, Initializes(w)
  PROVE  ModelsInv'
<1> DEFINE c == index[w]
           Exact == c \notin Early /\ model'[c] # 0 => model'[c] \in loaded'[c]
           Completed == model'[c] \notin {0} \cup loaded'[c] => \E v \in Workers : Completes(v, c)'
           Cleared == model'[c] \in freed'[c] => \E v \in Workers : index'[v] = c /\ wpc'[v] = "null"
           Goal == Exact /\ Completed /\ Cleared /\ wpc'[w] \notin {"build", "process"}
<1> USE DEF Goto
<1>1. /\ app = "running" /\ UNCHANGED index /\ c \in Containers
      /\ wpc[w] \in InitLabels \cup {"init"}
      /\ \A v \in Others(w) : wpc'[v] = wpc[v] /\ uses'[v] = uses[v]
  BY InitFrame
<1>2. /\ wpc \in [Workers -> Labels] /\ uses \in [Workers -> Nat]
      /\ made \in [Containers -> Nat] /\ model \in [Containers -> Nat]
      /\ loaded \in [Containers -> SUBSET Nat] /\ freed \in [Containers -> SUBSET Nat]
      /\ loaded[c] \subseteq 0..made[c] /\ freed[c] \subseteq 1..made[c]
  BY <1>1 DEF TypeOK
<1>3. ASSUME NEW v \in Others(w), model'[c] = model[c]
      PROVE  /\ Completes(v, c) => Completes(v, c)'
             /\ index[v] = c /\ wpc[v] = "null" => index'[v] = c /\ wpc'[v] = "null"
  BY <1>1, <1>3 DEF Completes, InInit
<1>4. ASSUME model'[c] = model[c], freed'[c] = freed[c], wpc[w] # "null" PROVE Cleared
  BY <1>1, <1>3, <1>4 DEF ModelsInv, Others
<1>5. ASSUME InitBegins(w) /\ c \in Early PROVE Goal
  <2>1. /\ made'[c] = made[c] + 1 /\ model'[c] = made[c] + 1 /\ freed'[c] = freed[c]
        /\ wpc'[w] = "setup"
    BY <1>1, <1>2, <1>5 DEF InitBegins, MakesModel
  <2>2. Completed /\ Cleared
    BY <1>1, <1>2, <2>1 DEF Completes, InInit, InitLabels
  <2> QED BY <1>5, <2>1, <2>2
<1>6. ASSUME (InitBegins(w) /\ c \notin Early) \/ LoadsFile(w) \/ InitThrows(w) PROVE Goal
  <2>1. /\ UNCHANGED <<model, loaded, freed>> /\ wpc[w] \in {"init", "file", "session"}
        /\ wpc'[w] \notin {"build", "process"}
    BY <1>2, <1>6 DEF InitBegins, LoadsFile, InitThrows, Return, modelVars
  <2>2. ~ Completes(w, c)
    BY <2>1 DEF Completes, InInit, InitLabels
  <2>3. Exact /\ Completed
    BY <1>1, <1>3, <2>1, <2>2 DEF ModelsInv, Others
  <2> QED BY <1>4, <2>1, <2>3
\* The worker goes on to complete the model, or to clear the pointer.
<1>7. ASSUME SetsUp(w) \/ LoadFails(w) \/ LoadsParam(w) \/ LoadBegins(w) \/ (DeinitReads(w) /\ model[c] # 0) PROVE Goal
  <2>1. /\ UNCHANGED <<model, freed>> /\ loaded'[c] \subseteq loaded[c]
        /\ wpc[w] # "null"
        /\ wpc'[w] \in {"param", "deinit", "weights", "inParam", "inModel", "delete"}
        /\ wpc'[w] = "inModel" => uses'[w] = model[c]
    BY <1>1, <1>2, <1>7 DEF SetsUp, LoadFails, LoadsParam, LoadBegins, DeinitReads, modelVars
  <2>2. Completes(w, c)'
    BY <1>1, <2>1 DEF Completes, InInit, InitLabels
  <2>3. c \notin Early => loaded'[c] = loaded[c]
    BY <1>1, <1>7 DEF SetsUp, LoadFails, LoadsParam, LoadBegins, DeinitReads, modelVars, PlacesInv
  <2>4. Exact /\ Completed
    BY <1>1, <2>1, <2>2, <2>3 DEF ModelsInv
  <2> QED BY <1>4, <2>1, <2>4
\* The pointer is null, or becomes it.
<1>8. ASSUME SetUpFails(w) \/ (DeinitReads(w) /\ model[c] = 0) \/ Forgets(w) PROVE Goal
  <2>1. model'[c] = 0 /\ freed'[c] = freed[c] /\ wpc'[w] = "acquire"
    BY <1>1, <1>2, <1>8 DEF SetUpFails, DeinitReads, Forgets, modelVars
  <2>2. Exact /\ Completed /\ Cleared
    BY <1>2, <2>1
  <2> QED BY <2>1, <2>2
<1>9. ASSUME LoadsModel(w) PROVE Goal
  <2>1. /\ UNCHANGED <<model, freed>> /\ loaded'[c] = loaded[c] \cup {uses[w]}
        /\ wpc[w] = "inModel" /\ wpc'[w] = "acquire"
    BY <1>1, <1>2, <1>9 DEF LoadsModel
  <2>2. Exact /\ Completed
    <3>1. ASSUME model[c] \notin {0} \cup loaded'[c]
          PROVE  \E v \in Others(w) : Completes(v, c)
      <4>1. PICK v \in Workers : Completes(v, c)
        BY <1>1, <2>1, <3>1 DEF ModelsInv
      <4>2. v # w
        BY <2>1, <3>1, <4>1 DEF Completes
      <4> QED BY <4>1, <4>2 DEF Others
    <3>2. Completed
      BY <1>3, <2>1, <3>1 DEF Others
    <3> QED BY <1>1, <2>1, <3>2 DEF ModelsInv
  <2> QED BY <1>4, <2>1, <2>2
<1>10. ASSUME SessionIsMade(w) PROVE Goal
  <2>1. /\ model'[c] = made[c] + 1 /\ loaded'[c] = loaded[c] \cup {made[c] + 1}
        /\ freed'[c] = freed[c] /\ wpc'[w] = "acquire"
    BY <1>1, <1>2, <1>10 DEF SessionIsMade, MakesModel
  <2>2. Exact /\ Completed /\ Cleared
    BY <1>1, <1>2, <2>1
  <2> QED BY <2>1, <2>2
<1>11. ASSUME Deletes(w) PROVE Goal
  <2>1. UNCHANGED <<model, loaded>> /\ wpc'[w] = "null"
    BY <1>1, <1>2, <1>11 DEF Deletes
  <2>2. Completes(w, c)'
    BY <1>1, <2>1 DEF Completes, InInit, InitLabels
  <2>3. Exact /\ Completed /\ Cleared
    BY <1>1, <2>1, <2>2 DEF ModelsInv
  <2> QED BY <2>1, <2>3
<1>12. Goal
  BY <1>5, <1>6, <1>7, <1>8, <1>9, <1>10, <1>11 DEF Initializes
<1>13. PICK d \in Containers : d = c
  BY <1>1
<1> QED BY <1>12, <1>13, InitFrame, OwnModel

LEMMA ModelsStep == TypeOK /\ PlacesInv /\ ModelsInv /\ [Next]_vars => ModelsInv'
<1> SUFFICES ASSUME TypeOK, PlacesInv, ModelsInv, [Next]_vars PROVE ModelsInv'
  OBVIOUS
<1>1. CASE UNCHANGED vars
  BY <1>1 DEF ModelsInv, Completes, InInit, vars, modelVars, initVars, callVars, workVars, appVars
<1>2. ASSUME NEW w \in Workers, Crash(w) PROVE ModelsInv'
  BY <1>2 DEF Crash, ModelsInv, TypeOK, InitLabels, modelVars, initVars, callVars
<1>3. CASE Deinit
  <2>1. /\ UNCHANGED <<wpc, loaded, index>> /\ app' # "running"
        /\ \A w \in Workers : wpc[w] \in {"idle", "crashed"}
    BY <1>3 DEF Deinit, DeinitBegins, DestroyContainer, DestroyThrows, ClearContainer, PlacesInv,
                callVars, modelVars
  <2>2. \A c \in Containers :
          /\ made'[c] # 0 => inits'[c] # 0
          /\ model'[c] = 0 \/ model'[c] = model[c]
    <3>1. CASE DeinitBegins \/ \E c \in Containers : ClearContainer(c)
      BY <3>1 DEF DeinitBegins, ClearContainer, modelVars, initVars, ModelsInv
    <3>2. ASSUME NEW c \in Containers, DestroyThrows(c) PROVE <2>2!:
      BY <3>2 DEF DestroyThrows, modelVars, ModelsInv, TypeOK
    <3>3. ASSUME NEW c \in Containers, DestroyContainer(c) PROVE <2>2!:
      <4>1. /\ made \in [Containers -> Nat] /\ model \in [Containers -> Nat]
            /\ inits \in [Containers -> Nat] /\ model[c] <= made[c]
        BY DEF TypeOK
      <4>2. PICK last \in LastModels(c) :
              made' = [made EXCEPT ![c] = IF last > made[c] THEN last ELSE made[c]]
        BY <3>3 DEF DestroyContainer
      <4>3. CASE c \in initialized
        BY <3>3, <4>1, <4>2, <4>3 DEF DestroyContainer, LastModels, ModelsInv
      <4>4. CASE c \notin initialized
        BY <3>3, <4>1, <4>2, <4>4 DEF DestroyContainer, ModelsInv
      <4> QED BY <4>3, <4>4
    <3> QED BY <1>3, <3>1, <3>2, <3>3 DEF Deinit
  <2> QED BY <2>1, <2>2 DEF ModelsInv, InitLabels
<1> QED BY <1>1, <1>2, <1>3, CallModels, InitializesModels DEF Next

-----------------------------------------------------------------------------
(* Containers whose inits do not overlap                                   *)

\* What is known of a container nobody is in the init of.
LEMMA SettledModel ==
  ASSUME ModelsInv, app = "running", NEW c \in Containers, ~ BeingInit(c), model[c] # 0
  PROVE  model[c] \in loaded[c] /\ model[c] \notin freed[c]
BY DEF ModelsInv, BeingInit, Completes, InInit, InitLabels

\* A call, or the use of a processor: only its own worker gets something new.
LEMMA CallKeepsOthers ==
  ASSUME TypeOK, NEW w \in Workers, UNCHANGED <<modelVars, initVars>>,
         wpc[w] \notin InitLabels, wpc'[w] \notin InitLabels,
         \A v \in Others(w) : /\ wpc'[v] = wpc[v] /\ index'[v] = index[v] /\ uses'[v] = uses[v]
                              /\ hasty'[v] = hasty[v] /\ began'[v] = began[v],
         NEW c \in Containers, IsUndisturbed(c),
         index'[w] = c => IsServed(w)'
  PROVE  IsUndisturbed(c)'
<1>1. ASSUME NEW v \in Workers
      PROVE  /\ InInit(v, c)' <=> InInit(v, c)
             /\ InInit(v, c) => v \in Others(w)
  BY DEF InInit, Others
<1>2. BeingInit(c)' <=> BeingInit(c)
  BY <1>1 DEF BeingInit
<1>3. UNCHANGED <<made, model, loaded, freed, inits>>
  BY DEF modelVars, initVars
<1>4. InitIsAlone(c)'
  BY <1>1, <1>3 DEF IsUndisturbed, InitIsAlone
<1>5. ASSUME NEW v \in Others(w), index'[v] = c PROVE IsServed(v)'
  BY <1>2, <1>3, <1>5 DEF IsUndisturbed, IsServed, Relies, UsableModel, Others
<1>6. ASSUME NEW v \in Workers, index'[v] = c PROVE IsServed(v)'
  BY <1>5, <1>6 DEF Others
<1> QED BY <1>3, <1>4, <1>6 DEF IsUndisturbed

\* A step of an init of another container.
LEMMA InitKeepsOthers ==
  ASSUME TypeOK, PlacesInv, ModelsInv, NEW w \in Workers, Initializes(w),
         NEW c \in Containers, c # index[w], IsUndisturbed(c)
  PROVE  IsUndisturbed(c)'
<1>1. /\ UNCHANGED <<index, hasty, began>>
      /\ \A v \in Others(w) : wpc'[v] = wpc[v] /\ uses'[v] = uses[v]
      /\ made'[c] = made[c] /\ model'[c] = model[c] /\ inits'[c] = inits[c]
      /\ loaded'[c] = loaded[c] /\ freed'[c] = freed[c]
  BY InitFrame DEF Initializes, InitBegins, SetsUp, SetUpFails, LoadBegins, LoadsParam, LoadsModel,
         LoadsFile, SessionIsMade, InitThrows, LoadFails, DeinitReads, Deletes, Forgets, callVars,
         workVars
<1>2. ASSUME NEW v \in Workers
      PROVE  (InInit(v, c)' <=> InInit(v, c)) /\ (InInit(v, c) => v \in Others(w))
  BY <1>1 DEF InInit, Others
<1>3. BeingInit(c)' <=> BeingInit(c)
  BY <1>2 DEF BeingInit
<1>4. InitIsAlone(c)'
  BY <1>1, <1>2 DEF IsUndisturbed, InitIsAlone
<1>5. ASSUME NEW v \in Workers, index'[v] = c PROVE IsServed(v)'
  <2>1. v \in Others(w) /\ index[v] = c
    BY <1>1, <1>5 DEF Others
  <2> QED BY <1>1, <1>3, <2>1 DEF IsUndisturbed, IsServed, Relies, UsableModel
<1> QED BY <1>1, <1>4, <1>5 DEF IsUndisturbed

\* A container that is ready has had an init before the one that is under way.
LEMMA ReadyBefore ==
  ASSUME TypeOK, PlacesInv, ModelsInv, NEW c \in Containers, IsUndisturbed(c), BeingInit(c),
         model[c] # 0, c \in Early => model[c] \in loaded[c]
  PROVE  inits[c] > 1 /\ c \notin Early
<1>1. PICK w \in Workers : InInit(w, c)
  BY DEF BeingInit
<1>2. inits[c] \in Nat /\ inits[c] # 0
  BY <1>1 DEF TypeOK, ModelsInv, InInit
<1>3. c \notin Early /\ inits[c] # 1
  BY <1>1 DEF IsUndisturbed, InitIsAlone
<1> QED BY <1>2, <1>3

LEMMA CallsUndisturbed ==
  ASSUME TypeOK, PlacesInv, ModelsInv, NEW w \in Workers, Begins(w) \/ Processes(w),
         NEW c \in Containers, IsUndisturbed(c)
  PROVE  IsUndisturbed(c)'
<1> USE DEF Goto, Return
<1>1. app = "running" /\ UNCHANGED <<modelVars, initVars>>
  BY DEF Begins, Call, DecodeFails, Decodes, FindThrows, Find, InsertReads, InsertWrites, Processes,
         TryAcquireFails, TryAcquire, Builds, Process, PlacesInv
<1>2. \A v \in Others(w) : /\ wpc'[v] = wpc[v] /\ index'[v] = index[v] /\ uses'[v] = uses[v]
                           /\ hasty'[v] = hasty[v] /\ began'[v] = began[v]
  BY DEF Begins, Call, DecodeFails, Decodes, FindThrows, Find, InsertReads, InsertWrites, Processes,
         TryAcquireFails, TryAcquire, Builds, Process, TypeOK, callVars, workVars, Others
<1>3. wpc[w] \notin InitLabels /\ wpc'[w] \notin InitLabels
  BY DEF Begins, Call, DecodeFails, Decodes, FindThrows, Find, InsertReads, InsertWrites, Processes,
         TryAcquireFails, TryAcquire, Builds, Process, TypeOK, InitLabels
<1>4. BeingInit(c)' <=> BeingInit(c)
  <2>1. \A v \in Workers : InInit(v, c)' <=> InInit(v, c)
    BY <1>2, <1>3 DEF InInit, Others
  <2> QED BY <2>1 DEF BeingInit
<1>5. UNCHANGED <<made, model, loaded, freed, inits>>
  BY <1>1 DEF modelVars, initVars
<1>6. index[w] = c => ~ InInit(w, c)
  BY <1>3 DEF InInit
<1>7. index'[w] = c => IsServed(w)'
  <2> SUFFICES ASSUME index'[w] = c PROVE IsServed(w)'
    OBVIOUS
  <2>1. CASE \E i \in Containers \cup {Unknown} : Call(w, i)
    <3>1. wpc'[w] = "decode" /\ (began'[w] => Ready(c))
      BY <2>1 DEF Call, TypeOK
    <3>2. Ready(c) /\ BeingInit(c) => inits[c] > 1
      BY ReadyBefore DEF Ready
    <3> QED BY <1>4, <1>5, <3>1, <3>2 DEF IsServed, Relies, Ready
  <2>2. CASE DecodeFails(w) \/ Decodes(w) \/ FindThrows(w) \/ Find(w) \/ InsertReads(w)
             \/ InsertWrites(w) \/ TryAcquireFails(w) \/ Process(w)
    <3>1. /\ UNCHANGED <<index, began>> /\ wpc'[w] \notin {"build", "process"}
          /\ wpc[w] \notin {"idle", "crashed"}
      BY <2>2 DEF DecodeFails, Decodes, FindThrows, Find, InsertReads, InsertWrites,
                  TryAcquireFails, Process, TypeOK, callVars
    <3>2. Relies(w)' => Relies(w)
      BY <3>1 DEF Relies
    <3> QED BY <1>4, <1>5, <3>1, <3>2 DEF IsServed, IsUndisturbed
  <2>3. CASE TryAcquire(w)
    <3>1. /\ UNCHANGED <<index, began>> /\ wpc[w] = "acquire" /\ wpc'[w] = "build"
          /\ uses'[w] = model[c] /\ model[c] # 0 /\ hasty'[w] = IsHasty(w)
      BY <2>3 DEF TryAcquire, TypeOK, callVars
    <3>2. c \in Early /\ BeingInit(c) => hasty'[w]
      BY <1>6, <3>1 DEF IsHasty, BeingInit, Others
    <3>3. BeingInit(c) /\ c \notin Early => inits[c] > 1
      BY <3>1, ReadyBefore
    <3>4. ~ hasty'[w] => model[c] \in loaded[c] /\ model[c] \notin freed[c]
      BY <1>1, <3>1, <3>2, SettledModel DEF ModelsInv, IsUndisturbed
    <3>5. began'[w] => Relies(w)
      BY <3>1 DEF Relies
    <3> QED BY <1>4, <1>5, <3>1, <3>2, <3>3, <3>4, <3>5
            DEF IsServed, IsUndisturbed, Relies, UsableModel
  <2>4. CASE Builds(w)
    <3>1. /\ UNCHANGED <<index, began>> /\ wpc[w] = "build" /\ wpc'[w] = "process"
          /\ uses'[w] \in {uses[w], model[c]} /\ index[w] = c
      BY <2>4 DEF Builds, TypeOK, callVars
    <3>2. hasty'[w] = (hasty[w] \/ IsHasty(w))
      BY <2>4 DEF Builds, TypeOK
    <3>3. ~ hasty'[w] => ~ hasty[w] /\ ~ (c \in Early /\ BeingInit(c))
      BY <1>6, <3>1, <3>2 DEF IsHasty, BeingInit, Others
    <3>4. ~ hasty[w] \/ Relies(w)' => Relies(w)
      BY <3>1 DEF Relies
    <3>5. IsServed(w)
      BY <3>1 DEF IsUndisturbed
    <3>6. ~ hasty'[w] => model[c] \in loaded[c] /\ model[c] \notin freed[c]
      BY <1>1, <3>1, <3>3, <3>4, <3>5, SettledModel DEF ModelsInv, IsUndisturbed, IsServed
    <3>7. ~ hasty'[w] => uses'[w] \in loaded[c] /\ uses'[w] \notin freed[c]
      BY <3>1, <3>3, <3>5, <3>6 DEF IsServed, UsableModel
    <3>8. Relies(w) => model[c] # 0 /\ (BeingInit(c) => inits[c] > 1)
      BY <3>1, <3>5 DEF IsServed
    <3> QED BY <1>4, <1>5, <3>1, <3>3, <3>4, <3>7, <3>8 DEF IsServed, UsableModel
  <2> QED BY <2>1, <2>2, <2>3, <2>4 DEF Begins, Processes
<1> QED BY <1>1, <1>2, <1>3, <1>7, CallKeepsOthers

\* A step of an init of this container, which no other init overlaps.
LEMMA InitUndisturbed ==
  ASSUME TypeOK, PlacesInv, ModelsInv, NEW w \in Workers, Initializes(w),
         NEW c \in Containers, c = index[w], IsUndisturbed(c), c \notin disturbed'
  PROVE  IsUndisturbed(c)'
<1> USE DEF Goto, Return
<1>1. /\ UNCHANGED <<index, hasty, began>> /\ wpc[w] \in InitLabels \cup {"init"}
      /\ \A v \in Others(w) : wpc'[v] = wpc[v] /\ uses'[v] = uses[v]
  BY InitFrame DEF Initializes, InitBegins, SetsUp, SetUpFails, LoadBegins, LoadsParam, LoadsModel,
         LoadsFile, SessionIsMade, InitThrows, LoadFails, DeinitReads, Deletes, Forgets, callVars,
         workVars
<1>2. /\ wpc \in [Workers -> Labels] /\ uses \in [Workers -> Nat]
      /\ made \in [Containers -> Nat] /\ model \in [Containers -> Nat]
      /\ inits \in [Containers -> Nat]
      /\ loaded \in [Containers -> SUBSET Nat] /\ freed \in [Containers -> SUBSET Nat]
      /\ loaded[c] \subseteq 0..made[c] /\ freed[c] \subseteq 1..made[c] /\ model[c] <= made[c]
  BY DEF TypeOK
<1>3. ASSUME NEW v \in Others(w) PROVE ~ InInit(v, c)
  <2>1. CASE InitBegins(w)
    BY <1>3, <2>1 DEF InitBegins, CountsInit
  <2>2. CASE ~ InitBegins(w)
    <3>1. InInit(w, c)
      BY <2>2 DEF Initializes, SetsUp, SetUpFails, LoadBegins, LoadsParam, LoadsModel, LoadsFile,
         SessionIsMade, InitThrows, LoadFails, DeinitReads, Deletes, Forgets, InInit, InitLabels
    <3> QED BY <3>1 DEF IsUndisturbed, InitIsAlone, Others
  <2> QED BY <2>1, <2>2
<1>4. ASSUME NEW v \in Workers, InInit(v, c)' PROVE v = w
  BY <1>1, <1>3, <1>4 DEF InInit, Others
<1>5. BeingInit(c)' <=> InInit(w, c)'
  BY <1>4 DEF BeingInit
<1>6. wpc'[w] \notin {"build", "process"}
  BY <1>2 DEF Initializes, InitBegins, SetsUp, SetUpFails, LoadBegins, LoadsParam, LoadsModel,
         LoadsFile, SessionIsMade, InitThrows, LoadFails, DeinitReads, Deletes, Forgets
\* What the workers of the container have, and have after the step.
<1> DEFINE Has(v) == wpc[v] \in {"build", "process"} /\ ~ hasty[v]
<1>7. ASSUME NEW v \in Workers, index[v] = c
      PROVE  /\ IsServed(v)
             /\ Relies(v)' => Relies(v)
             /\ Has(v)' => Has(v) /\ v \in Others(w) /\ uses'[v] = uses[v]
  <2>1. Relies(v)' => Relies(v)
    BY <1>1, <1>6 DEF Relies, Others, InitLabels
  <2> QED BY <1>1, <1>6, <1>7, <2>1 DEF IsUndisturbed, Others
<1>8. InInit(w, c) => \A v \in Workers : index[v] = c /\ (Relies(v) \/ Has(v)) => inits[c] > 1
  BY <1>7 DEF IsServed, BeingInit
<1>9. CASE InitBegins(w)
  <2>1. /\ inits'[c] = inits[c] + 1 /\ UNCHANGED <<loaded, freed>>
        /\ \/ c \in Early /\ wpc'[w] = "setup" /\ made'[c] = made[c] + 1 /\ model'[c] = made[c] + 1
           \/ c \notin Early /\ wpc'[w] = "file" /\ UNCHANGED <<made, model>>
    BY <1>2, <1>9 DEF InitBegins, CountsInit, MakesModel
  <2>2. made[c] # 0 => inits[c] # 0
    BY DEF ModelsInv
  <2>3. InitIsAlone(c)'
    BY <1>1, <1>2, <1>4, <2>1, <2>2 DEF InitIsAlone, InInit
  <2>4. ASSUME NEW v \in Workers, index[v] = c PROVE IsServed(v)'
    <3>1. (Relies(v) => model[c] # 0) /\ (Has(v) => UsableModel(v) /\ made[c] # 0)
      BY <1>7, <2>4 DEF IsServed, ModelsInv
    <3>2. Has(v) => uses[v] <= made[c] /\ uses[v] \in Nat
      BY <1>2, <2>4 DEF PlacesInv
    <3> QED BY <1>1, <1>2, <1>7, <2>1, <2>2, <2>4, <3>1, <3>2 DEF IsServed, UsableModel
  <2> QED BY <1>1, <2>1, <2>3, <2>4 DEF IsUndisturbed
\* The init goes on with the container as it is.
<1>10. CASE SetsUp(w) \/ LoadBegins(w) \/ LoadsParam(w) \/ LoadsFile(w) \/ LoadFails(w)
            \/ (DeinitReads(w) /\ model[c] # 0)
  <2>1. InInit(w, c) /\ InInit(w, c)'
    BY <1>1, <1>2, <1>10 DEF SetsUp, LoadBegins, LoadsParam, LoadsFile, LoadFails, DeinitReads,
                             InInit, InitLabels
  <2>2. UNCHANGED <<made, model, freed, inits>>
    BY <1>10 DEF SetsUp, LoadBegins, LoadsParam, LoadsFile, LoadFails, DeinitReads, modelVars,
                 initVars, Fails
  <2>3. c \in Early => model[c] = made[c] /\ made[c] # 0 /\ made[c] \notin loaded[c]
    BY <2>1 DEF IsUndisturbed, InitIsAlone
  <2>4. loaded'[c] = loaded[c]
    <3>1. CASE LoadBegins(w)
      BY <1>2, <2>3, <3>1 DEF LoadBegins, PlacesInv
    <3>2. CASE ~ LoadBegins(w)
      BY <1>10, <3>2 DEF SetsUp, LoadsParam, LoadsFile, LoadFails, DeinitReads, modelVars
    <3> QED BY <3>1, <3>2
  <2>5. wpc'[w] \in {"deinit", "delete", "null"} => inits[c] = 1
    <3>1. CASE LoadFails(w)
      BY <1>2, <3>1 DEF LoadFails, Fails, ModelsInv, InitLabels
    <3>2. CASE DeinitReads(w)
      BY <2>1, <3>2 DEF DeinitReads, IsUndisturbed, InitIsAlone
    <3>3. CASE ~ LoadFails(w) /\ ~ DeinitReads(w)
      BY <1>2, <1>10, <3>3 DEF SetsUp, LoadBegins, LoadsParam, LoadsFile
    <3> QED BY <3>1, <3>2, <3>3
  <2>6. c \in Early /\ wpc'[w] \in {"inParam", "inModel", "delete"} => uses'[w] = made[c]
    BY <1>2, <1>10, <2>3 DEF SetsUp, LoadBegins, LoadsParam, LoadsFile, LoadFails, DeinitReads
  <2>7. c \notin Early /\ inits[c] = 1 => model[c] = 0 /\ wpc'[w] \notin {"delete", "null"}
    <3>1. c \notin Early /\ inits[c] = 1 => model[c] = 0
      BY <2>1 DEF IsUndisturbed, InitIsAlone
    <3> QED BY <1>2, <1>10, <3>1 DEF SetsUp, LoadBegins, LoadsParam, LoadsFile, LoadFails, DeinitReads
  <2>8. InitIsAlone(c)'
    BY <1>4, <2>1, <2>2, <2>3, <2>4, <2>5, <2>6, <2>7 DEF InitIsAlone
  <2>9. ASSUME NEW v \in Workers, index[v] = c PROVE IsServed(v)'
    <3>1. IsServed(v) /\ BeingInit(c)
      BY <1>7, <2>1, <2>9 DEF BeingInit
    <3> QED BY <1>1, <1>7, <2>2, <2>4, <2>9, <3>1 DEF IsServed, UsableModel
  <2> QED BY <1>1, <2>2, <2>8, <2>9 DEF IsUndisturbed
\* The init is over, and nobody relied on a model it took away.
<1>11. CASE SetUpFails(w) \/ LoadsModel(w) \/ SessionIsMade(w) \/ InitThrows(w) \/ Forgets(w)
            \/ (DeinitReads(w) /\ model[c] = 0)
  <2>1. InInit(w, c) /\ ~ InInit(w, c)'
    BY <1>1, <1>2, <1>11 DEF SetUpFails, LoadsModel, SessionIsMade, InitThrows, Forgets, DeinitReads,
                             InInit, InitLabels
  <2>2. InitIsAlone(c)' /\ ~ BeingInit(c)'
    BY <1>4, <1>5, <2>1 DEF InitIsAlone
  <2>3. UNCHANGED freed /\ loaded[c] \subseteq loaded'[c]
    BY <1>2, <1>11 DEF SetUpFails, LoadsModel, SessionIsMade, InitThrows, Forgets, DeinitReads,
                       modelVars
  <2>4. ASSUME NEW v \in Workers, index[v] = c, Relies(v) PROVE model'[c] # 0
    <3>1. model[c] # 0 /\ inits[c] > 1
      BY <1>7, <1>8, <2>1, <2>4 DEF IsServed
    <3>2. ~ Forgets(w)
      BY <2>1, <3>1 DEF Forgets, IsUndisturbed, InitIsAlone
    <3> QED BY <1>2, <1>11, <3>1, <3>2 DEF SetUpFails, LoadsModel, SessionIsMade, InitThrows,
               DeinitReads, MakesModel, modelVars
  <2>5. ASSUME NEW v \in Workers, index[v] = c PROVE IsServed(v)'
    <3>1. Has(v) => UsableModel(v)
      BY <1>7, <2>5 DEF IsServed
    <3> QED BY <1>1, <1>7, <2>2, <2>3, <2>4, <2>5, <3>1 DEF IsServed, UsableModel
  <2> QED BY <1>1, <2>2, <2>3, <2>5 DEF IsUndisturbed
<1>12. CASE Deletes(w)
  <2>1. /\ InInit(w, c) /\ InInit(w, c)' /\ wpc'[w] = "null" /\ wpc[w] = "delete"
        /\ UNCHANGED <<made, model, loaded, inits, uses>>
    BY <1>1, <1>2, <1>12 DEF Deletes, InInit, InitLabels, initVars, workVars
  <2>2. /\ inits[c] = 1 /\ c \in Early /\ model[c] = made[c] /\ made[c] # 0
        /\ made[c] \notin loaded[c]
    BY <2>1 DEF IsUndisturbed, InitIsAlone
  <2>3. InitIsAlone(c)'
    BY <1>4, <2>1, <2>2 DEF InitIsAlone
  <2>4. ASSUME NEW v \in Workers, index[v] = c PROVE ~ Relies(v)' /\ ~ Has(v)'
    BY <1>7, <1>8, <2>1, <2>2, <2>4
  <2>5. ASSUME NEW v \in Workers, index[v] = c PROVE IsServed(v)'
    BY <1>1, <2>4, <2>5 DEF IsServed
  <2> QED BY <1>1, <2>2, <2>3, <2>5 DEF IsUndisturbed
<1> QED BY <1>9, <1>10, <1>11, <1>12 DEF Initializes

LEMMA UndisturbedStep ==
  TypeOK /\ PlacesInv /\ ModelsInv /\ UndisturbedInv /\ [Next]_vars => UndisturbedInv'
<1> SUFFICES ASSUME TypeOK, PlacesInv, ModelsInv, UndisturbedInv, [Next]_vars
             PROVE  UndisturbedInv'
  OBVIOUS
<1>1. CASE UNCHANGED vars
  BY <1>1 DEF UndisturbedInv, IsUndisturbed, InitIsAlone, IsServed, Relies, BeingInit, InInit,
              UsableModel, vars, setVars, modelVars, initVars, callVars, workVars, appVars
<1>2. CASE Deinit
  BY <1>2 DEF Deinit, DeinitBegins, DestroyContainer, DestroyThrows, ClearContainer, UndisturbedInv
<1>3. ASSUME NEW w \in Workers, Crash(w) PROVE UndisturbedInv'
  BY <1>3 DEF Crash, UndisturbedInv
<1>4. ASSUME NEW w \in Workers, Begins(w) \/ Processes(w) PROVE UndisturbedInv'
  <2>1. app = "running" /\ UNCHANGED disturbed
    BY <1>4 DEF Begins, Call, DecodeFails, Decodes, FindThrows, Find, InsertReads, InsertWrites,
         Processes, TryAcquireFails, TryAcquire, Builds, Process, PlacesInv, initVars
  <2> QED BY <1>4, <2>1, CallsUndisturbed DEF UndisturbedInv
<1>5. ASSUME NEW w \in Workers, Initializes(w) PROVE UndisturbedInv'
  <2>1. app = "running" /\ disturbed \subseteq disturbed'
    BY <1>5, InitFrame DEF Initializes, InitBegins, SetsUp, SetUpFails, LoadBegins, LoadsParam,
         LoadsModel, LoadsFile, SessionIsMade, InitThrows, LoadFails, DeinitReads, Deletes, Forgets,
         initVars, CountsInit, Fails
  <2>2. ASSUME NEW c \in Containers \ disturbed' PROVE IsUndisturbed(c)'
    <3>1. IsUndisturbed(c)
      BY <2>1, <2>2 DEF UndisturbedInv
    <3> QED BY <1>5, <2>2, <3>1, InitKeepsOthers, InitUndisturbed
  <2> QED BY <2>2 DEF UndisturbedInv
<1> QED BY <1>1, <1>2, <1>3, <1>4, <1>5 DEF Next

-----------------------------------------------------------------------------
(* Theorems                                                                *)

\* The whole of what is known of the set of initialised indices, of the models
\* and of who relies on them, under every interleaving of calls and inits, each
\* of which may fail.
THEOREM ServiceIsConsistent == Spec => []ServiceInv
<1>1. Init => ServiceInv
  <2> SUFFICES ASSUME Init PROVE ServiceInv
    OBVIOUS
  <2>1. /\ \A w \in Workers : wpc[w] = "idle" /\ ~ began[w]
        /\ \A c \in Containers :
             made[c] = 0 /\ model[c] = 0 /\ inits[c] = 0 /\ freed[c] = {} /\ loaded[c] = {}
    BY DEF Init
  <2>2. PlacesInv /\ InitializerInv
    BY <2>1 DEF Init, PlacesInv, InitializerInv, SecondInitNeedsRace, SetIsExact
  <2>3. ModelsInv
    BY <2>1 DEF ModelsInv, InitLabels
  <2>4. UndisturbedInv
    BY <2>1 DEF UndisturbedInv, IsUndisturbed, InitIsAlone, IsServed, Relies, InInit, InitLabels
  <2> QED BY <2>2, <2>3, <2>4, InitType DEF ServiceInv
<1>2. ServiceInv /\ [Next]_vars => ServiceInv'
  BY TypeStep, PlacesStep, SetStep, ModelsStep, UndisturbedStep DEF ServiceInv
<1> QED BY <1>1, <1>2, PTL DEF Spec

\* ProcessorInitializer::acquireContainer calls init again only if two threads
\* were between its contains and its insert at the same time.
THEOREM SecondInitIsARace == Spec => []SecondInitNeedsRace
<1>1. ServiceInv => SecondInitNeedsRace
  BY DEF ServiceInv, InitializerInv
<1> QED BY <1>1, ServiceIsConsistent, PTL

\* Of a container whose inits do not overlap and are not repeated in vain, every
\* processor works on a loaded model that is still there, unless it was acquired
\* in the middle of RealesrganContainer::init.
THEOREM ModelsAreUsable == Spec => []ProcessesOnUsableModel
<1>1. ServiceInv => ProcessesOnUsableModel
  <2> SUFFICES ASSUME ServiceInv, NEW w \in Workers,
                      wpc[w] = "process" /\ ~ hasty[w] /\ index[w] \notin disturbed
               PROVE  UsableModel(w)
    BY DEF ProcessesOnUsableModel
  <2>1. app = "running" /\ index[w] \in Containers
    BY DEF ServiceInv, PlacesInv, Labels
  <2>2. IsServed(w)
    BY <2>1 DEF ServiceInv, UndisturbedInv, IsUndisturbed
  <2> QED BY <2>2 DEF IsServed
<1> QED BY <1>1, ServiceIsConsistent, PTL

\* A call that begins when such a container is ready is not aborted, although its
\* index may be lost from the set and its model be replaced by a second init.
THEOREM ReadyStaysServed == Spec => []ReadyIsServed
<1>1. ServiceInv => ReadyIsServed
  <2> SUFFICES ASSUME ServiceInv, NEW w \in Workers,
                      began[w], wpc[w] \in {"acquire", "build"}, index[w] \notin disturbed
               PROVE  model[index[w]] # 0
    BY DEF ReadyIsServed
  <2>1. app = "running" /\ index[w] \in Containers
    BY DEF ServiceInv, PlacesInv, Labels
  <2>2. IsServed(w) /\ Relies(w)
    BY <2>1 DEF ServiceInv, UndisturbedInv, IsUndisturbed, Relies
  <2> QED BY <2>2 DEF IsServed
<1> QED BY <1>1, ServiceIsConsistent, PTL

\* Whatever inits overlapped and whichever failed, in the middle of the load of
\* another one too: when none of a container is under way, it points to no model
\* or to one that was loaded and is not deleted.
THEOREM InitsSettle == Spec => []SettledIsReady
<1>1. ServiceInv => SettledIsReady
  <2> SUFFICES ASSUME ServiceInv, app = "running", NEW c \in Containers,
                      \A w \in Workers : ~ InInit(w, c), model[c] # 0
               PROVE  model[c] \in loaded[c] /\ model[c] \notin freed[c]
    BY DEF SettledIsReady, Ready
  <2> QED BY SettledModel DEF ServiceInv, BeingInit
<1> QED BY <1>1, ServiceIsConsistent, PTL
=============================================================================
