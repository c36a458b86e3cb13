------------------------------- MODULE LimbApp --------------------------------
(***************************************************************************)
(* App (include/limb-app.h) between ProcessorLoader, which makes the       *)
(* containers, ProcessorStorage, which keeps them by index, and            *)
(* CapabilitiesProvider (internal/capabilities-provider.cpp), whose list   *)
(* of names and indices the clients choose a processor from.               *)
(*                                                                         *)
(* All of it runs on the thread that owns the application: main, which     *)
(* calls init once and reloads nothing, or another owner, who may use what *)
(* the classes offer in any order.                                         *)
(***************************************************************************)
EXTENDS ProcessorLoader

CONSTANTS
  Containers,  \* bound: the containers that can be allocated
  MaxInits     \* bound: calls of App::init

ASSUME AppAssumption == MaxInits \in Nat

VARIABLES
  apc,         \* what App is doing
  i,           \* the index init or deinit is at
  inits,       \* calls of init
  m_containers,        \* ProcessorStorage: the container of every index
  availableProcessors, \* CapabilitiesProvider: name and index
  reloaded     \* history: the modules were loaded again while containers of
               \* the application existed

appVars == <<apc, i, inits, m_containers, availableProcessors, reloaded>>
vars == <<loaderVars, appVars>>

Init ==
  /\ LoaderInit
  /\ apc = "idle" /\ i = 0 /\ inits = 0
  /\ m_containers = <<>> /\ availableProcessors = {}
  /\ reloaded = FALSE

Indices == DOMAIN m_containers

-----------------------------------------------------------------------------
(* init                                                                    *)

InitBegins ==
  /\ apc = "idle" /\ inits < MaxInits
  /\ inits' = inits + 1
  /\ i' = 0
  /\ apc' = "init"
  /\ UNCHANGED <<loaderVars, m_containers, availableProcessors, reloaded>>

\* The container of one module is allocated, added and listed; an index that is
\* listed already keeps its name.
Register(c) ==
  /\ apc = "init" /\ i < Len(m_modules) /\ i \notin Indices
  /\ Allocate(c, i)
  /\ m_containers' = [k \in Indices \cup {i} |-> IF k = i THEN c ELSE m_containers[k]]
  /\ availableProcessors' =
       IF \E p \in availableProcessors : p.index = i THEN availableProcessors
       ELSE availableProcessors \cup {[name |-> m_modules[i + 1], index |-> i]}
  /\ i' = i + 1
  /\ UNCHANGED <<apc, inits, reloaded>>

\* The module has no container to give, or the index is taken and the new
\* container is destroyed again: init returns an error.  What it has added
\* before stays.
InitFails ==
  /\ apc = "init" /\ i < Len(m_modules)
  /\ apc' = "idle"
  /\ UNCHANGED <<loaderVars, i, inits, m_containers, availableProcessors, reloaded>>

InitEnds ==
  /\ apc = "init" /\ i >= Len(m_modules)
  /\ apc' = "idle"
  /\ UNCHANGED <<loaderVars, i, inits, m_containers, availableProcessors, reloaded>>

-----------------------------------------------------------------------------
(* deinit                                                                  *)

DeinitBegins ==
  /\ apc = "idle"
  /\ i' = 0
  /\ apc' = "deinit"
  /\ UNCHANGED <<loaderVars, inits, m_containers, availableProcessors, reloaded>>

Deinit ==
  /\ apc = "deinit" /\ i \in Indices /\ m_containers[i] \in Alive
  /\ destroyContainer(m_containers[i])
  /\ i' = i + 1
  /\ UNCHANGED <<apc, inits, m_containers, availableProcessors, reloaded>>

\* Mutant: the list of capabilities is not cleared.
DeinitEnds_KeepsList ==
  /\ apc = "deinit" /\ i \notin Indices
  /\ m_containers' = <<>>
  /\ apc' = "idle"
  /\ UNCHANGED <<loaderVars, i, inits, availableProcessors, reloaded>>

DeinitEnds ==
  /\ apc = "deinit" /\ i \notin Indices
  /\ availableProcessors' = {}
  /\ m_containers' = <<>>
  /\ apc' = "idle"
  /\ UNCHANGED <<loaderVars, i, inits, reloaded>>

\* ~App has called deinit, and the loader goes after it.
Destroy ==
  /\ apc = "idle" /\ Indices = {}
  /\ apc' = "gone"
  /\ Unload
  /\ UNCHANGED <<i, inits, m_containers, availableProcessors, reloaded>>

-----------------------------------------------------------------------------
\* The owner has the modules loaded again.
LoadAgain ==
  /\ apc = "idle"
  /\ \/ reload
     \/ \E n \in Names : addLoadDir(n)
     \/ \E index \in 0..Len(m_loadDirectories) : removeLoadDir(index)
  /\ reloaded' = (reloaded \/ Alive # {})
  /\ UNCHANGED <<apc, i, inits, m_containers, availableProcessors>>

Next ==
  \/ InitBegins \/ InitFails \/ InitEnds \/ \E c \in Containers : Register(c)
  \/ DeinitBegins \/ Deinit \/ DeinitEnds \/ Destroy
  \/ LoadAgain

Spec == Init /\ [][Next]_vars

-----------------------------------------------------------------------------
(* Properties                                                              *)

\* The values each variable ranges over; the containers of the storage are the
\* first ones by index, and none is stored twice.
TypeOK ==
  /\ m_loadDirectories \in Seq(Names) /\ m_modules \in Seq(Libs)
  /\ refs \in [Libs -> Nat]
  /\ home \in [Alive -> Libs] /\ misrouted \subseteq Containers
  /\ apc \in {"idle", "init", "deinit", "gone"} /\ i \in Nat
  /\ Indices = 0..(Cardinality(Indices) - 1)
  /\ \A j, k \in Indices : m_containers[j] = m_containers[k] => j = k
  /\ \A p, q \in availableProcessors : p.index = q.index => p = q

\* What a client reads in the list of capabilities is what it gets: the
\* container at that index is alive and of the library of that name, unless
\* modules were loaded again under the containers.
ListedIsServed ==
  ~reloaded /\ apc # "deinit" =>
    \A p \in availableProcessors :
      /\ p.index \in Indices /\ m_containers[p.index] \in Alive
      /\ home[m_containers[p.index]] = p.name

\* The library a container came from is open as long as the container exists:
\* deinit gives all containers back before the loader closes the libraries
\* (limb-app.h, ~App and the order of the locals in main).
CodeIsLoaded == ~reloaded => \A c \in Alive : refs[home[c]] > 0

\* destroyContainer hands a container to the module that made it; only the
\* indices of before a reload miss it.
GoHome == ~reloaded => misrouted = {}

\* Loader and application agree on the containers, unless the modules were
\* loaded again under them.
AppInv == TypeOK /\ CodeIsLoaded /\ GoHome

\* When loader and application are gone no container is left and no library is
\* open that the loader has opened, however often init failed half way.
NothingLeaks == apc = "gone" => Alive = {} /\ refs = RefsOf(<<>>)

\* A library in a directory of the list is found: the test of the loopback
\* processor relies on it (tests/loopback_verify.t.cpp, loopback_verify).
LibrariesAreFound ==
  apc # "gone" /\ loads = 1 =>
    \A k \in DOMAIN m_loadDirectories :
      Exists(m_loadDirectories[k]) =>
        \A l \in LibsAt[Place[m_loadDirectories[k]]] : Opens(m_modules, l) > 0
=============================================================================
