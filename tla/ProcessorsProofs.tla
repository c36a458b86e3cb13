--------------------------- MODULE ProcessorsProofs ----------------------------
(***************************************************************************)
(* Proofs about the processors, for every set of libraries, directories    *)
(* and containers: the application and the loader agree on the containers, *)
(* and all of them are given back.  And about what the RealESRGAN          *)
(* processor makes of an image, for every size of image, tile and padding  *)
(* and every scale: the output is the whole image, and a tile is padded    *)
(* with its surroundings.                                                  *)
(***************************************************************************)
EXTENDS LimbApp, TileGrid, FiniteSetTheorems, SequenceTheorems, TLAPS

-----------------------------------------------------------------------------
(* Lists of modules                                                        *)

LEMMA ListedIsSeq ==
  ASSUME NEW V, NEW S, IsFiniteSet(S), \A e \in S : e[2] \in V
  PROVE  \A s \in Listed(S) : s \in Seq(V)
<1>1. PICK n \in Nat : n = Cardinality(S)
  BY FS_CardinalityType
<1>2. ASSUME NEW t \in SetToSeqs(S) PROVE [k \in DOMAIN t |-> t[k][2]] \in Seq(V)
  <2>1. t \in [1..n -> S]
    BY <1>1 DEF SetToSeqs
  <2>2. [k \in DOMAIN t |-> t[k][2]] \in [1..n -> V]
    BY <2>1
  <2> QED BY <2>2, SeqDef
<1> QED BY <1>2 DEF Listed

LEMMA ScannedIsSeq ==
  ASSUME NEW dirs \in Seq(Names)
  PROVE  \A s \in Scanned(dirs) : s \in Seq(Libs)
<1> DEFINE S == UNION {{<<k, l>> : l \in Found(dirs[k])} : k \in DOMAIN dirs}
<1>1. DOMAIN dirs = 1..Len(dirs) /\ Len(dirs) \in Nat /\ \A k \in DOMAIN dirs : dirs[k] \in Names
  OBVIOUS
<1>2. ASSUME NEW k \in DOMAIN dirs PROVE Found(dirs[k]) \subseteq Libs
  BY <1>1, LoaderAssumption DEF Found, Exists
<1>3. S \subseteq (1..Len(dirs)) \X Libs
  BY <1>1, <1>2
<1>4. IsFiniteSet(S)
  <2>1. IsFiniteSet(1..Len(dirs)) /\ IsFiniteSet(Libs)
    BY <1>1, FS_Interval, LoaderAssumption
  <2>2. IsFiniteSet((1..Len(dirs)) \X Libs)
    BY <2>1, FS_Product
  <2> QED BY <2>2, <1>3, FS_Subset
<1>5. \A e \in S : e[2] \in Libs
  BY <1>3
<1>6. Scanned(dirs) = Listed(S)
  BY DEF Scanned
<1> HIDE DEF S
<1> QED BY <1>4, <1>5, <1>6, ListedIsSeq

\* The directories of the constructor.
LEMMA DirectoriesAreNames ==
  ASSUME NEW dirs \in Listed({<<k, additional[k]>> : k \in {k \in DOMAIN additional : Exists(additional[k])}})
  PROVE  <<defaultLoadDir>> \o dirs \in Seq(Names)
<1> DEFINE S == {<<k, additional[k]>> : k \in {k \in DOMAIN additional : Exists(additional[k])}}
<1>1. S \subseteq (1..Len(additional)) \X {additional[k] : k \in 1..Len(additional)}
  BY LoaderAssumption
<1>2. IsFiniteSet(S)
  <2>1. Len(additional) \in Nat
    BY LoaderAssumption
  <2>2. IsFiniteSet(1..Len(additional))
    BY <2>1, FS_Interval
  <2>3. IsFiniteSet({additional[k] : k \in 1..Len(additional)})
    <3> DEFINE T == {additional[k] : k \in 1..Len(additional)}
    <3>1. additional \in Surjection(1..Len(additional), T)
      BY LoaderAssumption DEF Surjection
    <3> HIDE DEF T
    <3>2. IsFiniteSet(T)
      BY <2>2, <3>1, FS_Surjection
    <3> QED BY <3>2 DEF T
  <2>4. IsFiniteSet((1..Len(additional)) \X {additional[k] : k \in 1..Len(additional)})
    BY <2>2, <2>3, FS_Product
  <2> QED BY <2>4, <1>1, FS_Subset
<1>3. \A e \in S : e[2] \in Names
  BY LoaderAssumption
<1>4. dirs \in Seq(Names)
  <2> HIDE DEF S
  <2>1. dirs \in Listed(S)
    BY DEF S
  <2> QED BY <2>1, <1>2, <1>3, ListedIsSeq
<1> QED BY <1>4, LoaderAssumption

LEMMA OpensIs ==
  ASSUME NEW modules \in Seq(Libs), NEW l
  PROVE  /\ Opens(modules, l) \in Nat
         /\ \A k \in DOMAIN modules : modules[k] = l => Opens(modules, l) > 0
<1> DEFINE K == {k \in DOMAIN modules : modules[k] = l}
<1>1. IsFiniteSet(K)
  <2>1. K \subseteq 1..Len(modules) /\ Len(modules) \in Nat
    OBVIOUS
  <2>2. IsFiniteSet(1..Len(modules))
    BY <2>1, FS_Interval
  <2> QED BY <2>1, <2>2, FS_Subset
<1>2. Cardinality(K) \in Nat
  BY <1>1, FS_CardinalityType
<1>3. K # {} => Cardinality(K) # 0
  BY <1>1, FS_EmptySet
<1>4. Opens(modules, l) = Cardinality(K)
  BY DEF Opens
<1>5. \A k \in DOMAIN modules : modules[k] = l => K # {}
  OBVIOUS
<1> HIDE DEF K
<1> QED BY <1>2, <1>3, <1>4, <1>5

LEMMA RefsAreNumbers ==
  ASSUME NEW modules \in Seq(Libs)
  PROVE  RefsOf(modules) \in [Libs -> Nat]
BY OpensIs DEF RefsOf

-----------------------------------------------------------------------------
(* The inductive invariant                                                 *)

Shape ==
  /\ m_loadDirectories \in Seq(Names) /\ m_modules \in Seq(Libs)
  /\ apc \in {"idle", "init", "deinit", "gone"} /\ i \in Nat /\ reloaded \in BOOLEAN
  /\ home \in [Alive -> Libs] /\ misrouted \subseteq Containers /\ Alive \subseteq Containers
  /\ refs = RefsOf(m_modules)

\* The indices whose container deinit has not given back yet.
Kept == {k \in Indices : apc = "deinit" => k >= i}

\* The containers of the loader are those of the storage, and the storage is
\* filled without gaps, each container once.
Stored ==
  /\ \E n \in Nat : Indices = 0..(n - 1)
  /\ \A j, k \in Indices : m_containers[j] = m_containers[k] => j = k
  /\ Alive = {m_containers[k] : k \in Kept}
  /\ apc = "init" => i = 0 \/ Indices = 0..(i - 1)

\* The list of capabilities follows the storage.
Offered ==
  /\ \A p \in availableProcessors : p.index \in Indices
  /\ \A p, q \in availableProcessors : p.index = q.index => p = q
  /\ ~reloaded /\ apc # "deinit" =>
       \A p \in availableProcessors : home[m_containers[p.index]] = p.name

\* The index that is remembered for a container leads to its module.
Routed ==
  ~reloaded =>
    /\ misrouted = {}
    /\ \A c \in Alive : /\ m_processors[c] + 1 \in DOMAIN m_modules
                        /\ m_modules[m_processors[c] + 1] = home[c]

Left == apc = "gone" => Alive = {} /\ m_modules = <<>>

LimbInv == Shape /\ Stored /\ Offered /\ Routed /\ Left

LEMMA LimbInit == Init => LimbInv
<1> SUFFICES ASSUME Init PROVE LimbInv
  OBVIOUS
<1>1. Alive = {} /\ Indices = {} /\ DOMAIN home = {} /\ home = <<>>
  BY DEF Init, LoaderInit, Alive, Indices
<1>2. m_loadDirectories \in Seq(Names)
  BY DirectoriesAreNames DEF Init, LoaderInit
<1>3. m_modules \in Seq(Libs)
  BY <1>2, ScannedIsSeq DEF Init, LoaderInit
<1>4. home \in [Alive -> Libs]
  BY <1>1
<1>5. Shape
  BY <1>1, <1>2, <1>3, <1>4 DEF Shape, Init, LoaderInit
<1>6. Stored
  <2>1. Indices = 0..(0 - 1)
    BY <1>1
  <2> QED BY <2>1, <1>1 DEF Stored, Kept, Init
<1>7. Offered /\ Routed /\ Left
  BY <1>1 DEF Offered, Routed, Left, Init, LoaderInit
<1> QED BY <1>5, <1>6, <1>7 DEF LimbInv

\* The steps that begin and end a loop, and change neither table.
LEMMA ControlSteps ==
  LimbInv /\ (InitBegins \/ InitFails \/ InitEnds \/ DeinitBegins) => LimbInv'
<1> SUFFICES ASSUME LimbInv, InitBegins \/ InitFails \/ InitEnds \/ DeinitBegins
             PROVE  LimbInv'
  OBVIOUS
<1>1. /\ UNCHANGED <<loaderVars, m_containers, availableProcessors, reloaded>>
      /\ apc \in {"idle", "init"} /\ apc' \in {"idle", "init", "deinit"}
      /\ apc' = "init" => i' = 0
      /\ apc' = "deinit" => i' = 0
      /\ i' \in Nat
  BY DEF LimbInv, Shape, InitBegins, InitFails, InitEnds, DeinitBegins
<1>2. Alive' = Alive /\ Indices' = Indices
  BY <1>1 DEF loaderVars, Alive, Indices
<1>3. Shape'
  BY <1>1, <1>2 DEF LimbInv, Shape, loaderVars
<1>4. Kept = Indices /\ Kept' = Indices
  BY <1>1, <1>2 DEF Kept, LimbInv, Stored
<1>5. Stored'
  BY <1>1, <1>2, <1>4 DEF LimbInv, Stored
<1>6. Offered' /\ Routed' /\ Left'
  BY <1>1, <1>2 DEF LimbInv, Offered, Routed, Left, loaderVars
<1> QED BY <1>3, <1>5, <1>6 DEF LimbInv

LEMMA RegisterStep ==
  ASSUME LimbInv, NEW c \in Containers, Register(c)
  PROVE  LimbInv'
<1>1. /\ apc = "init" /\ apc' = "init" /\ i \in Nat /\ i' = i + 1 /\ i \notin Indices /\ reloaded' = reloaded
      /\ c \notin Alive /\ i + 1 \in DOMAIN m_modules
      /\ UNCHANGED <<m_loadDirectories, m_modules, refs, loads, misrouted>>
  BY DEF LimbInv, Shape, Register, Allocate
<1>2. Alive' = Alive \cup {c}
  BY DEF Register, Allocate, Alive
<1>3. Indices' = Indices \cup {i}
  BY DEF Register, Indices
<1>4. /\ \A d \in Alive : d # c /\ m_processors'[d] = m_processors[d] /\ home'[d] = home[d]
      /\ m_processors'[c] = i /\ home'[c] = m_modules[i + 1]
      /\ DOMAIN home' = Alive'
  BY <1>1, <1>2 DEF Register, Allocate
<1>5. /\ \A k \in Indices : k # i /\ m_containers'[k] = m_containers[k]
      /\ m_containers'[i] = c
  BY <1>1 DEF Register
<1>6. m_modules[i + 1] \in Libs
  BY <1>1 DEF LimbInv, Shape
<1>7. Shape'
  <2>1. home' \in [Alive' -> Libs]
    <3>1. \A d \in Alive' : home'[d] \in Libs
      BY <1>2, <1>4, <1>6 DEF LimbInv, Shape
    <3>2. home' = [d \in Alive' |-> home'[d]]
      BY <1>2 DEF Register, Allocate
    <3> QED BY <3>1, <3>2
  <2> QED BY <2>1, <1>1, <1>2 DEF LimbInv, Shape
<1>8. Kept = Indices /\ Kept' = Indices'
  BY <1>1 DEF Kept
<1>9. Stored'
  <2>1. Indices = 0..(i - 1)
    <3>1. PICK n \in Nat : Indices = 0..(n - 1)
      BY DEF LimbInv, Stored
    <3>2. CASE i = 0
      BY <3>1, <3>2, <1>1
    <3> QED BY <3>2, <1>1 DEF LimbInv, Stored
  <2>2. Indices' = 0..(i' - 1) /\ i' \in Nat
    BY <2>1, <1>1, <1>3
  <2>3. \A k \in Indices : m_containers[k] \in Alive
    BY <1>8 DEF LimbInv, Stored
  <2>4. \A j, k \in Indices' : m_containers'[j] = m_containers'[k] => j = k
    BY <2>3, <1>1, <1>3, <1>5 DEF LimbInv, Stored
  <2>5. Alive' = {m_containers'[k] : k \in Kept'}
    BY <2>3, <1>2, <1>3, <1>5, <1>8 DEF LimbInv, Stored
  <2> QED BY <2>2, <2>4, <2>5, <1>1 DEF Stored
<1>10. PICK q : q = [name |-> m_modules[i + 1], index |-> i]
  OBVIOUS
<1>11. availableProcessors' = availableProcessors \cup {q} /\ q.index = i /\ q.name = m_modules[i + 1]
  BY <1>1, <1>10 DEF Register, LimbInv, Offered
<1>12. Offered'
  <2>1. \A p \in availableProcessors : p.index \in Indices /\ p.index # i
    BY <1>1 DEF LimbInv, Offered
  <2>2. \A p \in availableProcessors' : p.index \in Indices'
    BY <2>1, <1>3, <1>11
  <2>3. \A p, r \in availableProcessors' : p.index = r.index => p = r
    BY <2>1, <1>11 DEF LimbInv, Offered
  <2>4. ASSUME ~reloaded', NEW p \in availableProcessors'
        PROVE  home'[m_containers'[p.index]] = p.name
    <3>1. CASE p = q
      BY <3>1, <1>4, <1>5, <1>11
    <3>2. CASE p \in availableProcessors
      <4>1. home[m_containers[p.index]] = p.name
        BY <3>2, <2>4, <1>1 DEF LimbInv, Offered
      <4>2. m_containers[p.index] \in Alive
        BY <3>2, <2>1, <1>8 DEF LimbInv, Stored
      <4> QED BY <4>1, <4>2, <3>2, <2>1, <1>4, <1>5
    <3> QED BY <3>1, <3>2, <1>11
  <2> QED BY <2>2, <2>3, <2>4 DEF Offered
<1>13. Routed'
  BY <1>1, <1>2, <1>4 DEF LimbInv, Routed
<1>14. Left'
  BY <1>1 DEF Left
<1> QED BY <1>7, <1>9, <1>12, <1>13, <1>14 DEF LimbInv

LEMMA DeinitStep == LimbInv /\ Deinit => LimbInv'
<1> SUFFICES ASSUME LimbInv, Deinit PROVE LimbInv'
  OBVIOUS
<1>1. PICK c : c = m_containers[i]
  OBVIOUS
<1>2. /\ apc = "deinit" /\ apc' = "deinit" /\ i \in Nat /\ i' = i + 1 /\ i \in Indices /\ c \in Alive
      /\ UNCHANGED <<m_loadDirectories, m_modules, refs, loads, m_containers,
                     availableProcessors, reloaded>>
  BY <1>1 DEF LimbInv, Shape, Deinit, destroyContainer
<1>3. Alive' = Alive \ {c} /\ Indices' = Indices
  BY <1>1, <1>2 DEF Deinit, destroyContainer, Alive, Indices
<1>4. \A d \in Alive' : m_processors'[d] = m_processors[d] /\ home'[d] = home[d]
  BY <1>1, <1>3 DEF Deinit, destroyContainer
<1>5. misrouted' \subseteq misrouted \cup {c} /\ (~reloaded => misrouted' = misrouted)
  BY <1>1, <1>2 DEF Deinit, destroyContainer, LimbInv, Routed
<1>6. Shape'
  <2>1. home' \in [Alive' -> Libs]
    <3>1. home' = [d \in Alive' |-> home[d]]
      BY <1>1, <1>3 DEF Deinit, destroyContainer
    <3> QED BY <3>1, <1>3 DEF LimbInv, Shape
  <2> QED BY <2>1, <1>2, <1>3, <1>5 DEF LimbInv, Shape
<1>7. Kept' = Kept \ {i} /\ Kept \subseteq Indices
  <2>1. Indices \subseteq Nat
    BY DEF LimbInv, Stored
  <2>2. \A k \in Indices : k >= i + 1 <=> k >= i /\ k # i
    BY <2>1, <1>2
  <2>3. Kept' = {k \in Indices : k >= i + 1} /\ Kept = {k \in Indices : k >= i}
    BY <1>2, <1>3 DEF Kept
  <2> QED BY <2>2, <2>3
<1>8. Stored'
  <2>1. \A k \in Kept : m_containers[k] = c <=> k = i
    BY <1>1, <1>2, <1>7 DEF LimbInv, Stored
  <2>2. Alive' = {m_containers'[k] : k \in Kept'}
    BY <2>1, <1>2, <1>3, <1>7 DEF LimbInv, Stored
  <2> QED BY <2>2, <1>2, <1>3 DEF LimbInv, Stored
<1>9. Offered'
  BY <1>2, <1>3 DEF LimbInv, Offered
<1>10. Routed'
  BY <1>2, <1>3, <1>4, <1>5 DEF LimbInv, Routed
<1>11. Left'
  BY <1>2 DEF Left
<1> QED BY <1>6, <1>8, <1>9, <1>10, <1>11 DEF LimbInv

\* When no index is left, every container has been given back.
LEMMA DeinitEndsStep == LimbInv /\ DeinitEnds => LimbInv'
<1> SUFFICES ASSUME LimbInv, DeinitEnds PROVE LimbInv'
  OBVIOUS
<1>1. /\ apc = "deinit" /\ apc' = "idle" /\ i \in Nat /\ i' = i /\ i \notin Indices
      /\ UNCHANGED <<loaderVars, reloaded>>
  BY DEF LimbInv, Shape, DeinitEnds
<1>2. Alive' = Alive /\ Indices' = {} /\ availableProcessors' = {}
  BY <1>1 DEF DeinitEnds, loaderVars, Alive, Indices
<1>3. Shape'
  BY <1>1, <1>2 DEF LimbInv, Shape, loaderVars
<1>4. Stored'
  <2>1. 0..(0 - 1) = {}
    OBVIOUS
  <2>2. Kept' = {}
    BY <1>2 DEF Kept
  <2>3. PICK n \in Nat : Indices = 0..(n - 1)
    BY DEF LimbInv, Stored
  <2>4. Alive = {}
    <3>1. Kept = {}
      BY <2>3, <1>1 DEF Kept
    <3> QED BY <3>1 DEF LimbInv, Stored
  <2>5. \E m \in Nat : Indices' = 0..(m - 1)
    BY <2>1, <1>2
  <2>6. Alive' = {m_containers'[k] : k \in Kept'}
    BY <2>2, <2>4, <1>2
  <2> QED BY <2>5, <2>6, <1>1, <1>2 DEF Stored
<1>5. Offered' /\ Routed' /\ Left'
  BY <1>1, <1>2 DEF LimbInv, Offered, Routed, Left, loaderVars
<1> QED BY <1>3, <1>4, <1>5 DEF LimbInv

LEMMA DestroyStep == LimbInv /\ Destroy => LimbInv'
<1> SUFFICES ASSUME LimbInv, Destroy PROVE LimbInv'
  OBVIOUS
<1>1. /\ apc = "idle" /\ apc' = "gone" /\ Indices = {} /\ m_modules' = <<>> /\ refs' = RefsOf(<<>>)
      /\ UNCHANGED <<m_loadDirectories, m_processors, home, misrouted, i, m_containers,
                     availableProcessors, reloaded>>
  BY DEF Destroy, Unload
<1>2. Alive' = Alive /\ Indices' = {} /\ Alive = {}
  BY <1>1 DEF Alive, Indices, LimbInv, Stored, Kept
<1>3. Shape'
  <2>1. m_modules' \in Seq(Libs)
    BY <1>1
  <2> QED BY <2>1, <1>1, <1>2 DEF LimbInv, Shape
<1>4. Stored'
  <2>1. 0..(0 - 1) = {} /\ Kept' = {}
    BY <1>2 DEF Kept
  <2>2. \E m \in Nat : Indices' = 0..(m - 1)
    BY <2>1, <1>2
  <2>3. Alive' = {m_containers'[k] : k \in Kept'}
    BY <2>1, <1>2
  <2> QED BY <2>2, <2>3, <1>1, <1>2 DEF Stored
<1>5. Offered' /\ Routed' /\ Left'
  BY <1>1, <1>2 DEF LimbInv, Offered, Routed, Left
<1> QED BY <1>3, <1>4, <1>5 DEF LimbInv

LEMMA LoadAgainStep == LimbInv /\ LoadAgain => LimbInv'
<1> SUFFICES ASSUME LimbInv, LoadAgain PROVE LimbInv'
  OBVIOUS
<1>1. /\ apc = "idle" /\ apc' = apc /\ i' = i /\ reloaded' = (reloaded \/ Alive # {})
      /\ m_containers' = m_containers /\ availableProcessors' = availableProcessors
  BY DEF LoadAgain
<1>2. Reload
  BY DEF LoadAgain, reload, addLoadDir, removeLoadDir
<1>3. UNCHANGED <<m_processors, home, misrouted>> /\ Alive' = Alive /\ Indices' = Indices
  BY <1>1, <1>2 DEF Reload, Alive, Indices
<1>4. m_loadDirectories' \in Seq(Names)
  <2>0. m_loadDirectories \in Seq(Names)
    BY DEF LimbInv, Shape
  <2>1. CASE reload
    BY <2>0, <2>1 DEF reload
  <2>2. CASE \E n \in Names : addLoadDir(n)
    BY <2>0, <2>2, AppendProperties DEF addLoadDir
  <2>3. CASE \E index \in 0..Len(m_loadDirectories) : removeLoadDir(index)
    <3>1. PICK index \in 0..Len(m_loadDirectories) : removeLoadDir(index)
      BY <2>3
    <3>2. CASE index + 1 \in DOMAIN m_loadDirectories
      <4>1. m_loadDirectories' = SubSeq(m_loadDirectories, 1, index)
                                   \o SubSeq(m_loadDirectories, index + 2, Len(m_loadDirectories))
        <5>1. (index + 1) - 1 = index /\ (index + 1) + 1 = index + 2
          OBVIOUS
        <5> QED BY <5>1, <3>1, <3>2 DEF removeLoadDir, RemoveAt
      <4>2. /\ SubSeq(m_loadDirectories, 1, index) \in Seq(Names)
            /\ SubSeq(m_loadDirectories, index + 2, Len(m_loadDirectories)) \in Seq(Names)
        BY <2>0, <3>2
      <4> QED BY <4>1, <4>2, ConcatProperties
    <3>3. CASE index + 1 \notin DOMAIN m_loadDirectories
      BY <2>0, <3>1, <3>3 DEF removeLoadDir
    <3> QED BY <3>2, <3>3
  <2> QED BY <2>1, <2>2, <2>3 DEF LoadAgain
<1>5. m_modules' \in Seq(Libs) /\ refs' = RefsOf(m_modules')
  <2>1. PICK dirs : dirs = m_loadDirectories'
    OBVIOUS
  <2>2. m_modules' \in Scanned(dirs) /\ refs' = RefsOf(m_modules')
    BY <2>1, <1>2 DEF Reload
  <2> QED BY <2>1, <2>2, <1>4, ScannedIsSeq
<1>6. Shape'
  BY <1>1, <1>3, <1>4, <1>5 DEF LimbInv, Shape
<1>7. Stored'
  BY <1>1, <1>3 DEF LimbInv, Stored, Kept
<1>8. Offered'
  BY <1>1, <1>3 DEF LimbInv, Offered, Shape
<1>9. Routed'
  BY <1>1, <1>3 DEF LimbInv, Routed, Shape
<1>10. Left'
  BY <1>1 DEF Left
<1> QED BY <1>6, <1>7, <1>8, <1>9, <1>10 DEF LimbInv

LEMMA LimbStep == LimbInv /\ [Next]_vars => LimbInv'
<1> SUFFICES ASSUME LimbInv, [Next]_vars PROVE LimbInv'
  OBVIOUS
<1>1. CASE UNCHANGED vars
  <2>1. UNCHANGED <<loaderVars, appVars>> /\ Alive' = Alive /\ Indices' = Indices /\ Kept' = Kept
    BY <1>1 DEF vars, loaderVars, appVars, Alive, Indices, Kept
  <2>2. Shape' /\ Left'
    BY <2>1 DEF loaderVars, appVars, LimbInv, Shape, Left
  <2>3. Stored'
    BY <2>1 DEF appVars, LimbInv, Stored
  <2>4. Offered' /\ Routed'
    BY <2>1 DEF loaderVars, appVars, LimbInv, Offered, Routed
  <2> QED BY <2>2, <2>3, <2>4 DEF LimbInv
<1>2. CASE \E c \in Containers : Register(c)
  BY <1>2, RegisterStep
<1> QED BY <1>1, <1>2, ControlSteps, DeinitStep, DeinitEndsStep, DestroyStep, LoadAgainStep DEF Next

LEMMA LimbInvariant == Spec => []LimbInv
BY LimbInit, LimbStep, PTL DEF Spec

\* The storage holds each container once and without gaps, a library is open as
\* long as one of its containers exists, and destroyContainer hands every
\* container to the module that made it.
THEOREM ContainersAreHome == Spec => []AppInv
<1>1. LimbInv => AppInv
  <2> SUFFICES ASSUME LimbInv PROVE AppInv
    OBVIOUS
  <2>1. Indices = 0..(Cardinality(Indices) - 1)
    <3>1. PICK n \in Nat : Indices = 0..(n - 1)
      BY DEF LimbInv, Stored
    <3>2. Cardinality(0..(n - 1)) = n
      BY FS_Interval
    <3> QED BY <3>1, <3>2
  <2>2. refs \in [Libs -> Nat]
    BY RefsAreNumbers DEF LimbInv, Shape
  <2>3. TypeOK
    BY <2>1, <2>2 DEF LimbInv, Shape, Stored, Offered, TypeOK
  <2>4. CodeIsLoaded
    <3>1. SUFFICES ASSUME ~reloaded, NEW c \in Alive PROVE refs[home[c]] > 0
      BY DEF CodeIsLoaded
    <3>2. PICK k \in DOMAIN m_modules : m_modules[k] = home[c]
      BY <3>1 DEF LimbInv, Routed
    <3>3. m_modules \in Seq(Libs) /\ home[c] \in Libs
      BY DEF LimbInv, Shape
    <3>4. Opens(m_modules, home[c]) \in Nat /\ Opens(m_modules, home[c]) > 0
      BY <3>2, <3>3, OpensIs
    <3> QED BY <3>3, <3>4 DEF LimbInv, Shape, RefsOf
  <2>5. GoHome
    BY DEF LimbInv, Routed, GoHome
  <2> QED BY <2>3, <2>4, <2>5 DEF AppInv
<1> QED BY <1>1, LimbInvariant, PTL

\* The index a client reads in the list of capabilities leads to a living
\* container of the library of that name.
THEOREM ListIsServed == Spec => []ListedIsServed
<1>1. LimbInv => ListedIsServed
  <2> SUFFICES ASSUME LimbInv, ~reloaded, apc # "deinit", NEW p \in availableProcessors
               PROVE  /\ p.index \in Indices /\ m_containers[p.index] \in Alive
                      /\ home[m_containers[p.index]] = p.name
    BY DEF ListedIsServed
  <2>1. p.index \in Kept
    BY DEF LimbInv, Offered, Kept
  <2> QED BY <2>1 DEF LimbInv, Stored, Offered
<1> QED BY <1>1, LimbInvariant, PTL

\* When application and loader are gone no container is left, and every library
\* was closed as often as it was opened.
THEOREM AllIsGivenBack == Spec => []NothingLeaks
<1>1. LimbInv => NothingLeaks
  BY DEF LimbInv, Left, Shape, NothingLeaks
<1> QED BY <1>1, LimbInvariant, PTL

-----------------------------------------------------------------------------
(* Arithmetic of \div and %                                                *)

LEMMA TimesGrows ==
  ASSUME NEW a \in Nat, NEW b \in Nat, NEW c \in Nat, a <= b
  PROVE  a * c \in Nat /\ b * c \in Nat /\ a * c <= b * c
<1>1. PICK d \in Nat : b = a + d
  <2>1. b - a \in Nat /\ b = a + (b - a)
    OBVIOUS
  <2> QED BY <2>1
<1>2. d * c \in Nat /\ a * c \in Nat /\ (a + d) * c = a * c + d * c
  OBVIOUS
<1> QED BY <1>1, <1>2

LEMMA Division ==
  ASSUME NEW a \in Nat, NEW b \in Nat \ {0}
  PROVE  a \div b \in Nat /\ a % b \in 0..(b - 1) /\ a = b * (a \div b) + (a % b)
OBVIOUS

\* Quotient and remainder are unique.
LEMMA DivisionIs ==
  ASSUME NEW b \in Nat \ {0}, NEW q \in Nat, NEW r \in 0..(b - 1), NEW a, a = b * q + r
  PROVE  a \div b = q /\ a % b = r
<1>1. a \in Nat
  <2>1. b * q \in Nat
    OBVIOUS
  <2> QED BY <2>1
<1>2. PICK p \in Nat : p = a \div b
  BY <1>1, Division
<1>3. PICK s \in 0..(b - 1) : s = a % b
  BY <1>1, Division
<1>4. b * q + r = b * p + s
  BY <1>1, <1>2, <1>3, Division
<1>5. b * q \in Nat /\ b * p \in Nat /\ b * (q + 1) = b * q + b /\ b * (p + 1) = b * p + b
  OBVIOUS
<1>6. CASE q < p
  <2>1. (q + 1) * b <= p * b
    BY <1>6, TimesGrows
  <2> QED BY <2>1, <1>4, <1>5
<1>7. CASE p < q
  <2>1. (p + 1) * b <= q * b
    BY <1>7, TimesGrows
  <2> QED BY <2>1, <1>4, <1>5
<1>8. CASE p = q
  BY <1>8, <1>2, <1>3, <1>4, <1>5
<1> QED BY <1>6, <1>7, <1>8

\* A multiple of the divisor passes through.
LEMMA DivisionShifts ==
  ASSUME NEW b \in Nat \ {0}, NEW a \in Nat, NEW k \in Nat
  PROVE  (a + k * b) \div b = (a \div b) + k /\ (a + k * b) % b = a % b
<1>1. PICK q \in Nat : q = a \div b
  BY Division
<1>2. PICK r \in 0..(b - 1) : r = a % b
  BY Division
<1>3. a = b * q + r
  BY <1>1, <1>2, Division
<1>4. a + k * b = b * (q + k) + r
  <2>1. b * (q + k) = b * q + k * b /\ b * q \in Nat /\ k * b \in Nat
    OBVIOUS
  <2> QED BY <2>1, <1>3
<1>5. PICK c : c = a + k * b
  OBVIOUS
<1>6. PICK m \in Nat : m = q + k
  OBVIOUS
<1>7. c = b * m + r
  BY <1>4, <1>5, <1>6
<1>8. c \div b = m /\ c % b = r
  BY <1>7, DivisionIs
<1> QED BY <1>1, <1>2, <1>5, <1>6, <1>8

\* Counted from the end, a block of the divisor's size is the same block.
LEMMA DivisionMirrored ==
  ASSUME NEW b \in Nat \ {0}, NEW n \in Nat, NEW a \in 0..(n * b - 1)
  PROVE  a \div b \in 0..(n - 1) /\ (n * b - 1 - a) \div b = n - 1 - (a \div b)
<1>0. n * b \in Nat /\ a \in Nat /\ a < n * b
  OBVIOUS
<1>1. PICK q \in Nat : q = a \div b
  BY <1>0, Division
<1>2. PICK r \in 0..(b - 1) : r = a % b
  BY <1>0, Division
<1>3. a = b * q + r
  BY <1>0, <1>1, <1>2, Division
<1>4. q < n
  <2>1. SUFFICES ASSUME n <= q PROVE FALSE
    OBVIOUS
  <2>2. n * b <= q * b /\ q * b = b * q
    BY <2>1, TimesGrows
  <2> QED BY <2>2, <1>0, <1>3
<1>5. n * b - 1 - a = b * (n - 1 - q) + (b - 1 - r)
  <2>1. b * (n - 1 - q) = n * b - b - b * q /\ b * q \in Nat
    OBVIOUS
  <2> QED BY <2>1, <1>0, <1>3
<1>6. n - 1 - q \in Nat /\ b - 1 - r \in 0..(b - 1)
  BY <1>4
<1> QED BY <1>1, <1>4, <1>5, <1>6, DivisionIs

\* What is below a multiple of the divisor has a smaller quotient.
LEMMA DivisionBelow ==
  ASSUME NEW b \in Nat \ {0}, NEW n \in Nat, NEW a \in Nat
  PROVE  a < n * b <=> a \div b < n
<1>1. PICK q \in Nat : q = a \div b
  BY Division
<1>2. PICK r \in 0..(b - 1) : r = a % b
  BY Division
<1>3. a = b * q + r
  BY <1>1, <1>2, Division
<1>4. n * b \in Nat /\ q * b \in Nat /\ b * q = q * b /\ (q + 1) * b = q * b + b
  OBVIOUS
<1>5. CASE q < n
  <2>1. (q + 1) * b <= n * b
    BY <1>5, TimesGrows
  <2> QED BY <2>1, <1>1, <1>3, <1>4, <1>5
<1>6. CASE n <= q
  <2>1. n * b <= q * b
    BY <1>6, TimesGrows
  <2> QED BY <2>1, <1>1, <1>3, <1>4, <1>6
<1> QED BY <1>5, <1>6

-----------------------------------------------------------------------------
(* Tiles                                                                   *)

\* Every tile begins in the image, and the last one ends with it.
LEMMA TilesCover ==
  ASSUME NEW size \in Nat \ {0}
  PROVE  /\ Tiles(size) \in Nat \ {0}
         /\ First(Tiles(size)) >= size
         /\ \A k \in 0..(Tiles(size) - 1) : First(k) \in Nat /\ First(k) < size
<1> USE TileAssumption
<1>0. PICK a \in Nat : a = size + TileSize - 1
  OBVIOUS
<1>1. PICK n \in Nat : n = Tiles(size)
  BY <1>0, Division DEF Tiles
<1>2. PICK r \in 0..(TileSize - 1) : a = TileSize * n + r
  <2>1. n = a \div TileSize
    BY <1>0, <1>1 DEF Tiles
  <2> QED BY <2>1, Division
<1>3. n # 0
  <2>1. n = 0 => a = r
    BY <1>2
  <2> QED BY <2>1, <1>0
<1>4. n * TileSize >= size /\ (n - 1) * TileSize < size
  <2>1. TileSize * n = n * TileSize /\ (n - 1) * TileSize = n * TileSize - TileSize
        /\ n * TileSize \in Nat
    OBVIOUS
  <2> QED BY <2>1, <1>0, <1>2
<1>5. ASSUME NEW k \in 0..(n - 1) PROVE k * TileSize \in Nat /\ k * TileSize < size
  <2>1. n - 1 \in Nat /\ k \in Nat /\ k <= n - 1
    BY <1>3
  <2>2. k * TileSize \in Nat /\ (n - 1) * TileSize \in Nat /\ k * TileSize <= (n - 1) * TileSize
    BY <2>1, TimesGrows
  <2> QED BY <2>2, <1>4
<1> QED BY <1>1, <1>3, <1>4, <1>5 DEF First

\* Where tile k is, and where the next one begins.
LEMMA TileShape ==
  ASSUME NEW size \in Nat \ {0}, NEW k \in 0..(Tiles(size) - 1)
  PROVE  /\ First(k) \in Nat /\ First(k) < size /\ First(k + 1) = First(k) + TileSize
         /\ NoPad(k, size) \in 1..TileSize
         /\ First(k) + NoPad(k, size) = After(k, size) /\ After(k, size) \in 1..size
         /\ After(k, size) = Least(First(k + 1), size)
         /\ After(k, size) = Least(First(k) + TileSize, size)
         /\ k + 1 < Tiles(size) => After(k, size) = First(k + 1)
         /\ k + 1 = Tiles(size) => After(k, size) = size
<1> USE TileAssumption
<1>0. Tiles(size) \in Nat \ {0} /\ k \in Nat
  BY TilesCover
<1>1. PICK f \in Nat : f = First(k) /\ f < size
  BY TilesCover
<1>2. First(k + 1) = f + TileSize
  BY <1>0, <1>1 DEF First
<1>3. After(k, size) = IF f + TileSize < size THEN f + TileSize ELSE size
  BY <1>1, <1>2 DEF After, Least, First
<1>4. k + 1 < Tiles(size) => f + TileSize < size
  <2>1. k + 1 < Tiles(size) => k + 1 \in 0..(Tiles(size) - 1)
    BY <1>0
  <2> QED BY <2>1, <1>2, TilesCover
<1>5. k + 1 = Tiles(size) => f + TileSize >= size
  BY <1>2, TilesCover
<1> QED BY <1>1, <1>2, <1>3, <1>4, <1>5 DEF NoPad, Least

LEMMA MirrorIs ==
  ASSUME NEW size \in Nat \ {0}, NEW k \in Int
  PROVE  /\ k \in 0..(size - 1) => Mirror(k, size) = k
         /\ k < 0 /\ - k <= size - 1 => Mirror(k, size) = - k
         /\ k >= size /\ k <= 2 * (size - 1) => Mirror(k, size) = 2 * (size - 1) - k
BY DEF Mirror, Abs

\* The stripe in the image: where it begins, and where a tile is in it.
LEMMA StripeShape ==
  ASSUME h \in Nat \ {0}, yi \in 0..(ytiles - 1)
  PROVE  /\ in_tile_y0 \in Nat /\ in_tile_y0 <= First(yi) /\ in_tile_y0 + crop_y = First(yi)
         /\ crop_y <= Pad /\ crop_y \in Nat
         /\ in_tile_y0 > 0 => crop_y = Pad
         /\ in_tile_y1 \in Nat /\ in_tile_y1 <= h
         /\ in_tile_y1 = h \/ in_tile_y1 = First(yi) + TileSize + Pad
         /\ in_tile_y1 >= After(yi, h)
<1>1. PICK f \in Nat : f = First(yi) /\ f < h /\ First(yi + 1) = f + TileSize
                       /\ After(yi, h) = Least(f + TileSize, h)
  BY TileShape DEF ytiles
<1>2. (yi + 1) * TileSize = f + TileSize
  BY <1>1 DEF First
<1> QED BY <1>1, <1>2, TileAssumption DEF in_tile_y0, in_tile_y1, crop_y, Most, Least

-----------------------------------------------------------------------------
(* The padding                                                             *)

\* The columns of a padded tile, mirrored at the edges of the image.
LEMMA ColumnsAreSurrounding ==
  ASSUME NEW size \in Nat, size = w, size > Pad, NEW x \in 0..(xtiles - 1),
         NEW gx \in 0..(tile_w(x) - 1)
  PROVE  /\ ReadX(x, gx) \in 0..(size - 1)
         /\ ReadX(x, gx) = MirroredImage(First(x) - Pad + gx, size)
<1>0. Pad \in Nat /\ size \in Nat \ {0}
  BY TileAssumption
<1>1. PICK f \in Nat : f = First(x) /\ f < size
  BY <1>0, TileShape DEF xtiles
<1>2. f + NoPad(x, w) \in 1..size /\ NoPad(x, w) \in Nat
  BY <1>0, <1>1, TileShape, TileAssumption DEF xtiles
<1>3. PICK k \in Int : k = gx + f - Pad /\ k >= - Pad /\ k < size + Pad
  <2>1. gx \in Nat /\ gx < NoPad(x, w) + 2 * Pad
    BY <1>0, <1>2 DEF tile_w
  <2> QED BY <2>1, <1>0, <1>2
<1>4. ReadX(x, gx) = Mirror(k, size) /\ First(x) - Pad + gx = k
  BY <1>0, <1>1, <1>3 DEF ReadX
<1>5. CASE k < 0
  BY <1>5, <1>0, <1>3, <1>4, MirrorIs DEF MirroredImage
<1>6. CASE k \in 0..(size - 1)
  BY <1>6, <1>0, <1>3, <1>4, MirrorIs DEF MirroredImage
<1>7. CASE k >= size
  BY <1>7, <1>0, <1>3, <1>4, MirrorIs DEF MirroredImage
<1> QED BY <1>3, <1>5, <1>6, <1>7

\* The rows: the stripe is mirrored only where it ends with the image.
LEMMA RowsAreSurrounding ==
  ASSUME h \in Nat, h > Pad, yi \in 0..(ytiles - 1), NEW gy \in 0..(tile_h - 1)
  PROVE  /\ ReadY(gy) \in 0..(in_tile_y1 - in_tile_y0 - 1)
         /\ in_tile_y0 + ReadY(gy) = MirroredImage(First(yi) - Pad + gy, h)
<1>0. Pad \in Nat /\ h \in Nat \ {0} /\ TileSize \in Nat \ {0}
  BY TileAssumption
<1>1. PICK f \in Nat : f = First(yi) /\ f < h
  BY <1>0, TileShape DEF ytiles
<1>2. PICK n \in Nat : /\ n = NoPad(yi, h) /\ f + n = After(yi, h) /\ n >= 1
                       /\ f + n = h \/ f + n = f + TileSize
  BY <1>0, <1>1, TileShape DEF ytiles, Least
<1>3. PICK y0 \in Nat : y0 = in_tile_y0
  BY <1>0, StripeShape
<1>4. PICK y1 \in Nat : y1 = in_tile_y1
  BY <1>0, StripeShape
<1>5. PICK c \in Nat : c = crop_y
  BY <1>0, StripeShape
<1>6. /\ y0 + c = f /\ c <= Pad /\ (y0 > 0 => c = Pad) /\ y1 <= h /\ y1 >= f + n
      /\ y1 = h \/ y1 = f + TileSize + Pad
  BY <1>0, <1>1, <1>2, <1>3, <1>4, <1>5, StripeShape
<1>7. gy \in Nat /\ gy < n + 2 * Pad
  BY <1>0, <1>2 DEF tile_h
<1>8. PICK k \in Int : k = f - Pad + gy
  BY <1>0, <1>1, <1>7
<1>9. PICK size \in Nat : size = y1 - y0 /\ size >= 1
  BY <1>2, <1>6
<1>10. ReadY(gy) = Mirror(k - y0, size) /\ k - y0 \in Int
  <2>1. gy + c - Pad = k - y0
    BY <1>0, <1>6, <1>7, <1>8
  <2> QED BY <2>1, <1>3, <1>4, <1>5, <1>9 DEF ReadY
<1>11. CASE k < 0
  <2>1. y0 = 0 /\ - k <= size - 1
    BY <1>11, <1>0, <1>2, <1>6, <1>7, <1>8, <1>9
  <2> QED BY <2>1, <1>11, <1>0, <1>1, <1>3, <1>4, <1>8, <1>9, <1>10, MirrorIs DEF MirroredImage
<1>12. CASE k >= 0 /\ k < y1
  <2>1. k - y0 \in 0..(size - 1) /\ k < h
    BY <1>12, <1>0, <1>6, <1>7, <1>8, <1>9
  <2> QED BY <2>1, <1>12, <1>0, <1>1, <1>3, <1>4, <1>8, <1>9, <1>10, MirrorIs DEF MirroredImage
<1>13. CASE k >= y1
  <2>1. y1 = h
    BY <1>13, <1>0, <1>2, <1>6, <1>7, <1>8
  <2>2. k < h + Pad /\ k - y0 >= size /\ k - y0 <= 2 * (size - 1)
    BY <2>1, <1>13, <1>0, <1>1, <1>2, <1>6, <1>7, <1>8, <1>9
  <2>3. ReadY(gy) = 2 * (size - 1) - (k - y0)
    BY <2>2, <1>9, <1>10, MirrorIs
  <2> QED BY <2>1, <2>2, <2>3, <1>13, <1>0, <1>1, <1>3, <1>4, <1>8, <1>9 DEF MirroredImage
<1> QED BY <1>8, <1>11, <1>12, <1>13

\* In the middle of a tile nothing is mirrored, however small the image.
LEMMA MiddleOfTile ==
  ASSUME w \in Nat \ {0}, h \in Nat \ {0}, yi \in 0..(ytiles - 1), NEW x \in 0..(xtiles - 1),
         NEW mx \in 0..(NoPad(x, w) - 1), NEW my \in 0..(NoPad(yi, h) - 1)
  PROVE  Preproc(x, mx + Pad, my + Pad) = <<First(x) + mx, First(yi) + my>>
<1>0. Pad \in Nat /\ TileSize \in Nat \ {0}
  BY TileAssumption
<1>1. PICK f \in Nat : f = First(x) /\ f < w
  BY TileShape DEF xtiles
<1>2. mx \in Nat /\ f + mx \in 0..(w - 1)
  BY <1>0, <1>1, TileShape DEF xtiles
<1>3. ReadX(x, mx + Pad) = f + mx
  <2>1. (mx + Pad) + f - Pad = f + mx
    BY <1>0, <1>1, <1>2
  <2> QED BY <2>1, <1>1, <1>2, MirrorIs DEF ReadX
<1>4. PICK g \in Nat : g = First(yi) /\ g < h
  BY TileShape DEF ytiles
<1>5. my \in Nat /\ g + my < After(yi, h) /\ After(yi, h) \in Nat
  BY <1>0, <1>4, TileShape DEF ytiles
<1>6. PICK y0 \in Nat : y0 = in_tile_y0
  BY StripeShape
<1>7. PICK y1 \in Nat : y1 = in_tile_y1
  BY StripeShape
<1>8. PICK c \in Nat : c = crop_y
  BY StripeShape
<1>9. y0 + c = g /\ y1 > g + my
  BY <1>4, <1>5, <1>6, <1>7, <1>8, StripeShape
<1>10. PICK size \in Nat \ {0} : size = y1 - y0
  BY <1>5, <1>9
<1>11. ReadY(my + Pad) = my + c
  <2>1. (my + Pad) + c - Pad = my + c /\ my + c \in 0..(size - 1)
    BY <1>0, <1>5, <1>9, <1>10
  <2> QED BY <2>1, <1>6, <1>7, <1>8, <1>10, MirrorIs DEF ReadY
<1>12. in_tile_y0 + ReadY(my + Pad) = g + my
  BY <1>5, <1>6, <1>9, <1>11
<1> QED BY <1>1, <1>3, <1>4, <1>12 DEF Preproc

-----------------------------------------------------------------------------
(* The orientations                                                        *)

LEMMA OrientationIs ==
  ASSUME NEW gx, NEW gy, NEW tw, NEW th
  PROVE  /\ Oriented(0, gx, gy, tw, th) = <<gx, gy>>
         /\ Oriented(1, gx, gy, tw, th) = <<tw - 1 - gx, gy>>
         /\ Oriented(2, gx, gy, tw, th) = <<tw - 1 - gx, th - 1 - gy>>
         /\ Oriented(3, gx, gy, tw, th) = <<gx, th - 1 - gy>>
         /\ Oriented(4, gx, gy, tw, th) = <<gy, gx>>
         /\ Oriented(5, gx, gy, tw, th) = <<th - 1 - gy, gx>>
         /\ Oriented(6, gx, gy, tw, th) = <<th - 1 - gy, tw - 1 - gx>>
         /\ Oriented(7, gx, gy, tw, th) = <<gy, tw - 1 - gx>>
BY DEF Oriented

\* An orientation puts two pixels in two places.
LEMMA OrientedApart ==
  ASSUME NEW n \in 0..7, NEW tw \in Nat, NEW th \in Nat,
         NEW ax \in Int, NEW ay \in Int, NEW bx \in Int, NEW by \in Int,
         Oriented(n, ax, ay, tw, th) = Oriented(n, bx, by, tw, th)
  PROVE  ax = bx /\ ay = by
<1>1. CASE n = 0
  BY <1>1, OrientationIs
<1>2. CASE n = 1
  BY <1>2, OrientationIs
<1>3. CASE n = 2
  BY <1>3, OrientationIs
<1>4. CASE n = 3
  BY <1>4, OrientationIs
<1>5. CASE n = 4
  BY <1>5, OrientationIs
<1>6. CASE n = 5
  BY <1>6, OrientationIs
<1>7. CASE n = 6
  BY <1>7, OrientationIs
<1>8. CASE n = 7
  BY <1>8, OrientationIs
<1> QED BY <1>1, <1>2, <1>3, <1>4, <1>5, <1>6, <1>7, <1>8

\* The place of an upscaled pixel lies on the place of the pixel it is made of.
LEMMA OrientedScales ==
  ASSUME NEW n \in 0..7, NEW tw \in Nat, NEW th \in Nat,
         NEW sx \in 0..(tw * Scale - 1), NEW sy \in 0..(th * Scale - 1)
  PROVE  LET pos == Oriented(n, sx, sy, tw * Scale, th * Scale) IN
         <<pos[1] \div Scale, pos[2] \div Scale>>
           = Oriented(n, sx \div Scale, sy \div Scale, tw, th)
<1> DEFINE pos == Oriented(n, sx, sy, tw * Scale, th * Scale)
<1>a. /\ (tw * Scale - 1 - sx) \div Scale = tw - 1 - (sx \div Scale)
      /\ (th * Scale - 1 - sy) \div Scale = th - 1 - (sy \div Scale)
  BY DivisionMirrored, TileAssumption
<1>1. CASE n = 0
  BY <1>1, OrientationIs
<1>2. CASE n = 1
  BY <1>2, <1>a, OrientationIs
<1>3. CASE n = 2
  BY <1>3, <1>a, OrientationIs
<1>4. CASE n = 3
  BY <1>4, <1>a, OrientationIs
<1>5. CASE n = 4
  BY <1>5, OrientationIs
<1>6. CASE n = 5
  BY <1>6, <1>a, OrientationIs
<1>7. CASE n = 6
  BY <1>7, <1>a, OrientationIs
<1>8. CASE n = 7
  BY <1>8, <1>a, OrientationIs
<1> QED BY <1>1, <1>2, <1>3, <1>4, <1>5, <1>6, <1>7, <1>8

\* Whatever the orientation, what is read back was made of the pixel below.
LEMMA UpscaledIs ==
  ASSUME NEW n \in 0..7, NEW x, tile_w(x) \in Nat, tile_h \in Nat,
         NEW sx \in 0..(tile_w(x) * Scale - 1), NEW sy \in 0..(tile_h * Scale - 1)
  PROVE  Upscaled(n, x, ReadBack(n, sx, sy, tile_w(x) * Scale, tile_h * Scale))
           = Preproc(x, sx \div Scale, sy \div Scale)
<1>w. PICK tw \in Nat : tw = tile_w(x)
  OBVIOUS
<1>h. PICK th \in Nat : th = tile_h
  OBVIOUS
<1> DEFINE Rect == (0..(tw - 1)) \X (0..(th - 1))
           pos == Oriented(n, sx, sy, tw * Scale, th * Scale)
           Here(p) == Oriented(n, p[1], p[2], tw, th) = <<pos[1] \div Scale, pos[2] \div Scale>>
           ax == sx \div Scale
           ay == sy \div Scale
<1>1. ax \in 0..(tw - 1) /\ ay \in 0..(th - 1)
  BY <1>w, <1>h, DivisionMirrored, TileAssumption
<1>2. <<pos[1] \div Scale, pos[2] \div Scale>> = Oriented(n, ax, ay, tw, th)
  BY <1>w, <1>h, OrientedScales
<1> HIDE DEF pos, ax, ay
<1>3. <<ax, ay>> \in Rect /\ Here(<<ax, ay>>)
  BY <1>1, <1>2
<1>4. ASSUME NEW p \in Rect, Here(p) PROVE p = <<ax, ay>>
  <2>1. PICK bx \in 0..(tw - 1), by \in 0..(th - 1) : p = <<bx, by>>
    OBVIOUS
  <2>2. Oriented(n, bx, by, tw, th) = Oriented(n, ax, ay, tw, th)
    BY <2>1, <1>4, <1>2
  <2>3. bx = ax /\ by = ay
    <3>1. ax \in Int /\ ay \in Int /\ bx \in Int /\ by \in Int
      BY <1>1
    <3> QED BY <3>1, <2>2, OrientedApart
  <2> QED BY <2>1, <2>3
<1>5. \E c : c = (CHOOSE p \in Rect : Here(p)) /\ c \in Rect /\ Here(c)
  <2> HIDE DEF Here, Rect
  <2> QED BY <1>3
<1>6. PICK c : c = (CHOOSE p \in Rect : Here(p)) /\ c \in Rect /\ Here(c)
  BY <1>5
<1>7. Upscaled(n, x, ReadBack(n, sx, sy, tw * Scale, th * Scale)) = Preproc(x, c[1], c[2])
  BY <1>w, <1>h, <1>6 DEF Upscaled, ReadBack, pos
<1>8. c[1] = ax /\ c[2] = ay
  <2>1. c = <<ax, ay>>
    BY <1>4, <1>6
  <2> QED BY <2>1
<1>9. Upscaled(n, x, ReadBack(n, sx, sy, tw * Scale, th * Scale)) = Preproc(x, ax, ay)
  BY <1>7, <1>8
<1> QED BY <1>9, <1>w, <1>h DEF ax, ay

-----------------------------------------------------------------------------
(* The output of a tile                                                    *)

\* What the lemmas below assume of the image and the place in it.
InStripe == w \in Nat \ {0} /\ h \in Nat \ {0} /\ yi \in 0..(ytiles - 1)

\* The shader covers the part of the tile without padding.
LEMMA TileOutput ==
  ASSUME InStripe, NEW x \in 0..(xtiles - 1)
  PROVE  /\ gx_max(x) = NoPad(x, w) * Scale
         /\ First(x) * Scale \in Nat /\ out_w \in Nat \ {0} /\ out_h \in Nat \ {0}
         /\ First(x) * Scale + gx_max(x) = After(x, w) * Scale
         /\ After(x, w) * Scale <= out_w
         /\ gx_max(x) \in Nat
<1> USE TileAssumption
<1>1. PICK f \in Nat : f = First(x) /\ f < w
  BY TileShape DEF xtiles, InStripe
<1>2. PICK n \in Nat : n = NoPad(x, w)
  BY TileShape DEF xtiles, InStripe
<1>3. f + n = After(x, w) /\ n <= TileSize /\ f + n <= w /\ (n = TileSize \/ f + n = w)
  BY <1>1, <1>2, TileShape DEF xtiles, InStripe, Least
<1>4. PICK m \in Nat : m = NoPad(yi, h) /\ m >= 1
  BY TileShape DEF ytiles, InStripe
<1>5. w \in Nat \ {0} /\ w - f \in Nat /\ n <= w - f
  BY <1>1, <1>3 DEF InStripe
<1>6. /\ n * Scale \in Nat /\ f * Scale \in Nat /\ TileSize * Scale \in Nat /\ w * Scale \in Nat
      /\ (w - f) * Scale = w * Scale - f * Scale
      /\ (f + n) * Scale = f * Scale + n * Scale
  BY <1>5
<1>7. n * Scale <= TileSize * Scale /\ n * Scale <= (w - f) * Scale
  BY <1>3, <1>5, TimesGrows
<1>8. gx_max(x) = n * Scale
  <2>1. gx_max(x) = Least(TileSize * Scale, w * Scale - f * Scale)
    BY <1>1 DEF gx_max, out_w
  <2>2. CASE n = TileSize
    BY <2>1, <2>2, <1>6, <1>7 DEF Least
  <2>3. CASE f + n = w
    <3>1. n = w - f
      BY <2>3, <1>5
    <3>2. w * Scale - f * Scale = n * Scale
      BY <3>1, <1>6
    <3> QED BY <3>2, <2>1, <1>6, <1>7 DEF Least
  <2> QED BY <2>2, <2>3, <1>3
<1>9. 1 * Scale <= w * Scale /\ 1 * Scale <= m * Scale /\ m * Scale \in Nat
  BY <1>4, <1>5, TimesGrows
<1>10. out_w \in Nat \ {0} /\ out_h \in Nat \ {0}
  BY <1>4, <1>6, <1>9 DEF out_w, out_h
<1>11. f * Scale + gx_max(x) = After(x, w) * Scale
  BY <1>3, <1>6, <1>8
<1>12. (f + n) * Scale <= w * Scale
  BY <1>3, <1>5, TimesGrows
<1>13. After(x, w) * Scale <= out_w
  BY <1>3, <1>12 DEF out_w
<1> QED BY <1>1, <1>2, <1>6, <1>8, <1>10, <1>11, <1>13

\* A spot of a tile has an offset of its own in the stripe.
LEMMA OffsetIs ==
  ASSUME InStripe, NEW x \in 0..(xtiles - 1),
         NEW gx \in 0..(gx_max(x) - 1), NEW gy \in 0..(out_h - 1)
  PROVE  /\ OutOffset(x, gx, gy) \in 0..(out_h * out_w - 1)
         /\ OutOffset(x, gx, gy) \div out_w = gy
         /\ OutOffset(x, gx, gy) % out_w = gx + First(x) * Scale
<1>1. PICK W \in Nat \ {0} : W = out_w
  BY TileOutput
<1>2. PICK F \in Nat : F = First(x) * Scale
  BY TileOutput
<1>3. PICK H \in Nat \ {0} : H = out_h
  BY TileOutput
<1>4. gx \in Nat /\ F + gx < W /\ gy \in 0..(H - 1)
  <2>1. PICK m \in Nat : m = gx_max(x)
    BY TileOutput
  <2>2. PICK a : a = After(x, w) * Scale
    OBVIOUS
  <2>3. F + m = a /\ a <= W
    BY <2>1, <2>2, <1>1, <1>2, TileOutput
  <2>4. gx \in 0..(m - 1)
    BY <2>1
  <2>5. gy \in 0..(H - 1)
    BY <1>3
  <2> QED BY <2>3, <2>4, <2>5
<1>5. PICK o : o = OutOffset(x, gx, gy)
  OBVIOUS
<1>6. o = W * gy + (gx + F) /\ W * gy \in Nat
  <2>1. o = gy * W + gx + F
    BY <1>1, <1>2, <1>5 DEF OutOffset
  <2>2. W * gy \in Nat /\ gy * W = W * gy
    BY <1>4
  <2> QED BY <2>1, <2>2, <1>4
<1>7. gx + F \in 0..(W - 1) /\ gy \in Nat
  BY <1>4
<1>8. o \div W = gy /\ o % W = gx + F
  <2>1. PICK r \in 0..(W - 1) : r = gx + F
    BY <1>7
  <2>2. o = W * gy + r
    BY <2>1, <1>6
  <2> QED BY <2>1, <2>2, <1>7, DivisionIs
<1>9. o \in Nat /\ H * W \in Nat
  BY <1>6, <1>7
<1>10. o < H * W
  BY <1>8, <1>9, <1>4, DivisionBelow
<1> QED BY <1>1, <1>2, <1>3, <1>5, <1>8, <1>9, <1>10

\* Where the pixel at offset o of the stripe comes from.
StripePixel(o) ==
  LET source == <<(o % out_w) \div Scale, First(yi) + (o \div out_w) \div Scale>> IN
  [rgb |-> {source}, alpha |-> IF alpha THEN source ELSE <<>>]

\* The offsets of the columns of the stripe below n.
ColumnsBelow(n) == {o \in 0..(out_h * out_w - 1) : o % out_w < n * Scale}

\* In every orientation the network is read at the pixel below the spot.
LEMMA PixelIs ==
  ASSUME InStripe, tta_mode \in BOOLEAN, NEW x \in 0..(xtiles - 1),
         NEW gx \in 0..(gx_max(x) - 1), NEW gy \in 0..(out_h - 1)
  PROVE  PixelOf(x, gx, gy) = StripePixel(OutOffset(x, gx, gy))
<1> USE TileAssumption
<1>1. PICK n \in Nat \ {0} : n = NoPad(x, w)
  BY TileShape DEF xtiles, InStripe
<1>2. PICK m \in Nat \ {0} : m = NoPad(yi, h)
  BY TileShape DEF ytiles, InStripe
<1>3. gx \in 0..(n * Scale - 1) /\ gy \in 0..(m * Scale - 1) /\ gx \in Nat /\ gy \in Nat
  <2>1. gx_max(x) = n * Scale /\ out_h = m * Scale
    BY <1>1, <1>2, TileOutput DEF out_h
  <2> QED BY <2>1
<1>4. PICK mx \in 0..(n - 1) : mx = gx \div Scale
  BY <1>3, DivisionMirrored
<1>5. PICK my \in 0..(m - 1) : my = gy \div Scale
  BY <1>3, DivisionMirrored
<1>6. PICK P \in Nat : P = Pad * Scale
  OBVIOUS
<1>7. PICK sx \in Nat : sx = gx + P
  BY <1>3
<1>8. PICK sy \in Nat : sy = gy + P
  BY <1>3
<1>9. sx \div Scale = mx + Pad /\ sy \div Scale = my + Pad
  BY <1>3, <1>4, <1>5, <1>6, <1>7, <1>8, DivisionShifts
<1>10. PICK tw \in Nat : tw = tile_w(x) /\ tw = n + 2 * Pad
  BY <1>1 DEF tile_w
<1>11. PICK th \in Nat : th = tile_h /\ th = m + 2 * Pad
  BY <1>2 DEF tile_h
<1>12. sx \in 0..(tile_w(x) * Scale - 1) /\ sy \in 0..(tile_h * Scale - 1)
  <2>1. sx \div Scale < tw /\ sy \div Scale < th
    BY <1>4, <1>5, <1>9, <1>10, <1>11
  <2>2. sx < tw * Scale /\ sy < th * Scale
    BY <2>1, DivisionBelow
  <2>3. tw * Scale \in Nat /\ th * Scale \in Nat
    OBVIOUS
  <2> QED BY <2>2, <2>3, <1>10, <1>11
<1>13. PICK source : source = <<First(x) + mx, First(yi) + my>>
  OBVIOUS
<1>14. Preproc(x, mx + Pad, my + Pad) = source
  BY <1>1, <1>2, <1>4, <1>5, <1>13, MiddleOfTile DEF InStripe
<1>15. ASSUME NEW k \in 0..7
       PROVE  Upscaled(k, x, ReadBack(k, sx, sy, tile_w(x) * Scale, tile_h * Scale)) = source
  <2>1. Upscaled(k, x, ReadBack(k, sx, sy, tile_w(x) * Scale, tile_h * Scale))
          = Preproc(x, sx \div Scale, sy \div Scale)
    BY <1>10, <1>11, <1>12, UpscaledIs
  <2> QED BY <2>1, <1>9, <1>14
<1>16. Averaged(x, gx, gy) = {source}
  <2>1. Averaged(x, gx, gy) =
          {Upscaled(k, x, ReadBack(k, sx, sy, tile_w(x) * Scale, tile_h * Scale)) :
             k \in IF tta_mode THEN 0..7 ELSE {0}}
    BY <1>6, <1>7, <1>8 DEF Averaged
  <2>2. (IF tta_mode THEN 0..7 ELSE {0}) \subseteq 0..7 /\ 0 \in IF tta_mode THEN 0..7 ELSE {0}
    OBVIOUS
  <2> QED BY <2>1, <2>2, <1>15
<1>17. Alpha(x, gx, gy) = source
  BY <1>4, <1>5, <1>14 DEF Alpha
<1>18. (OutOffset(x, gx, gy) % out_w) \div Scale = First(x) + mx
  <2>1. PICK f \in Nat : f = First(x)
    BY TileShape DEF xtiles, InStripe
  <2>2. (gx + f * Scale) \div Scale = (gx \div Scale) + f
    BY <2>1, <1>3, DivisionShifts
  <2>3. OutOffset(x, gx, gy) % out_w = gx + f * Scale
    BY <2>1, OffsetIs
  <2> QED BY <2>1, <2>2, <2>3, <1>4
<1>19. (OutOffset(x, gx, gy) \div out_w) \div Scale = my
  BY <1>5, OffsetIs
<1> QED BY <1>13, <1>16, <1>17, <1>18, <1>19 DEF PixelOf, StripePixel

-----------------------------------------------------------------------------
(* The stripe                                                              *)

\* The offsets of a tile are those of its columns.
LEMMA SpotsAre ==
  ASSUME InStripe, NEW x \in 0..(xtiles - 1)
  PROVE  {OutOffset(x, s[1], s[2]) : s \in Spots(x)}
           = {o \in 0..(out_h * out_w - 1) :
                First(x) * Scale <= o % out_w /\ o % out_w < After(x, w) * Scale}
<1> DEFINE L == {OutOffset(x, s[1], s[2]) : s \in Spots(x)}
           R == {o \in 0..(out_h * out_w - 1) :
                   First(x) * Scale <= o % out_w /\ o % out_w < After(x, w) * Scale}
<1>1. PICK W \in Nat \ {0} : W = out_w
  BY TileOutput
<1>2. PICK F \in Nat : F = First(x) * Scale
  BY TileOutput
<1>3. PICK H \in Nat \ {0} : H = out_h
  BY TileOutput
<1>4. PICK m \in Nat : m = gx_max(x)
  BY TileOutput
<1>5. PICK a : a = After(x, w) * Scale
  OBVIOUS
<1>6. F + m = a
  BY <1>2, <1>4, <1>5, TileOutput
<1>7. ASSUME NEW gx \in 0..(m - 1), NEW gy \in 0..(H - 1)
      PROVE  OutOffset(x, gx, gy) \in R
  <2>1. /\ OutOffset(x, gx, gy) \in 0..(out_h * out_w - 1)
        /\ OutOffset(x, gx, gy) % out_w = gx + F
    BY <1>2, <1>3, <1>4, OffsetIs
  <2>2. F <= gx + F /\ gx + F < a
    BY <1>6
  <2> QED BY <2>1, <2>2, <1>2, <1>5
<1>8. L \subseteq R
  <2>1. SUFFICES ASSUME NEW s \in Spots(x) PROVE OutOffset(x, s[1], s[2]) \in R
    OBVIOUS
  <2>2. s[1] \in 0..(m - 1) /\ s[2] \in 0..(H - 1)
    BY <1>3, <1>4 DEF Spots
  <2> QED BY <2>2, <1>7
<1>9. ASSUME NEW o \in R PROVE o \in L
  <2>1. o \in 0..(H * W - 1) /\ F <= o % W /\ o % W < a
    BY <1>1, <1>2, <1>3, <1>5
  <2>2. o \in Nat /\ o < H * W
    <3>1. H * W \in Nat
      OBVIOUS
    <3> QED BY <2>1, <3>1
  <2>3. PICK gy \in Nat : gy = o \div W
    BY <2>2, Division
  <2>4. PICK r \in 0..(W - 1) : r = o % W
    BY <2>2, Division
  <2>5. o = W * gy + r
    BY <2>2, <2>3, <2>4, Division
  <2>6. gy \in 0..(H - 1)
    BY <2>2, <2>3, DivisionBelow
  <2>7. r - F \in 0..(m - 1)
    BY <2>1, <2>4, <1>6
  <2>8. <<r - F, gy>> \in Spots(x)
    BY <2>6, <2>7, <1>3, <1>4 DEF Spots
  <2>9. OutOffset(x, r - F, gy) = gy * W + (r - F) + F
    BY <1>1, <1>2 DEF OutOffset
  <2>10. gy * W \in Nat /\ gy * W = W * gy
    OBVIOUS
  <2>11. OutOffset(x, r - F, gy) = o
    BY <2>5, <2>9, <2>10
  <2> QED BY <2>8, <2>11
<1> QED BY <1>8, <1>9

\* A tile is painted over the ones before it.
LEMMA PaintedIs ==
  ASSUME InStripe, tta_mode \in BOOLEAN, NEW x \in 0..(xtiles - 1),
         DOMAIN out_gpu = ColumnsBelow(First(x)),
         \A o \in DOMAIN out_gpu : out_gpu[o] = StripePixel(o)
  PROVE  /\ DOMAIN Painted(x) = ColumnsBelow(After(x, w))
         /\ \A o \in DOMAIN Painted(x) : Painted(x)[o] = StripePixel(o)
<1> DEFINE S == {OutOffset(x, s[1], s[2]) : s \in Spots(x)}
           Value(o) == LET s == CHOOSE t \in Spots(x) : OutOffset(x, t[1], t[2]) = o
                       IN PixelOf(x, s[1], s[2])
<1>1. /\ DOMAIN Painted(x) = S \cup DOMAIN out_gpu
      /\ \A o \in DOMAIN Painted(x) : Painted(x)[o] = IF o \in S THEN Value(o) ELSE out_gpu[o]
  BY DEF Painted, Paint, Over
<1>2. ASSUME NEW o \in S PROVE Value(o) = StripePixel(o)
  <2>1. PICK r \in Spots(x) : OutOffset(x, r[1], r[2]) = o
    OBVIOUS
  <2>2. \E s \in Spots(x) : /\ s = (CHOOSE t \in Spots(x) : OutOffset(x, t[1], t[2]) = o)
                            /\ OutOffset(x, s[1], s[2]) = o
    BY <2>1
  <2>3. PICK s \in Spots(x) : /\ s = (CHOOSE t \in Spots(x) : OutOffset(x, t[1], t[2]) = o)
                              /\ OutOffset(x, s[1], s[2]) = o
    BY <2>2
  <2>4. Value(o) = PixelOf(x, s[1], s[2])
    BY <2>3
  <2>5. s[1] \in 0..(gx_max(x) - 1) /\ s[2] \in 0..(out_h - 1)
    BY DEF Spots
  <2> QED BY <2>3, <2>4, <2>5, PixelIs
<1> HIDE DEF Value
<1>3. S \cup ColumnsBelow(First(x)) = ColumnsBelow(After(x, w))
  <2>1. PICK W \in Nat \ {0} : W = out_w
    BY TileOutput
  <2>2. PICK F \in Nat : F = First(x) * Scale
    BY TileOutput
  <2>3. PICK H \in Nat \ {0} : H = out_h
    BY TileOutput
  <2>4. PICK a \in Int : a = After(x, w) * Scale /\ F <= a
    <3>1. PICK m \in Nat : m = gx_max(x)
      BY TileOutput
    <3>2. F + m = After(x, w) * Scale
      BY <2>2, <3>1, TileOutput
    <3> QED BY <3>2
  <2>5. S = {o \in 0..(H * W - 1) : F <= o % W /\ o % W < a}
    BY <2>1, <2>2, <2>3, <2>4, SpotsAre
  <2>6. ColumnsBelow(First(x)) = {o \in 0..(H * W - 1) : o % W < F}
    BY <2>1, <2>2, <2>3 DEF ColumnsBelow
  <2>7. ColumnsBelow(After(x, w)) = {o \in 0..(H * W - 1) : o % W < a}
    BY <2>1, <2>3, <2>4 DEF ColumnsBelow
  <2>8. ASSUME NEW o \in 0..(H * W - 1) PROVE o % W \in Int
    <3>1. o \in Nat
      OBVIOUS
    <3> QED BY <3>1, Division
  <2> HIDE DEF S
  <2> QED BY <2>4, <2>5, <2>6, <2>7, <2>8
<1> HIDE DEF S
<1>4. DOMAIN Painted(x) = ColumnsBelow(After(x, w))
  BY <1>1, <1>3
<1>5. ASSUME NEW o \in DOMAIN Painted(x) PROVE Painted(x)[o] = StripePixel(o)
  <2>1. CASE o \in S
    BY <2>1, <1>1, <1>2
  <2>2. CASE o \notin S
    <3>1. o \in DOMAIN out_gpu
      BY <2>2, <1>3, <1>4
    <3> QED BY <3>1, <2>2, <1>1
  <2> QED BY <2>1, <2>2
<1> QED BY <1>4, <1>5

\* No column is left of the first, and none right of the last.
LEMMA ColumnsAre ==
  ASSUME InStripe
  PROVE  ColumnsBelow(0) = {} /\ ColumnsBelow(w) = 0..(out_h * out_w - 1)
<1>1. PICK W \in Nat \ {0} : W = out_w /\ W = w * Scale
  <2>1. w * Scale \in Nat \ {0}
    <3>1. 1 * Scale <= w * Scale /\ w * Scale \in Nat
      BY TimesGrows, TileAssumption DEF InStripe
    <3> QED BY <3>1, TileAssumption
  <2> QED BY <2>1 DEF out_w
<1>2. PICK B : B = 0..(out_h * out_w - 1)
  OBVIOUS
<1>3. ASSUME NEW o \in B PROVE o % W \in 0..(W - 1)
  <2>1. o \in Nat
    BY <1>2
  <2> QED BY <2>1, Division
<1>4. 0 * Scale = 0
  BY TileAssumption
<1> QED BY <1>1, <1>2, <1>3, <1>4 DEF ColumnsBelow

-----------------------------------------------------------------------------
(* The inductive invariant                                                 *)

\* The stripe is painted up to the current tile; where it is the only one, it
\* is recorded instead.
StripeInv ==
  pc \in {"tile", "download"} =>
    IF xtiles > 1
    THEN /\ recorded = {}
         /\ DOMAIN out_gpu = ColumnsBelow(Least(First(xi), w))
         /\ \A o \in DOMAIN out_gpu : out_gpu[o] = StripePixel(o)
    ELSE out_gpu = Nothing /\ recorded = IF xi = 0 THEN {} ELSE {0}

\* The image is written up to the current stripe.
ImageInv ==
  /\ DOMAIN out = 0..(Least(First(yi), h) * Scale * out_w - 1)
  /\ \A o \in DOMAIN out : out[o] = Expected(o)

GridInv == GridTypeOK /\ StripeInv /\ ImageInv

LEMMA SizesAre ==
  ASSUME GridTypeOK
  PROVE  /\ w \in Nat \ {0} /\ h \in Nat \ {0}
         /\ xtiles \in Nat \ {0} /\ ytiles \in Nat \ {0}
         /\ pc # "done" => yi \in 0..(ytiles - 1) /\ InStripe
<1>1. w \in Nat \ {0} /\ h \in Nat \ {0}
  BY TileAssumption DEF GridTypeOK
<1>2. xtiles \in Nat \ {0} /\ ytiles \in Nat \ {0}
  BY <1>1, TilesCover DEF xtiles, ytiles
<1>3. pc # "done" => yi \in 0..(ytiles - 1)
  BY <1>2 DEF GridTypeOK
<1> QED BY <1>1, <1>2, <1>3 DEF InStripe

LEMMA FirstOfZero == First(0) = 0
BY TileAssumption DEF First

LEMMA GridStarts == GridInit => GridInv
<1> SUFFICES ASSUME GridInit PROVE GridInv
  OBVIOUS
<1>1. w \in Nat \ {0} /\ h \in Nat \ {0}
  BY TileAssumption DEF GridInit
<1>2. xtiles \in Nat \ {0} /\ ytiles \in Nat \ {0}
  BY <1>1, TilesCover DEF xtiles, ytiles
<1>3. GridTypeOK
  <2>1. progress = yi * xtiles
    BY <1>2 DEF GridInit
  <2> QED BY <2>1, <1>2 DEF GridInit, GridTypeOK
<1>4. StripeInv
  BY DEF GridInit, StripeInv
<1>5. ImageInv
  <2>1. Least(First(yi), h) = 0
    BY <1>1, FirstOfZero DEF GridInit, Least
  <2>2. out_w \in Nat
    BY <1>1, TileAssumption DEF out_w
  <2>3. 0 * Scale * out_w = 0
    BY <2>2, TileAssumption
  <2>4. DOMAIN out = {}
    BY DEF GridInit, Nothing
  <2> QED BY <2>1, <2>3, <2>4 DEF ImageInv
<1> QED BY <1>3, <1>4, <1>5 DEF GridInv

\* What depends on the size of the image and the number of the stripe only.
LEMMA SameStripe ==
  ASSUME UNCHANGED <<w, h, alpha, yi>>
  PROVE  /\ xtiles' = xtiles /\ ytiles' = ytiles /\ out_w' = out_w /\ out_h' = out_h
         /\ \A o : StripePixel(o)' = StripePixel(o) /\ Expected(o)' = Expected(o)
         /\ \A n : ColumnsBelow(n)' = ColumnsBelow(n)
<1>1. xtiles' = xtiles /\ ytiles' = ytiles /\ out_w' = out_w /\ out_h' = out_h
  BY DEF xtiles, ytiles, out_w, out_h, Tiles, NoPad, After, Least, First
<1>2. First(yi)' = First(yi)
  BY DEF First
<1> QED BY <1>1, <1>2 DEF StripePixel, Expected, ColumnsBelow

LEMMA UploadStep == GridInv /\ Upload => GridInv'
<1> SUFFICES ASSUME GridInv, Upload PROVE GridInv'
  OBVIOUS
<1>1. xtiles \in Nat \ {0} /\ ytiles \in Nat \ {0} /\ w \in Nat \ {0} /\ h \in Nat \ {0} /\ InStripe
  BY SizesAre DEF GridInv, Upload
<1>2. /\ xtiles' = xtiles /\ ytiles' = ytiles /\ out_w' = out_w
      /\ \A o : StripePixel(o)' = StripePixel(o) /\ Expected(o)' = Expected(o)
      /\ \A n : ColumnsBelow(n)' = ColumnsBelow(n)
  BY SameStripe DEF Upload
<1>3. GridTypeOK'
  BY <1>1, <1>2 DEF GridInv, Upload, GridTypeOK
<1>4. recorded' = {} /\ xi' = 0 /\ out_gpu' = Nothing /\ DOMAIN Nothing = {}
  BY DEF GridInv, GridTypeOK, Upload, Nothing
<1>5. StripeInv'
  <2>1. Least(First(xi), w)' = 0
    BY <1>1, <1>4, FirstOfZero DEF Least, Upload
  <2>2. ColumnsBelow(Least(First(xi), w))' = ColumnsBelow(0)'
    BY <2>1 DEF ColumnsBelow
  <2>3. ColumnsBelow(0)' = {}
    BY <1>1, <1>2, ColumnsAre
  <2> QED BY <2>2, <2>3, <1>2, <1>4 DEF StripeInv
<1>6. ImageInv'
  BY <1>2 DEF GridInv, Upload, ImageInv, Least, First
<1> QED BY <1>3, <1>5, <1>6 DEF GridInv

LEMMA TileStep == GridInv /\ Tile => GridInv'
<1> SUFFICES ASSUME GridInv, Tile PROVE GridInv'
  OBVIOUS
<1>1. /\ xtiles \in Nat \ {0} /\ ytiles \in Nat \ {0} /\ w \in Nat \ {0} /\ h \in Nat \ {0} /\ InStripe
      /\ yi \in 0..(ytiles - 1)
  BY SizesAre DEF GridInv, Tile
<1>2. /\ xtiles' = xtiles /\ ytiles' = ytiles /\ out_w' = out_w
      /\ \A o : StripePixel(o)' = StripePixel(o) /\ Expected(o)' = Expected(o)
      /\ \A n : ColumnsBelow(n)' = ColumnsBelow(n)
  BY SameStripe DEF Tile
<1>3. xi \in 0..(xtiles - 1) /\ xi' = xi + 1 /\ pc = "tile" /\ tta_mode \in BOOLEAN
  BY <1>1 DEF GridInv, GridTypeOK, Tile
<1>4. GridTypeOK'
  <2>1. w' = w /\ h' = h /\ alpha' = alpha /\ tta_mode' = tta_mode /\ yi' = yi
    BY DEF Tile
  <2>2. pc' = IF xi' = xtiles THEN "download" ELSE "tile"
    BY DEF Tile
  <2>3. progress' = yi' * xtiles' + xi'
    <3>1. yi * xtiles \in Nat
      BY <1>1
    <3> QED BY <3>1, <2>1, <1>2, <1>3 DEF Tile
  <2>4. recorded' # {} => xtiles' = 1 /\ pc' = "download"
    BY <1>1, <1>2, <1>3, <2>2 DEF Tile, GridInv, GridTypeOK
  <2> QED BY <2>1, <2>2, <2>3, <2>4, <1>1, <1>2, <1>3 DEF GridInv, GridTypeOK
<1>5. StripeInv'
  <2>1. CASE xtiles > 1
    <3>1. recorded' = {} /\ out_gpu' = Painted(xi)
      BY <2>1, <1>3 DEF GridInv, StripeInv, Tile
    <3>2. DOMAIN out_gpu = ColumnsBelow(First(xi)) /\ \A o \in DOMAIN out_gpu : out_gpu[o] = StripePixel(o)
      <4>1. Least(First(xi), w) = First(xi)
        BY <1>1, <1>3, TileShape DEF Least, xtiles
      <4> QED BY <4>1, <2>1, <1>3 DEF GridInv, StripeInv
    <3>3. /\ DOMAIN Painted(xi) = ColumnsBelow(After(xi, w))
          /\ \A o \in DOMAIN Painted(xi) : Painted(xi)[o] = StripePixel(o)
      BY <3>2, <1>1, <1>3, PaintedIs
    <3>4. After(xi, w) = Least(First(xi'), w')
      BY <1>1, <1>3, TileShape DEF xtiles, Tile
    <3> QED BY <3>1, <3>3, <3>4, <2>1, <1>2 DEF StripeInv
  <2>2. CASE ~(xtiles > 1)
    <3>1. xi = 0 /\ out_gpu' = Nothing /\ recorded' = {0} /\ xi' # 0
      BY <2>2, <1>1, <1>3 DEF GridInv, StripeInv, Tile
    <3> QED BY <3>1, <2>2, <1>2 DEF StripeInv
  <2> QED BY <2>1, <2>2
<1>6. ImageInv'
  BY <1>2 DEF GridInv, Tile, ImageInv, Least, First
<1> QED BY <1>4, <1>5, <1>6 DEF GridInv

LEMMA Products ==
  ASSUME NEW a \in Nat, NEW b \in Nat, NEW c \in Nat
  PROVE  /\ a * b \in Nat /\ a * b = b * a /\ (a * b) * c = a * (b * c)
         /\ (a + b) * c = a * c + b * c
OBVIOUS

\* The stripe goes below the ones before it.
LEMMA OffsetOfStripe ==
  ASSUME InStripe
  PROVE  yi * Scale * TileSize * w * Scale = First(yi) * Scale * out_w
<1> USE TileAssumption
<1>1. PICK y \in Nat : y = yi
  BY TilesCover DEF InStripe, ytiles
<1>2. PICK W \in Nat : W = w
  BY DEF InStripe
<1>3. y * Scale * TileSize = y * TileSize * Scale
  <2>1. y * Scale * TileSize = y * (Scale * TileSize) /\ y * TileSize * Scale = y * (TileSize * Scale)
    BY Products
  <2>2. Scale * TileSize = TileSize * Scale
    BY Products
  <2> QED BY <2>1, <2>2
<1>4. PICK b \in Nat : b = y * TileSize * Scale
  <2>1. y * TileSize \in Nat
    BY Products
  <2>2. y * TileSize * Scale \in Nat
    BY <2>1, Products
  <2> QED BY <2>2
<1>5. b * W * Scale = b * (W * Scale)
  BY Products
<1>6. yi * Scale * TileSize * w * Scale = b * W * Scale
  BY <1>1, <1>2, <1>3, <1>4
<1>7. First(yi) * Scale * out_w = b * (W * Scale)
  BY <1>1, <1>2, <1>4 DEF First, out_w
<1> QED BY <1>5, <1>6, <1>7

LEMMA StripePixelIs ==
  ASSUME InStripe, NEW offset \in Nat, offset = First(yi) * Scale * out_w,
         NEW s \in 0..(out_h * out_w - 1)
  PROVE  Expected(offset + s) = StripePixel(s)
<1> USE TileAssumption
<1>1. PICK W \in Nat \ {0} : W = out_w
  BY SizesAre, TilesCover, TileOutput DEF InStripe, xtiles
<1>2. PICK f \in Nat : f = First(yi)
  BY TileShape DEF ytiles, InStripe
<1>3. PICK k \in Nat : k = f * Scale
  BY Products
<1>4. s \in Nat
  OBVIOUS
<1>5. PICK o \in Nat : o = s + k * W
  BY <1>4, Products
<1>6. o \div W = (s \div W) + k /\ o % W = s % W
  BY <1>4, <1>5, DivisionShifts
<1>7. PICK q \in Nat : q = s \div W
  BY <1>4, Division
<1>8. (q + f * Scale) \div Scale = (q \div Scale) + f
  BY DivisionShifts
<1>9. (o \div W) \div Scale = f + ((s \div W) \div Scale)
  <2>1. PICK p \in Nat : p = q \div Scale
    BY Division
  <2>2. o \div W = q + f * Scale
    BY <1>3, <1>6, <1>7
  <2>3. (o \div W) \div Scale = p + f
    BY <2>1, <2>2, <1>8
  <2> QED BY <2>1, <2>3, <1>7
<1>10. o = offset + s
  <2>1. offset = k * W
    BY <1>1, <1>2, <1>3
  <2> QED BY <2>1, <1>4, <1>5
<1> QED BY <1>1, <1>2, <1>6, <1>9, <1>10 DEF Expected, StripePixel

\* The first rows of the image and the stripe are the first rows of the next.
LEMMA RowsJoin ==
  ASSUME InStripe, NEW offset \in Nat, offset = First(yi) * Scale * out_w
  PROVE  /\ offset = Least(First(yi), h) * Scale * out_w
         /\ offset + out_h * out_w = Least(First(yi + 1), h) * Scale * out_w
         /\ out_h * out_w \in Nat
<1> USE TileAssumption
<1>1. PICK W \in Nat \ {0} : W = out_w
  BY TilesCover, TileOutput DEF InStripe, xtiles
<1>2. PICK f \in Nat : f = First(yi) /\ f < h
  BY TileShape DEF ytiles, InStripe
<1>3. PICK m \in Nat : m = NoPad(yi, h)
  BY TileShape DEF ytiles, InStripe
<1>4. Least(First(yi + 1), h) = f + m
  BY <1>2, <1>3, TileShape DEF ytiles, InStripe
<1>5. PICK F \in Nat : F = f * Scale
  BY Products
<1>6. PICK H \in Nat : H = m * Scale
  BY Products
<1>7. (f + m) * Scale = F + H
  BY <1>5, <1>6, Products
<1>8. (F + H) * W = F * W + H * W
  BY Products
<1>9. Least(First(yi), h) = f
  BY <1>2 DEF Least, InStripe
<1>10. out_h * out_w = H * W /\ H * W \in Nat
  BY <1>1, <1>3, <1>6, Products DEF out_h
<1> QED BY <1>1, <1>2, <1>4, <1>5, <1>7, <1>8, <1>9, <1>10

LEMMA DownloadStep == GridInv /\ Download => GridInv'
<1> SUFFICES ASSUME GridInv, Download PROVE GridInv'
  OBVIOUS
<1>1. /\ xtiles \in Nat \ {0} /\ ytiles \in Nat \ {0} /\ w \in Nat \ {0} /\ h \in Nat \ {0} /\ InStripe
      /\ yi \in 0..(ytiles - 1)
  BY SizesAre DEF GridInv, Download
<1>2. w' = w /\ h' = h /\ alpha' = alpha /\ tta_mode' = tta_mode /\ xi' = xi /\ progress' = progress
  BY DEF Download
<1>3. xtiles' = xtiles /\ ytiles' = ytiles /\ out_w' = out_w /\ \A o : Expected(o)' = Expected(o)
  BY <1>2 DEF xtiles, ytiles, out_w, Expected, Tiles
<1>4. /\ xi = xtiles /\ pc = "download" /\ yi' = yi + 1 /\ recorded' = {}
      /\ pc' = IF yi' = ytiles THEN "done" ELSE "upload"
  BY DEF GridInv, GridTypeOK, Download
<1>5. GridTypeOK'
  <2>1. (yi + 1) * xtiles = yi * xtiles + xtiles /\ (yi + 1) * xtiles \in Nat
    BY <1>1, Products
  <2>2. progress' = yi' * xtiles'
    BY <2>1, <1>2, <1>3, <1>4 DEF GridInv, GridTypeOK
  <2> QED BY <2>1, <2>2, <1>1, <1>2, <1>3, <1>4 DEF GridInv, GridTypeOK
<1>6. StripeInv'
  BY <1>4 DEF StripeInv
<1>7. PICK stripe : /\ stripe = IF recorded = {} THEN out_gpu ELSE Painted(0)
                    /\ DOMAIN stripe = 0..(out_h * out_w - 1)
                    /\ \A s \in DOMAIN stripe : stripe[s] = StripePixel(s)
  <2>1. ColumnsBelow(w) = 0..(out_h * out_w - 1) /\ ColumnsBelow(0) = {}
    BY <1>1, ColumnsAre
  <2>2. First(xtiles) \in Nat /\ First(xtiles) >= w
    <3>1. First(xtiles) >= w
      BY <1>1, TilesCover DEF xtiles
    <3>2. First(xtiles) \in Nat
      BY <1>1, Products, TileAssumption DEF First
    <3> QED BY <3>1, <3>2
  <2>3. CASE xtiles > 1
    <3>1. Least(First(xi), w) = w
      BY <2>2, <1>1, <1>4 DEF Least
    <3> QED BY <3>1, <2>1, <2>3, <1>4 DEF GridInv, StripeInv
  <2>4. CASE ~(xtiles > 1)
    <3>1. xtiles = 1 /\ recorded = {0} /\ out_gpu = Nothing
      BY <2>4, <1>1, <1>4 DEF GridInv, StripeInv
    <3>2. DOMAIN out_gpu = ColumnsBelow(First(0)) /\ 0 \in 0..(xtiles - 1)
      BY <2>1, <3>1, FirstOfZero DEF Nothing
    <3>3. After(0, w) = w
      BY <1>1, <3>1, <3>2, TileShape DEF xtiles
    <3>4. \A o \in DOMAIN out_gpu : out_gpu[o] = StripePixel(o)
      BY <3>2, <2>1, FirstOfZero
    <3>5. tta_mode \in BOOLEAN
      BY DEF GridInv, GridTypeOK
    <3>6. /\ DOMAIN Painted(0) = ColumnsBelow(w)
          /\ \A o \in DOMAIN Painted(0) : Painted(0)[o] = StripePixel(o)
      BY <1>1, <3>2, <3>3, <3>4, <3>5, PaintedIs
    <3> QED BY <2>1, <3>1, <3>6
  <2> QED BY <2>3, <2>4
<1>8. PICK offset \in Nat : offset = First(yi) * Scale * out_w
  <2>1. First(yi) \in Nat /\ out_w \in Nat
    BY <1>1, TileShape, TileOutput DEF ytiles
  <2>2. First(yi) * Scale \in Nat
    BY <2>1, Products, TileAssumption
  <2> QED BY <2>1, <2>2, Products
<1>9. out' = Over([o \in {offset + s : s \in DOMAIN stripe} |-> stripe[o - offset]], out)
  BY <1>1, <1>7, <1>8, OffsetOfStripe DEF Download
<1>10. PICK n \in Nat : n = out_h * out_w
  BY <1>1, <1>8, RowsJoin
<1>11. DOMAIN out = 0..(offset - 1) /\ \A o \in DOMAIN out : out[o] = Expected(o)
  BY <1>1, <1>8, RowsJoin DEF GridInv, ImageInv
<1>12. Least(First(yi), h)' * Scale * out_w' = offset + n
  <2>1. Least(First(yi), h)' = Least(First(yi + 1), h)
    BY <1>2, <1>4 DEF Least, First
  <2> QED BY <2>1, <1>1, <1>3, <1>8, <1>10, RowsJoin
<1>13. {offset + s : s \in DOMAIN stripe} = offset..(offset + n - 1)
  <2>1. DOMAIN stripe = 0..(n - 1)
    BY <1>7, <1>10
  <2>2. ASSUME NEW o \in offset..(offset + n - 1)
        PROVE  o - offset \in 0..(n - 1) /\ o = offset + (o - offset)
    OBVIOUS
  <2>3. ASSUME NEW s \in 0..(n - 1) PROVE offset + s \in offset..(offset + n - 1)
    OBVIOUS
  <2> DEFINE L == {offset + s : s \in 0..(n - 1)}
             R == offset..(offset + n - 1)
  <2>4. L \subseteq R
    BY <2>3
  <2>5. R \subseteq L
    BY <2>2
  <2>6. L = R
    BY <2>4, <2>5
  <2> QED BY <2>1, <2>6
<1>14. DOMAIN out' = 0..(offset + n - 1)
  BY <1>9, <1>11, <1>13 DEF Over
<1>15. ASSUME NEW o \in DOMAIN out' PROVE out'[o] = Expected(o)
  <2>1. CASE o \in offset..(offset + n - 1)
    <3>1. out'[o] = stripe[o - offset]
      BY <2>1, <1>9, <1>13, <1>14 DEF Over
    <3>2. PICK s \in 0..(n - 1) : s = o - offset /\ o = offset + s
      BY <2>1
    <3>3. stripe[s] = StripePixel(s)
      BY <3>2, <1>7, <1>10
    <3>4. Expected(offset + s) = StripePixel(s)
      BY <3>2, <1>1, <1>8, <1>10, StripePixelIs
    <3> QED BY <3>1, <3>2, <3>3, <3>4
  <2>2. CASE o \notin offset..(offset + n - 1)
    <3>1. o \in DOMAIN out
      BY <2>2, <1>11, <1>14
    <3>2. out'[o] = out[o]
      BY <3>1, <2>2, <1>9, <1>13, <1>14 DEF Over
    <3> QED BY <3>1, <3>2, <1>11
  <2> QED BY <2>1, <2>2
<1>16. ImageInv'
  BY <1>3, <1>12, <1>14, <1>15 DEF ImageInv
<1> QED BY <1>5, <1>6, <1>16 DEF GridInv

LEMMA GridStep == GridInv /\ [GridNext]_gridVars => GridInv'
<1> SUFFICES ASSUME GridInv, [GridNext]_gridVars PROVE GridInv'
  OBVIOUS
<1>1. CASE UNCHANGED gridVars
  <2>1. xtiles' = xtiles /\ ytiles' = ytiles /\ out_w' = out_w /\ out_h' = out_h
    BY <1>1, SameStripe DEF gridVars
  <2>2. GridTypeOK'
    BY <1>1, <2>1 DEF gridVars, GridInv, GridTypeOK
  <2>3. StripeInv'
    BY <1>1, SameStripe DEF gridVars, GridInv, StripeInv, Least, First
  <2>4. ImageInv'
    BY <1>1, SameStripe DEF gridVars, GridInv, ImageInv, Least, First
  <2> QED BY <2>2, <2>3, <2>4 DEF GridInv
<1> QED BY <1>1, UploadStep, TileStep, DownloadStep DEF GridNext

LEMMA GridInvariant == GridSpec => []GridInv
BY GridStarts, GridStep, PTL DEF GridSpec

\* The type invariant of TileGrid, and with it that progress counts the tiles.
THEOREM TilesAreCounted == GridSpec => []GridTypeOK
<1>1. GridInv => GridTypeOK
  BY DEF GridInv
<1> QED BY <1>1, GridInvariant, PTL

\* process_image writes every pixel of the output, and makes it of the pixel
\* below it, for every size of image, tile and padding.
THEOREM ImageIsOutput == GridSpec => []OutputIsImage
<1>1. GridInv => OutputIsImage
  <2> SUFFICES ASSUME GridInv PROVE OutputIsImage
    OBVIOUS
  <2>1. ASSUME pc = "done" PROVE DOMAIN out = 0..(out_w * h * Scale - 1)
    <3>1. w \in Nat \ {0} /\ h \in Nat \ {0} /\ Scale \in Nat
      BY SizesAre, TileAssumption DEF GridInv
    <3>2. yi = ytiles
      BY <2>1 DEF GridInv, GridTypeOK
    <3>3. First(yi) >= h /\ First(yi) \in Nat
      <4>1. First(ytiles) >= h /\ ytiles \in Nat
        BY <3>1, TilesCover DEF ytiles
      <4>2. First(ytiles) \in Nat
        BY <4>1, Products, TileAssumption DEF First
      <4> QED BY <4>1, <4>2, <3>2
    <3>4. Least(First(yi), h) = h
      BY <3>1, <3>3 DEF Least
    <3>5. PICK W \in Nat : W = out_w
      BY <3>1, Products DEF out_w
    <3>6. PICK H \in Nat : H = h
      BY <3>1
    <3>7. H * Scale * W = W * H * Scale
      <4>1. H * Scale \in Nat /\ H * Scale * W = W * (H * Scale) /\ W * H * Scale = W * (H * Scale)
        BY <3>1, Products
      <4> QED BY <4>1
    <3> QED BY <3>4, <3>5, <3>6, <3>7 DEF GridInv, ImageInv
  <2> QED BY <2>1 DEF GridInv, ImageInv, OutputIsImage
<1> QED BY <1>1, GridInvariant, PTL

\* The preproc shader pads a tile with its surroundings, for every image that is
\* larger than the padding: it never reads outside of the stripe.
THEOREM TilesArePadded == GridSpec => []PaddingIsSurrounding
<1>1. GridInv => PaddingIsSurrounding
  <2> SUFFICES ASSUME GridInv, pc = "tile", w > Pad, h > Pad
               PROVE  /\ ReadsUploaded
                      /\ \A gx \in 0..(tile_w(xi) - 1), gy \in 0..(tile_h - 1) :
                           Preproc(xi, gx, gy) =
                             <<MirroredImage(First(xi) - Pad + gx, w),
                               MirroredImage(First(yi) - Pad + gy, h)>>
    BY DEF PaddingIsSurrounding
  <2>1. w \in Nat /\ h \in Nat /\ yi \in 0..(ytiles - 1) /\ xtiles \in Nat
    BY SizesAre DEF GridInv
  <2>2. xi \in 0..(xtiles - 1)
    BY <2>1 DEF GridInv, GridTypeOK
  <2>3. \A gx \in 0..(tile_w(xi) - 1) :
          /\ ReadX(xi, gx) \in 0..(w - 1)
          /\ ReadX(xi, gx) = MirroredImage(First(xi) - Pad + gx, w)
    BY <2>1, <2>2, ColumnsAreSurrounding
  <2>4. \A gy \in 0..(tile_h - 1) :
          /\ ReadY(gy) \in 0..(in_tile_y1 - in_tile_y0 - 1)
          /\ in_tile_y0 + ReadY(gy) = MirroredImage(First(yi) - Pad + gy, h)
    BY <2>1, RowsAreSurrounding
  <2> QED BY <2>3, <2>4 DEF ReadsUploaded, Preproc
<1> QED BY <1>1, GridInvariant, PTL
===============================================================================
