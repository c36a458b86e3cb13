--------------------------- MODULE ProcessorLoader ----------------------------
(***************************************************************************)
(* ProcessorLoader (internal/processor-loader.cpp): it scans directories   *)
(* for libraries, keeps a list of the modules it has loaded, and remembers *)
(* for every container at which index of the list its module was.          *)
(*                                                                         *)
(* The file system and the dynamic linker are external: a directory is     *)
(* read in any order, and a library stays loaded while dlopen was called   *)
(* more often than dlclose.                                                *)
(***************************************************************************)
EXTENDS Naturals, SequencesExt

CONSTANTS
  Names,       \* directory names
  Libs,        \* the libraries on the disk
  defaultLoadDir,
  additional,  \* additionalDirectories of the constructor
  Place,       \* Place[n]: the directory name n refers to
  Missing,     \* the place that does not exist
  LibsAt,      \* LibsAt[p]: the libraries below place p
  Resident,    \* the libraries that are linked to the program
  OnlyLooks,   \* RTLD_NOLOAD: a library is verified only if it is loaded
  MaxLoads     \* bound: calls of reload

ASSUME LoaderAssumption ==
  /\ defaultLoadDir \in Names /\ additional \in Seq(Names)
  /\ DOMAIN Place = Names
  /\ \A n \in Names : Place[n] # Missing => LibsAt[Place[n]] \subseteq Libs
  /\ IsFiniteSet(Libs) /\ Resident \subseteq Libs /\ OnlyLooks \in BOOLEAN /\ MaxLoads \in Nat

VARIABLES
  m_loadDirectories,
  m_modules,     \* the library of every module, by index
  m_processors,  \* m_processors[c]: the index container c was allocated from
  refs,          \* refs[l]: how often library l is open
  home,          \* home[c]: the library whose code container c runs
  loads,         \* how often modules were loaded
  misrouted      \* history: the containers given to a module that did not
                 \* allocate them, or to none

loaderVars == <<m_loadDirectories, m_modules, m_processors, refs, home, loads, misrouted>>

Alive == DOMAIN m_processors

\* fs::exists and fs::is_directory.
Exists(n) == Place[n] # Missing

\* verifyModules looks for GetProcessorModule in a library that is open; what
\* is not open it opens, or passes over when it only looks.
Verified(l) == OnlyLooks => l \in Resident

\* The lists of the values in S, a set of <<place, value>>: by their places, and
\* in any order where these are the same.
Listed(S) ==
  {[n \in DOMAIN s |-> s[n][2]] :
     s \in {s \in SetToSeqs(S) : \A m, n \in DOMAIN s : m < n => s[m][1] <= s[n][1]}}

\* loadDirectories: the modules of one directory after the other, whatever was
\* loaded before.
Found(dir) == IF Exists(dir) THEN {l \in LibsAt[Place[dir]] : Verified(l)} ELSE {}
Scanned(dirs) == Listed(UNION {{<<k, l>> : l \in Found(dirs[k])} : k \in DOMAIN dirs})

\* How often a list of modules has library l open.
Opens(modules, l) == Cardinality({k \in DOMAIN modules : modules[k] = l})
RefsOf(modules) == [l \in Libs |-> Opens(modules, l) + IF l \in Resident THEN 1 ELSE 0]

\* The constructor asks whether fs::equivalent may throw, not what it returns:
\* no directory is ever found to be there already.
LoaderInit ==
  /\ m_loadDirectories \in
       {<<defaultLoadDir>> \o dirs :
          dirs \in Listed({<<k, additional[k]>> : k \in {k \in DOMAIN additional : Exists(additional[k])}})}
  /\ m_modules \in Scanned(m_loadDirectories)
  /\ refs = RefsOf(m_modules)
  /\ m_processors = <<>> /\ home = <<>>
  /\ loads = 1 /\ misrouted = {}

\* unload closes what is open and loadDirectories opens again; m_processors
\* keeps its indices.
Reload ==
  /\ loads < MaxLoads
  /\ loads' = loads + 1
  /\ m_modules' \in Scanned(m_loadDirectories')
  /\ refs' = RefsOf(m_modules')
  /\ UNCHANGED <<m_processors, home, misrouted>>

reload == UNCHANGED m_loadDirectories /\ Reload

\* A place that is there already is refused.  fs::equivalent throws when a
\* directory of the list does not exist, and nothing is added.
addLoadDir(n) ==
  /\ Exists(n)
  /\ \A k \in DOMAIN m_loadDirectories : Place[m_loadDirectories[k]] \notin {Missing, Place[n]}
  /\ m_loadDirectories' = Append(m_loadDirectories, n)
  /\ Reload

\* The modules are loaded again whether the index is one of the list or not.
removeLoadDir(index) ==
  /\ m_loadDirectories' = IF index + 1 \in DOMAIN m_loadDirectories
                          THEN RemoveAt(m_loadDirectories, index + 1) ELSE m_loadDirectories
  /\ Reload

\* Mutant: the index is remembered counting from 1.
Allocate_CountsFromOne(c, index) ==
  /\ c \notin Alive /\ index + 1 \in DOMAIN m_modules
  /\ m_processors' = [d \in Alive \cup {c} |-> IF d = c THEN index + 1 ELSE m_processors[d]]
  /\ home' = [d \in Alive \cup {c} |-> IF d = c THEN m_modules[index + 1] ELSE home[d]]
  /\ UNCHANGED <<m_loadDirectories, m_modules, refs, loads, misrouted>>

\* m_processors[container] = index, counting from 0.
Allocate(c, index) ==
  /\ c \notin Alive /\ index + 1 \in DOMAIN m_modules
  /\ m_processors' = [d \in Alive \cup {c} |-> IF d = c THEN index ELSE m_processors[d]]
  /\ home' = [d \in Alive \cup {c} |-> IF d = c THEN m_modules[index + 1] ELSE home[d]]
  /\ UNCHANGED <<m_loadDirectories, m_modules, refs, loads, misrouted>>

\* Mutant: the entry of the container stays.
destroyContainer_Keeps(c) ==
  /\ c \in Alive
  /\ misrouted' = misrouted
  /\ UNCHANGED <<m_loadDirectories, m_modules, m_processors, refs, home, loads>>

\* The index is used as it was remembered, with the modules of today.
destroyContainer(c) ==
  LET index == m_processors[c] IN
  /\ m_processors' = [d \in Alive \ {c} |-> m_processors[d]]
  /\ home' = [d \in Alive \ {c} |-> home[d]]
  /\ misrouted' = IF index + 1 \in DOMAIN m_modules /\ m_modules[index + 1] = home[c]
                  THEN misrouted ELSE misrouted \cup {c}
  /\ UNCHANGED <<m_loadDirectories, m_modules, refs, loads>>

\* ~impl.
Unload ==
  /\ m_modules' = <<>>
  /\ refs' = RefsOf(<<>>)
  /\ UNCHANGED <<m_loadDirectories, m_processors, home, loads, misrouted>>
=============================================================================
