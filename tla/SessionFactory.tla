--------------------------- MODULE SessionFactory ---------------------------
(***************************************************************************)
(* CSunpinyinSessionFactory (src/src/ime-core/options/session_factory.h)   *)
(* with the language policies, the profiles and the engines of the ibus    *)
(* wrapper that drive it.                                                  *)
(*                                                                         *)
(* Each engine creates a Xinghua and a Quanpin view and uses the first     *)
(* view of its scheme, which another engine may use too.  The two language *)
(* policies each own a history cache loaded from one and the same file,    *)
(* while CIMIContext::m_pHistory, the cache commits go to, is static: the  *)
(* last context created decides it for all.  Destroying a view saves the   *)
(* cache of the view's own policy.                                         *)
(*                                                                         *)
(* What a cache or the file holds is the set of commits it remembers: its  *)
(* bounded queue is the subject of BigramHistory.  Any save may fail or be *)
(* cut short, and the file may fail to open for reading.  One thread runs all of  *)
(* this; an engine's constructor takes three steps, between which the      *)
(* process may still die.  A call through a freed view or window handler   *)
(* is undefined: it kills the process (Crash) or goes unnoticed.           *)
(***************************************************************************)
EXTENDS Integers, FiniteSets, TLC

CONSTANTS
  Engines,    \* the engine objects the input bus may create
  Addresses,  \* where a view may be allocated: m_views is ordered by address
  Commits,    \* bound: the sentences committed over all runs
  None,       \* NULL, or no such object
  Gone        \* m_pv of an engine that does not exist

Policies == {"XH", "PY"}   \* CXhSimplifiedChinesePolicy, CSimplifiedChinesePolicy

Keys == {"xinghua", "quanpin", "shuangpin"}  \* _policiesToKey of each registered profile
(* wired is the engine whose m_wh and m_hotkey_profile the view uses,      *)
(* "freed" once they are deleted.                                          *)
View == [key : Keys, cn : BOOLEAN, wired : Engines \cup {None, "freed"}]
Ctor == [engine : Engines, step : {"quanpin", "session"}]

ASSUME SessionAssumption ==
  /\ Addresses \subseteq Nat /\ IsFiniteSet(Addresses)
  /\ None \notin Engines \cup Policies /\ None \notin Ctor /\ None \notin View
  /\ None \notin Addresses
  /\ Gone \notin Addresses \cup {None}

Policy(key) == IF key = "xinghua" THEN "XH" ELSE "PY"

VARIABLES
  proc,       \* "up", "exiting" (in ~CSunpinyinSessionFactory) or "down"
  ctor,       \* the engine in its constructor, and the step it takes next
  pv,         \* m_pv of each engine; Gone for an engine that does not exist
  views,      \* m_views, and of each view what the engines share
  loaded,     \* m_bLoaded and m_bTried of each policy
  cache,      \* m_historyCache of each policy
  pHistory,   \* CIMIContext::m_pHistory, the policy whose cache it is
  file,       \* the history file
  short,      \* history variable: the last write of the file was cut short
  read,       \* history variable: the policies that could open the file
  committed,  \* history variable: all that was ever committed
  carried,    \* history variable: what the file held when the process started
  shared      \* history variable: two engines existed at once in this process

policies == <<loaded, cache, read>>
disk == <<file, short>>
history == <<committed, carried>>
vars == <<proc, ctor, pv, views, policies, pHistory, disk, history, shared>>

-----------------------------------------------------------------------------
Live == {a \in Addresses : views[a] # None}
First(S) == CHOOSE a \in S : \A b \in S : a <= b

Idle == proc = "up" /\ ctor = None
Exists(e) == pv[e] # Gone

\* Mutation of LoadResources: the policy starts from an empty cache.
LoadResourcesUnread(p) ==
  \/ loaded[p] # "no" /\ UNCHANGED policies
  \/ /\ loaded[p] = "no"
     /\ \E result \in {"ok", "failed"} : loaded' = [loaded EXCEPT ![p] = result]
     /\ read' = read \cup {p}
     /\ UNCHANGED cache

(* loadResources: tried once; the history is read even if the lexicon or   *)
(* the language model is missing.  If the file does not open the cache     *)
(* starts empty, and is saved all the same (a file that opens is taken to  *)
(* be read as a whole).                                                    *)
LoadResources(p) ==
  \/ loaded[p] # "no" /\ UNCHANGED policies
  \/ /\ loaded[p] = "no"
     /\ \E result \in {"ok", "failed"} : loaded' = [loaded EXCEPT ![p] = result]
     /\ \/ /\ cache' = [cache EXCEPT ![p] = file]
           /\ read' = read \cup {p}
        \/ /\ cache' = [cache EXCEPT ![p] = {}]
           /\ UNCHANGED read

(* createView, CSunpinyinProfile::createView and createContext: a is the   *)
(* address the view gets, None when the resources cannot be loaded.        *)
CreateView(key, a) ==
  /\ LoadResources(Policy(key))
  /\ IF loaded'[Policy(key)] = "ok"
     THEN /\ a \in Addresses \ Live
          /\ pHistory' = Policy(key)
     ELSE /\ a = None
          /\ UNCHANGED pHistory

Added(key, a) ==
  IF a = None THEN views
  ELSE [views EXCEPT ![a] = [key |-> key, cn |-> TRUE, wired |-> None]]

\* Mutation of Wired: only views without a handler are attached.
WiredOnce(vs, e) ==
  [a \in Addresses |-> IF vs[a] = None THEN None
                       ELSE [vs[a] EXCEPT !.wired = IF @ = None THEN e ELSE @]]
\* initSession, twice: every view of the factory is given e's handler and hot keys.
Wired(vs, e) ==
  [a \in Addresses |-> IF vs[a] = None THEN None ELSE [vs[a] EXCEPT !.wired = e]]

\* delete m_wh, delete m_hotkey_profile: the views they are attached to keep them.
Freed(vs, e) ==
  [a \in Addresses |-> IF vs[a] # None /\ vs[a].wired = e
                       THEN [vs[a] EXCEPT !.wired = "freed"] ELSE vs[a]]

-----------------------------------------------------------------------------
(* SunPinyinEngine::SunPinyinEngine, in three steps.                       *)
CreateXinghuaView(e, a) ==
  /\ Idle
  /\ ~Exists(e)
  /\ CreateView("xinghua", a)
  /\ views' = Added("xinghua", a)
  /\ ctor' = [engine |-> e, step |-> "quanpin"]
  /\ shared' = (shared \/ \E f \in Engines : Exists(f))
  /\ UNCHANGED <<proc, pv, disk, history>>

CreateQuanpinView(a) ==
  /\ proc = "up" /\ ctor # None /\ ctor.step = "quanpin"
  /\ CreateView("quanpin", a)
  /\ views' = Added("quanpin", a)
  /\ ctor' = [ctor EXCEPT !.step = "session"]
  /\ UNCHANGED <<proc, pv, disk, history, shared>>

(* createSession: any view of the configured scheme will do, whoever made  *)
(* it; without one, and without resources, the engine ends up with NULL.   *)
CreateSession(scheme, a) ==
  LET found == {b \in Live : views[b].key = scheme}
  IN /\ proc = "up" /\ ctor # None /\ ctor.step = "session"
     /\ \/ /\ found # {} /\ a = First(found)
           /\ views' = Wired(views, ctor.engine)
           /\ UNCHANGED <<policies, pHistory>>
        \/ /\ found = {}
           /\ CreateView(scheme, a)
           /\ views' = IF a = None THEN views ELSE Wired(Added(scheme, a), ctor.engine)
     /\ pv' = [pv EXCEPT ![ctor.engine] = a]
     /\ ctor' = None
     /\ UNCHANGED <<proc, disk, history, shared>>

(* saveToFile of a cache.  An empty one leaves the file alone, and so does *)
(* a file that does not open; opened, it is empty until the queue is       *)
(* written, and a full disk or the death of the process (then Crash is the *)
(* next step) may cut that short.                                          *)
SaveToFile(remembered) ==
  \/ UNCHANGED disk
  \/ /\ remembered # {}
     /\ file' \in SUBSET remembered
     /\ short' = (file' # remembered)

(* ~SunPinyinEngine: destroySession looks m_pv up, so a view that another  *)
(* engine destroyed is not destroyed twice.  The other view it created     *)
(* stays, as do other engines' pointers to this one.                       *)
DestroyEngine(e) ==
  /\ Idle
  /\ Exists(e)
  /\ IF pv[e] \in Live
     THEN /\ SaveToFile(cache[Policy(views[pv[e]].key)])
          /\ views' = Freed([views EXCEPT ![pv[e]] = None], e)
     ELSE /\ views' = Freed(views, e)
          /\ UNCHANGED disk
  /\ pv' = [pv EXCEPT ![e] = Gone]
  /\ UNCHANGED <<proc, ctor, policies, pHistory, history, shared>>

-----------------------------------------------------------------------------
\* nextView: the next view in address order, the first one after the last.
NextView(now) ==
  LET later == {a \in Live : a > now}
  IN IF now \in Live /\ later # {} THEN First(later) ELSE First(Live)

(* process_key_event on the mode switch key, in English mode: the engine   *)
(* moves on to the next view.  In Chinese mode it stays: the pending input *)
(* is committed as typed, without memorizing it, and the view turned off.  *)
SwitchToChinese(e) ==
  /\ Idle
  /\ pv[e] \in Live /\ ~views[pv[e]].cn
  /\ pv' = [pv EXCEPT ![e] = NextView(pv[e])]
  /\ views' = [views EXCEPT ![NextView(pv[e])].cn = TRUE]
  /\ UNCHANGED <<proc, ctor, policies, pHistory, disk, history, shared>>

SwitchToEnglish(e) ==
  /\ Idle
  /\ pv[e] \in Live /\ views[pv[e]].cn
  /\ views' = [views EXCEPT ![pv[e]].cn = FALSE]
  /\ UNCHANGED <<proc, ctor, pv, policies, pHistory, disk, history, shared>>

\* enable: the initial mode of the configuration.
Enable(e, isCn) ==
  /\ Idle
  /\ pv[e] \in Live
  /\ views' = [views EXCEPT ![pv[e]].cn = isCn]
  /\ UNCHANGED <<proc, ctor, pv, policies, pHistory, disk, history, shared>>

\* Mutation of HistoryOf: the cache of the view's own policy (a member m_pHistory).
HistoryOfView(e) == Policy(views[pv[e]].key)
\* The cache a commit of engine e goes to.
HistoryOf(e) == pHistory

(* CIMIContext::memorize, _saveHistoryCache: a sentence is memorized, and  *)
(* saved if that succeeds, before it reaches the application.              *)
Commit(e, s) ==
  /\ Idle
  /\ pv[e] \in Live /\ views[pv[e]].cn
  /\ s \in Commits \ committed
  /\ cache' = [cache EXCEPT ![HistoryOf(e)] = @ \cup {s}]
  /\ SaveToFile(cache'[HistoryOf(e)])
  /\ committed' = committed \cup {s}
  /\ UNCHANGED <<proc, ctor, pv, views, loaded, read, pHistory, carried, shared>>

-----------------------------------------------------------------------------
\* What a process starts with.
Fresh ==
  /\ ctor' = None
  /\ pv' = [e \in Engines |-> Gone]
  /\ views' = [a \in Addresses |-> None]
  /\ loaded' = [p \in Policies |-> "no"]
  /\ cache' = [p \in Policies |-> {}]
  /\ read' = {}
  /\ pHistory' = None
  /\ shared' = FALSE

Start ==
  /\ proc = "down"
  /\ proc' = "up"
  /\ carried' = file
  /\ short' = FALSE
  /\ UNCHANGED <<ctor, pv, views, policies, pHistory, file, committed, shared>>

(* The process is killed, or a freed pointer is used.                      *)
Crash ==
  /\ proc # "down"
  /\ proc' = "down"
  /\ Fresh
  /\ UNCHANGED <<disk, history>>

(* main returns: ~CSunpinyinSessionFactory destroys every view, in the     *)
(* order of m_views, each with a save of its policy's cache.               *)
Exit ==
  /\ Idle
  /\ proc' = "exiting"
  /\ UNCHANGED <<ctor, pv, views, policies, pHistory, disk, history, shared>>

DestroyNext ==
  /\ proc = "exiting"
  /\ Live # {}
  /\ SaveToFile(cache[Policy(views[First(Live)].key)])
  /\ views' = [views EXCEPT ![First(Live)] = None]
  /\ UNCHANGED <<proc, ctor, pv, policies, pHistory, history, shared>>

Exited ==
  /\ proc = "exiting"
  /\ Live = {}
  /\ proc' = "down"
  /\ Fresh
  /\ UNCHANGED <<disk, history>>

Init ==
  /\ proc = "down"
  /\ ctor = None
  /\ pv = [e \in Engines |-> Gone]
  /\ views = [a \in Addresses |-> None]
  /\ loaded = [p \in Policies |-> "no"]
  /\ cache = [p \in Policies |-> {}]
  /\ read = {}
  /\ pHistory = None
  /\ file = {}
  /\ short = FALSE
  /\ committed = {}
  /\ carried = {}
  /\ shared = FALSE

Next ==
  \/ \E e \in Engines, a \in Addresses \cup {None} : CreateXinghuaView(e, a)
  \/ \E a \in Addresses \cup {None} : CreateQuanpinView(a)
  \/ \E scheme \in {"quanpin", "shuangpin"}, a \in Addresses \cup {None} :
       CreateSession(scheme, a)
  \/ \E e \in Engines : DestroyEngine(e)
  \/ \E e \in Engines : SwitchToChinese(e)
  \/ \E e \in Engines : SwitchToEnglish(e)
  \/ \E e \in Engines, isCn \in BOOLEAN : Enable(e, isCn)
  \/ \E e \in Engines, s \in Commits : Commit(e, s)
  \/ Start
  \/ Crash
  \/ Exit
  \/ DestroyNext
  \/ Exited

Spec == Init /\ [][Next]_vars

-----------------------------------------------------------------------------
(* The factory, the policies and the engines have the state they declare.  *)
TypeOK ==
  /\ proc \in {"down", "up", "exiting"}
  /\ ctor \in Ctor \cup {None}
  /\ pv \in [Engines -> Addresses \cup {None, Gone}]
  /\ views \in [Addresses -> View \cup {None}]
  /\ loaded \in [Policies -> {"no", "ok", "failed"}]
  /\ cache \in [Policies -> SUBSET Commits]
  /\ pHistory \in Policies \cup {None}
  /\ read \in SUBSET Policies
  /\ file \in SUBSET Commits
  /\ short \in BOOLEAN
  /\ committed \in SUBSET Commits
  /\ carried \in SUBSET Commits
  /\ shared \in BOOLEAN

(* If each policy that looked for the history file could open it, then     *)
(* whatever views are created, destroyed and saved in whatever order, and  *)
(* whichever saves fail, the file still holds all that it held when the    *)
(* process started unless the last write of it was cut short; and even     *)
(* then the cache commits go to holds it all, for the next commit to save. *)
EarlierRunsKept ==
  proc # "down" /\ (\A p \in Policies : loaded[p] # "no" => p \in read) =>
    /\ ~short => carried \subseteq file
    /\ Idle /\ pHistory # None => carried \subseteq cache[pHistory]

(* All that is committed while a process runs is in the one cache that     *)
(* commits go to, whichever views it was typed into and whatever became of *)
(* the saves, so that the next commit saves it all again even after a save *)
(* of another policy's cache.                                              *)
OneHistoryPerRun ==
  Idle => \A p \in Policies :
            cache[p] \ carried \subseteq IF pHistory = None THEN {} ELSE cache[pHistory]

(* While a process never has two engines at a time, its engine always      *)
(* works on a view that exists and whose window handler and hot keys are   *)
(* its own, through mode switches and through any number of engines before *)
(* it, whose left-over views nextView also visits.                         *)
EngineWired ==
  Idle /\ ~shared =>
    \A e \in Engines : pv[e] \in Addresses =>
      \A a \in Live : pv[e] \in Live /\ views[a].wired = e

\* Engines are alike, and so are the sentences committed.
Symmetry == Permutations(Engines) \cup Permutations(Commits)
=============================================================================
