------------------------ MODULE SessionFactoryProofs ------------------------
(* Proofs about SessionFactory: what survives in the history file.         *)
EXTENDS SessionFactory, WellFoundedInduction, TLAPS

USE SessionAssumption DEF Policies, Ctor

(* The policy whose cache commits go to once both kinds of view were tried: *)
(* the Quanpin view is created last, so its policy wins if it can load.     *)
Target ==
  IF loaded["PY"] = "ok" THEN "PY" ELSE IF loaded["XH"] = "ok" THEN "XH" ELSE None

(* Resources are loaded in the order of the first engine's constructor,    *)
(* and a view or a current cache exists only after its policy loaded.      *)
LoadOrder ==
  /\ proc # "up" => ctor = None
  /\ proc = "down" => loaded["XH"] = "no"
  /\ loaded["XH"] = "no" => loaded["PY"] = "no" /\ ctor = None
  /\ \A a \in Addresses : views[a] # None => loaded[Policy(views[a].key)] = "ok"
  /\ pHistory # None => loaded[pHistory] = "ok"
  /\ \/ pHistory = Target
     \/ ctor # None /\ ctor.step = "quanpin" /\ loaded["PY"] = "ok"
  /\ loaded["PY"] = "no" /\ ctor = None => loaded["XH"] = "no"
  /\ loaded["PY"] = "no" => ctor = None \/ ctor.step = "quanpin"

\* Every policy that looked for the history file could open it.
AllRead == \A p \in Policies : loaded[p] # "no" => p \in read

(* Every cache that was read holds what the file held at the start, and    *)
(* only the target cache more; until the second policy is loaded nothing   *)
(* is saved at all, so both read the same.                                 *)
Caches ==
  /\ proc # "down" /\ AllRead /\ ~short => carried \subseteq file
  /\ loaded["PY"] = "no" /\ proc # "down" => file = carried
  /\ \A p \in Policies : loaded[p] = "no" => cache[p] = {} /\ p \notin read
  /\ \A p \in read : carried \subseteq cache[p]
  /\ \A p \in Policies : p # Target \/ loaded["PY"] = "no" => cache[p] \subseteq carried

HistoryInv == TypeOK /\ LoadOrder /\ Caches

-----------------------------------------------------------------------------
(* First picks a member of any set of addresses that has one.              *)
LEMMA FirstInSet ==
  ASSUME NEW S, S \subseteq Addresses, S # {}
  PROVE  First(S) \in S
<1>1. S \subseteq Nat
  OBVIOUS
<1>2. PICK a \in S : \A b \in S : ~ (<<b, a>> \in OpToRel(<, Nat))
  BY <1>1, NatLessThanWellFounded, WFMin
<1>3. ASSUME NEW b \in S
      PROVE  a <= b
  <2>1. a \in Nat /\ b \in Nat
    BY <1>1
  <2>2. ~ (b < a)
    BY <1>2, <2>1 DEF OpToRel
  <2>. QED
    BY <2>1, <2>2
<1>. QED
  BY <1>3 DEF First

\* The invariant of the histories holds at first.
LEMMA HistoryInvInit == Init => HistoryInv
  BY DEF Init, HistoryInv, TypeOK, LoadOrder, Caches, AllRead, Target

(* What loading a policy's resources leaves known of the caches.           *)
LEMMA LoadKeepsCaches ==
  ASSUME TypeOK, Caches, NEW p \in Policies, LoadResources(p)
  PROVE  /\ loaded' \in [Policies -> {"no", "ok", "failed"}]
         /\ cache' \in [Policies -> SUBSET Commits]
         /\ loaded'[p] # "no"
         /\ read' \in SUBSET Policies
         /\ \A q \in Policies : q # p =>
              loaded'[q] = loaded[q] /\ cache'[q] = cache[q] /\ (q \in read' <=> q \in read)
         /\ loaded[p] # "no" => loaded' = loaded /\ cache' = cache /\ read' = read
         /\ loaded[p] = "no" => \/ p \in read' /\ cache'[p] = file
                                \/ p \notin read' /\ cache'[p] = {}
<1>1. CASE loaded[p] # "no"
  BY <1>1 DEF LoadResources, TypeOK, policies
<1>2. CASE loaded[p] = "no"
  <2>1. p \notin read /\ p \in DOMAIN cache /\ p \in DOMAIN loaded
    BY <1>2 DEF Caches, TypeOK
  <2>2. CASE cache' = [cache EXCEPT ![p] = file] /\ read' = read \cup {p}
    BY <1>2, <2>1, <2>2 DEF LoadResources, TypeOK
  <2>3. CASE cache' = [cache EXCEPT ![p] = {}] /\ read' = read
    BY <1>2, <2>1, <2>3 DEF LoadResources, TypeOK
  <2>. QED
    BY <1>2, <2>2, <2>3 DEF LoadResources
<1>. QED
  BY <1>1, <1>2

(* What a save of a cache leaves in the file: of a cache that holds all    *)
(* the file held at the start, a whole write loses nothing.                *)
LEMMA SaveKeepsFile ==
  ASSUME TypeOK, NEW p \in Policies, SaveToFile(cache[p])
  PROVE  /\ file' \in SUBSET Commits
         /\ short' \in BOOLEAN
         /\ \/ file' = file /\ short' = short
            \/ short'
            \/ file' = cache[p]
  BY DEF SaveToFile, TypeOK, disk

(* Turning a view on or off changes nothing of what is saved.              *)
LEMMA HistoryInvMode ==
  ASSUME HistoryInv, NEW a \in Live, NEW isCn \in BOOLEAN,
         views' = [views EXCEPT ![a].cn = isCn],
         pv' \in [Engines -> Addresses \cup {None, Gone}],
         UNCHANGED <<proc, ctor, policies, pHistory, disk, history, shared>>
  PROVE  HistoryInv'
<1>0. views[a] \in View /\ a \in Addresses
  BY DEF HistoryInv, TypeOK, Live
<1>1. /\ views' \in [Addresses -> View \cup {None}]
      /\ views'[a] # None => views'[a].key = views[a].key
      /\ \A b \in Addresses : b # a => views'[b] = views[b]
  <2>1. [views[a] EXCEPT !.cn = isCn] \in View
    BY <1>0 DEF View
  <2>2. [views[a] EXCEPT !.cn = isCn].key = views[a].key
    BY <1>0 DEF View
  <2>3. views' = [views EXCEPT ![a] = [views[a] EXCEPT !.cn = isCn]]
    OBVIOUS
  <2>. HIDE DEF View
  <2>. QED
    BY <1>0, <2>1, <2>2, <2>3 DEF HistoryInv, TypeOK
<1>2. TypeOK'
  BY <1>1 DEF HistoryInv, TypeOK, history, disk, policies
<1>3. \A b \in Addresses : views'[b] # None => loaded[Policy(views'[b].key)] = "ok"
  BY <1>0, <1>1 DEF HistoryInv, TypeOK, LoadOrder, Live
<1>4. LoadOrder'
  BY <1>3 DEF HistoryInv, LoadOrder, Target, policies
<1>5. Caches'
  BY DEF HistoryInv, Caches, AllRead, Target, history, disk, policies
<1>. QED
  BY <1>2, <1>4, <1>5 DEF HistoryInv

\* Each operation of the factory and the engines keeps the invariant of the histories.
LEMMA HistoryInvStep == HistoryInv /\ [Next]_vars => HistoryInv'
<1> SUFFICES ASSUME HistoryInv, [Next]_vars
             PROVE  HistoryInv'
  OBVIOUS
<1>. USE DEF HistoryInv
<1>1. ASSUME NEW e \in Engines, NEW a \in Addresses \cup {None}, CreateXinghuaView(e, a)
      PROVE  HistoryInv'
  <2>1. Policy("xinghua") = "XH"
    BY DEF Policy
  <2>2. LoadResources("XH")
    BY <1>1, <2>1 DEF CreateXinghuaView, CreateView
  <2>3. TypeOK'
    BY <1>1, <2>1, <2>2, LoadKeepsCaches
       DEF CreateXinghuaView, CreateView, TypeOK, Added, View, Keys, history, disk, policies
  <2>4. LoadOrder'
    <3>1. \A b \in Addresses : views'[b] # None => loaded'[Policy(views'[b].key)] = "ok"
      BY <1>1, <2>1, <2>2, LoadKeepsCaches
         DEF CreateXinghuaView, CreateView, TypeOK, Added, View, Keys, LoadOrder, Policy
    <3>2. pHistory' # None => loaded'[pHistory'] = "ok"
      BY <1>1, <2>1, <2>2, LoadKeepsCaches
         DEF CreateXinghuaView, CreateView, TypeOK, LoadOrder
    <3>. QED
      BY <1>1, <2>1, <2>2, <3>1, <3>2, LoadKeepsCaches
         DEF CreateXinghuaView, CreateView, TypeOK, LoadOrder, Idle, Target
  <2>5. Caches'
    BY <1>1, <2>1, <2>2, LoadKeepsCaches
       DEF CreateXinghuaView, CreateView, TypeOK, Caches, AllRead, LoadOrder, Idle, Target, history,
           disk, policies
  <2>. QED
    BY <2>3, <2>4, <2>5
<1>2. ASSUME NEW a \in Addresses \cup {None}, CreateQuanpinView(a)
      PROVE  HistoryInv'
  <2>1. Policy("quanpin") = "PY"
    BY DEF Policy
  <2>2. LoadResources("PY")
    BY <1>2, <2>1 DEF CreateQuanpinView, CreateView
  <2>3. TypeOK'
    BY <1>2, <2>1, <2>2, LoadKeepsCaches
       DEF CreateQuanpinView, CreateView, TypeOK, Added, View, Keys, history, disk, policies
  <2>4. LoadOrder'
    <3>1. \A b \in Addresses : views'[b] # None => loaded'[Policy(views'[b].key)] = "ok"
      BY <1>2, <2>1, <2>2, LoadKeepsCaches
         DEF CreateQuanpinView, CreateView, TypeOK, Added, View, Keys, LoadOrder, Policy
    <3>2. pHistory' # None => loaded'[pHistory'] = "ok"
      BY <1>2, <2>1, <2>2, LoadKeepsCaches
         DEF CreateQuanpinView, CreateView, TypeOK, LoadOrder
    <3>. QED
      BY <1>2, <2>1, <2>2, <3>1, <3>2, LoadKeepsCaches
         DEF CreateQuanpinView, CreateView, TypeOK, LoadOrder, Idle, Target
  <2>5. Caches'
    BY <1>2, <2>1, <2>2, LoadKeepsCaches
       DEF CreateQuanpinView, CreateView, TypeOK, Caches, AllRead, LoadOrder, Idle, Target, history,
           disk, policies
  <2>. QED
    BY <2>3, <2>4, <2>5
<1>3. ASSUME NEW scheme \in {"quanpin", "shuangpin"}, NEW a \in Addresses \cup {None},
             CreateSession(scheme, a)
      PROVE  HistoryInv'
  <2>1. Policy(scheme) = "PY" /\ loaded["PY"] # "no"
    BY <1>3 DEF Policy, CreateSession, LoadOrder
  <2>2. loaded' = loaded /\ cache' = cache /\ read' = read
    BY <1>3, <2>1 DEF CreateSession, CreateView, LoadResources, policies
  <2>3. TypeOK' /\ pHistory' = Target
    <3>1. views' \in [Addresses -> View \cup {None}]
      <4>1. views \in [Addresses -> View \cup {None}]
            /\ Added(scheme, a) \in [Addresses -> View \cup {None}]
        BY DEF TypeOK, Added, View, Keys
      <4>2. ASSUME NEW vs \in [Addresses -> View \cup {None}]
            PROVE  Wired(vs, ctor.engine) \in [Addresses -> View \cup {None}]
        BY <1>3 DEF CreateSession, TypeOK, Wired, View
      <4>. QED
        BY <1>3, <4>1, <4>2 DEF CreateSession
    <3>2. pHistory' = Target
      BY <1>3, <2>1, <2>2 DEF CreateSession, CreateView, LoadOrder, Target
    <3>3. pv' \in [Engines -> Addresses \cup {None, Gone}]
      BY <1>3 DEF CreateSession, TypeOK
    <3>. QED
      BY <1>3, <2>2, <3>1, <3>2, <3>3 DEF CreateSession, TypeOK, Target, history, disk
  <2>4. LoadOrder'
    <3>1. \A b \in Addresses : views'[b] # None => loaded[Policy(views'[b].key)] = "ok"
      BY <1>3, <2>1, <2>2
         DEF CreateSession, CreateView, TypeOK, Added, Wired, View, Keys, LoadOrder
    <3>. QED
      BY <1>3, <2>1, <2>2, <2>3, <3>1 DEF CreateSession, LoadOrder, Target, TypeOK
  <2>5. Caches'
    BY <1>3, <2>2 DEF CreateSession, Caches, AllRead, Target, history, disk
  <2>. QED
    BY <2>3, <2>4, <2>5
<1>4. ASSUME NEW e \in Engines, DestroyEngine(e)
      PROVE  HistoryInv'
  <2>1. CASE pv[e] \in Live
    <3>1. loaded["PY"] # "no"
      BY <1>4, <2>1 DEF LoadOrder, DestroyEngine, Idle, Live, TypeOK, View, Keys, Policy
    <3>2. /\ Policy(views[pv[e]].key) \in Policies
          /\ loaded[Policy(views[pv[e]].key)] = "ok"
          /\ SaveToFile(cache[Policy(views[pv[e]].key)])
      BY <1>4, <2>1 DEF DestroyEngine, Live, LoadOrder, Policy
    <3>3. Caches' /\ file' \in SUBSET Commits /\ short' \in BOOLEAN
      BY <1>4, <3>1, <3>2, SaveKeepsFile
         DEF DestroyEngine, TypeOK, Caches, AllRead, Target, history, policies
    <3>. QED
      BY <1>4, <2>1, <3>1, <3>3
         DEF DestroyEngine, TypeOK, Freed, View, LoadOrder, Target, history, policies
  <2>2. CASE pv[e] \notin Live
    BY <1>4, <2>2 DEF DestroyEngine, TypeOK, Freed, View, LoadOrder, Caches, AllRead, Target,
                      history, disk, policies
  <2>. QED
    BY <2>1, <2>2
<1>5. ASSUME NEW e \in Engines, SwitchToChinese(e)
      PROVE  HistoryInv'
  <2>1. NextView(pv[e]) \in Live
    BY <1>5, FirstInSet DEF SwitchToChinese, NextView, Live
  <2>. QED
    BY <1>5, <2>1, HistoryInvMode DEF SwitchToChinese, TypeOK, Live
<1>6. ASSUME NEW e \in Engines, SwitchToEnglish(e)
      PROVE  HistoryInv'
  BY <1>6, HistoryInvMode DEF SwitchToEnglish, TypeOK
<1>7. ASSUME NEW e \in Engines, NEW isCn \in BOOLEAN, Enable(e, isCn)
      PROVE  HistoryInv'
  BY <1>7, HistoryInvMode DEF Enable, TypeOK
<1>8. ASSUME NEW e \in Engines, NEW s \in Commits, Commit(e, s)
      PROVE  HistoryInv'
  <2>1. /\ loaded["PY"] # "no"
        /\ pHistory = Target /\ pHistory \in Policies
    BY <1>8 DEF Commit, Idle, Live, LoadOrder, Target, TypeOK, View, Keys, Policy
  <2>2. /\ cache' = [cache EXCEPT ![pHistory] = @ \cup {s}]
        /\ SaveToFile(cache'[pHistory])
        /\ UNCHANGED <<proc, loaded, read, carried>>
    BY <1>8 DEF Commit, HistoryOf
  <2>3. cache'[pHistory] = cache[pHistory] \cup {s} /\ cache' \in [Policies -> SUBSET Commits]
    BY <2>1, <2>2 DEF TypeOK
  <2>4. /\ file' \in SUBSET Commits /\ short' \in BOOLEAN
        /\ \/ file' = file /\ short' = short
           \/ short'
           \/ file' = cache[pHistory] \cup {s}
    BY <2>1, <2>2, <2>3 DEF SaveToFile, TypeOK, disk
  <2>5. TypeOK' /\ LoadOrder'
    BY <1>8, <2>3, <2>4 DEF Commit, TypeOK, LoadOrder, Target
  <2>6. Caches'
    BY <2>1, <2>2, <2>3, <2>4 DEF LoadOrder, Caches, AllRead, Target, TypeOK
  <2>. QED
    BY <2>5, <2>6
<1>9. CASE Start
  BY <1>9 DEF Start, TypeOK, LoadOrder, Caches, AllRead, Target, policies
<1>10. CASE Crash
  BY <1>10 DEF Crash, Fresh, TypeOK, LoadOrder, Caches, AllRead, Target, history, disk
<1>11. CASE Exit
  BY <1>11 DEF Exit, Idle, TypeOK, LoadOrder, Caches, AllRead, Target, history, disk, policies
<1>12. CASE DestroyNext
  <2>0. Live \subseteq Addresses
    BY DEF Live
  <2>1. First(Live) \in Live
    BY <1>12, <2>0, FirstInSet DEF DestroyNext
  <2>3. loaded["PY"] # "no"
    BY <1>12, <2>1 DEF DestroyNext, Live, TypeOK, View, Keys, Policy, LoadOrder
  <2>2. LET p == Policy(views[First(Live)].key)
        IN  p \in Policies /\ loaded[p] = "ok" /\ SaveToFile(cache[p])
    BY <1>12, <2>1 DEF DestroyNext, Live, Policy, LoadOrder
  <2>4. Caches' /\ file' \in SUBSET Commits /\ short' \in BOOLEAN
    BY <1>12, <2>2, <2>3, SaveKeepsFile
       DEF DestroyNext, TypeOK, Caches, AllRead, Target, history, policies
  <2>. QED
    BY <1>12, <2>1, <2>3, <2>4
       DEF DestroyNext, TypeOK, LoadOrder, Target, history, policies
<1>13. CASE Exited
  BY <1>13 DEF Exited, Fresh, TypeOK, LoadOrder, Caches, AllRead, Target, history, disk
<1>14. CASE UNCHANGED vars
  BY <1>14 DEF vars, history, disk, policies, TypeOK, LoadOrder, Caches, AllRead, Target
<1>. QED
  BY <1>1, <1>2, <1>3, <1>4, <1>5, <1>6, <1>7, <1>8, <1>9, <1>10, <1>11, <1>12,
     <1>13, <1>14 DEF Next

\* The invariant of the histories holds in every state.
LEMMA HistoryInvariant == Spec => []HistoryInv
  BY HistoryInvInit, HistoryInvStep, PTL DEF Spec

(* What the file held when a process started is lost neither by a save of  *)
(* that process that is written whole nor from the cache commits go to:    *)
(* saveUserHistory and _saveHistoryCache write a cache that loadFromFile   *)
(* filled, if it could open the file, before any of them.                  *)
THEOREM EarlierRunsAreKept == Spec => []EarlierRunsKept
<1>1. HistoryInv => EarlierRunsKept
  BY DEF HistoryInv, LoadOrder, Caches, AllRead, EarlierRunsKept, Idle, TypeOK
<1>. QED
  BY <1>1, HistoryInvariant, PTL

(* The static m_pHistory makes one cache hold all of a process's commits,  *)
(* whichever views, policies and engines they came from, and whatever was  *)
(* read and saved.                                                         *)
THEOREM OneHistory == Spec => []OneHistoryPerRun
<1>1. HistoryInv => OneHistoryPerRun
  BY DEF HistoryInv, TypeOK, LoadOrder, Caches, Target, OneHistoryPerRun, Idle
<1>. QED
  BY <1>1, HistoryInvariant, PTL

-----------------------------------------------------------------------------
(* While no two engines existed at once, no engine exists while another is *)
(* constructed, and the only one has every view wired to itself.           *)
Alone ==
  proc # "down" /\ ~shared =>
    /\ \A e, f \in Engines : Exists(e) /\ Exists(f) => e = f
    /\ ctor # None => \A e \in Engines : ~Exists(e)
NoneYet == proc = "down" => ctor = None /\ \A e \in Engines : ~Exists(e)
WiredInv == TypeOK /\ NoneYet /\ Alone /\ EngineWired

\* A change of mode leaves the wiring of an engine alone.
LEMMA ModeKeepsWiring ==
  ASSUME TypeOK, NEW a \in Live, NEW isCn \in BOOLEAN,
         views' = [views EXCEPT ![a].cn = isCn]
  PROVE  Live' = Live /\ \A b \in Live : views'[b].wired = views[b].wired
<1>1. views[a] \in View /\ a \in Addresses
  BY DEF TypeOK, Live
<1>2. [views[a] EXCEPT !.cn = isCn] \in View /\ [views[a] EXCEPT !.cn = isCn].wired = views[a].wired
  BY <1>1 DEF View
<1>3. views' = [views EXCEPT ![a] = [views[a] EXCEPT !.cn = isCn]]
  OBVIOUS
<1>. HIDE DEF View
<1>. QED
  BY <1>1, <1>2, <1>3 DEF TypeOK, Live

\* Each step keeps the engine wired, given the types.
LEMMA WiredInvStep == TypeOK' /\ WiredInv /\ [Next]_vars => WiredInv'
<1> SUFFICES ASSUME TypeOK', WiredInv, [Next]_vars
             PROVE  WiredInv'
  OBVIOUS
<1>. USE DEF WiredInv, Exists
<1>1. ASSUME NEW e \in Engines, NEW a \in Addresses \cup {None}, CreateXinghuaView(e, a)
      PROVE  WiredInv'
  BY <1>1 DEF CreateXinghuaView, Idle, NoneYet, Alone, EngineWired
<1>2. ASSUME NEW a \in Addresses \cup {None}, CreateQuanpinView(a)
      PROVE  WiredInv'
  BY <1>2 DEF CreateQuanpinView, Idle, NoneYet, Alone, EngineWired, TypeOK
<1>3. ASSUME NEW scheme \in {"quanpin", "shuangpin"}, NEW a \in Addresses \cup {None},
             CreateSession(scheme, a)
      PROVE  WiredInv'
  <2>1. /\ proc = "up" /\ proc' = proc /\ shared' = shared
        /\ ctor # None /\ ctor.engine \in Engines
        /\ pv' = [pv EXCEPT ![ctor.engine] = a]
    BY <1>3 DEF CreateSession, TypeOK
  <2>2. NoneYet' /\ Alone'
    BY <1>3, <2>1 DEF CreateSession, TypeOK, NoneYet, Alone
  <2>3. EngineWired'
    <3>1. SUFFICES ASSUME ~shared, NEW e \in Engines, pv'[e] \in Addresses,
                          NEW b \in Live'
                   PROVE  pv'[e] \in Live' /\ views'[b].wired = e
      BY <2>1 DEF EngineWired
    <3>2. e = ctor.engine /\ pv'[e] = a /\ a \in Addresses
      BY <2>1, <3>1 DEF TypeOK, Alone
    <3>3. ASSUME NEW vs \in [Addresses -> View \cup {None}], vs[a] # None,
                 views' = Wired(vs, ctor.engine)
          PROVE  pv'[e] \in Live' /\ views'[b].wired = e
      <4>1. \A c \in Addresses : vs[c] # None =>
              /\ [vs[c] EXCEPT !.wired = e] \in View
              /\ [vs[c] EXCEPT !.wired = e].wired = e
        BY <3>3 DEF View
      <4>. QED
        BY <3>2, <3>3, <4>1 DEF Wired, Live
    <3>4. /\ [key |-> scheme, cn |-> TRUE, wired |-> None] \in View
          /\ Added(scheme, a) = [views EXCEPT ![a] = [key |-> scheme, cn |-> TRUE, wired |-> None]]
      BY <3>2 DEF View, Keys, Added
    <3>5. /\ Added(scheme, a) \in [Addresses -> View \cup {None}]
          /\ Added(scheme, a)[a] # None
      <4> DEFINE new == [key |-> scheme, cn |-> TRUE, wired |-> None]
      <4>1. new \in View /\ new # None /\ Added(scheme, a) = [views EXCEPT ![a] = new]
        BY <3>4
      <4>. HIDE DEF new, View
      <4>. QED
        BY <3>2, <4>1 DEF TypeOK
    <3>6. \/ a \in Live /\ views' = Wired(views, ctor.engine)
          \/ views' = Wired(Added(scheme, a), ctor.engine)
      BY <1>3, <3>2, FirstInSet DEF CreateSession, Live
    <3>. QED
      BY <3>3, <3>5, <3>6 DEF Live, TypeOK
  <2>. QED
    BY <2>2, <2>3
<1>4. ASSUME NEW e \in Engines, DestroyEngine(e)
      PROVE  WiredInv'
  BY <1>4 DEF DestroyEngine, Idle, TypeOK, NoneYet, Alone, EngineWired
<1>5. ASSUME NEW e \in Engines, SwitchToChinese(e)
      PROVE  WiredInv'
  <2>1. NextView(pv[e]) \in Live
    BY <1>5, FirstInSet DEF SwitchToChinese, NextView, Live
  <2>2. Live' = Live /\ \A b \in Live : views'[b].wired = views[b].wired
    BY <1>5, <2>1, ModeKeepsWiring DEF SwitchToChinese
  <2>. QED
    BY <1>5, <2>1, <2>2 DEF SwitchToChinese, Idle, TypeOK, NoneYet, Alone, EngineWired, Live
<1>6. ASSUME NEW e \in Engines, SwitchToEnglish(e)
      PROVE  WiredInv'
  <2>1. Live' = Live /\ \A b \in Live : views'[b].wired = views[b].wired
    BY <1>6, ModeKeepsWiring DEF SwitchToEnglish
  <2>. QED
    BY <1>6, <2>1 DEF SwitchToEnglish, Idle, TypeOK, NoneYet, Alone, EngineWired
<1>7. ASSUME NEW e \in Engines, NEW isCn \in BOOLEAN, Enable(e, isCn)
      PROVE  WiredInv'
  <2>1. Live' = Live /\ \A b \in Live : views'[b].wired = views[b].wired
    BY <1>7, ModeKeepsWiring DEF Enable
  <2>. QED
    BY <1>7, <2>1 DEF Enable, Idle, TypeOK, NoneYet, Alone, EngineWired
<1>8. ASSUME NEW e \in Engines, NEW s \in Commits, Commit(e, s)
      PROVE  WiredInv'
  BY <1>8 DEF Commit, Idle, NoneYet, Alone, EngineWired, Live
<1>9. CASE Start
  BY <1>9 DEF Start, NoneYet, Alone, EngineWired, Live, Idle
<1>10. CASE Crash
  BY <1>10 DEF Crash, Fresh, NoneYet, Alone, EngineWired, Idle
<1>11. CASE Exit
  BY <1>11 DEF Exit, Idle, NoneYet, Alone, EngineWired
<1>12. CASE DestroyNext
  BY <1>12 DEF DestroyNext, Idle, NoneYet, Alone, EngineWired
<1>13. CASE Exited
  BY <1>13 DEF Exited, Fresh, NoneYet, Alone, EngineWired, Idle
<1>14. CASE UNCHANGED vars
  BY <1>14 DEF vars, history, disk, policies, NoneYet, Alone, EngineWired, Idle, Live
<1>. QED
  BY <1>1, <1>2, <1>3, <1>4, <1>5, <1>6, <1>7, <1>8, <1>9, <1>10, <1>11, <1>12,
     <1>13, <1>14 DEF Next

(* Used by one engine at a time, the factory never leaves the engine with  *)
(* a destroyed view or another engine's deleted handler: initSession wires *)
(* left-over views too, so the views nextView visits are all the engine's. *)
THEOREM EngineStaysWired == Spec => []EngineWired
<1>1. Init => WiredInv
  BY HistoryInvInit DEF Init, HistoryInv, WiredInv, NoneYet, Alone, EngineWired, Idle, Exists
<1>2. HistoryInv => TypeOK
  BY DEF HistoryInv
<1>3. WiredInv => EngineWired
  BY DEF WiredInv
<1>. QED
  BY <1>1, <1>2, <1>3, HistoryInvariant, WiredInvStep, PTL DEF Spec
=============================================================================
