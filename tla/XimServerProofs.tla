-------------------------- MODULE XimServerProofs --------------------------
(***************************************************************************)
(* Proofs about the XIM server, for any number of clients and contexts:    *)
(* first the pool of input contexts, what each function of ic.c makes of   *)
(* it, the loop of the collector included; then the server.                *)
(***************************************************************************)
EXTENDS XimServer, WellFoundedInduction, TLAPS

-----------------------------------------------------------------------------
(* The pool.                                                               *)

Ic == [conn: Nat, win: Client \cup {NoClient}, enabled: BOOLEAN, english: BOOLEAN]

Icm == [map: [IcId -> BOOLEAN], ic: [IcId -> Ic], free: Seq(IcId), cnt: Nat,
        cur: IcId \cup {NoIc}]

\* A pool whose contexts are all accounted for.
PoolOK(m) ==
    /\ m \in Icm
    /\ PoolSplit(m)
    /\ m.cur # NoIc => m.map[m.cur]

---------------------------------------------------------------------------
\* Induction over the natural numbers, for a set instead of a predicate.
LEMMA SetInduction ==
    ASSUME NEW S \in SUBSET Nat, 0 \in S, \A n \in S: n + 1 \in S
    PROVE  S = Nat
  <1> SUFFICES ASSUME Nat \ S # {} PROVE FALSE
    OBVIOUS
  <1>1. PICK x \in Nat \ S: \A y \in Nat \ S: ~ (<<y, x>> \in OpToRel(<, Nat))
    BY NatLessThanWellFounded, WFMin, Nat \ S \subseteq Nat
  <1>2. x # 0
    OBVIOUS
  <1>3. x - 1 \in Nat
    BY <1>2
  <1>4. CASE x - 1 \in S
    <2>1. (x - 1) + 1 \in S
      BY <1>4
    <2> QED BY <2>1
  <1>5. CASE x - 1 \notin S
    <2>1. ~ (<<x - 1, x>> \in OpToRel(<, Nat))
      BY <1>1, <1>3, <1>5
    <2> QED BY <1>3, <2>1 DEF OpToRel
  <1> QED BY <1>4, <1>5

\* icmgr_init makes a pool whose contexts are all on the free stack.
LEMMA InitialPool == PoolOK(IcmgrInit)
  <1>1. IcmgrInit \in Icm
    BY IcAssumption DEF IcmgrInit, Icm, IcId, ResetIc, Ic
  <1>2. PoolSplit(IcmgrInit)
    <2>1. IsInjective(IcmgrInit.free)
      BY IcAssumption DEF IcmgrInit, IsInjective
    <2>2. Range(IcmgrInit.free) = IcId
      <3> DEFINE f == IcmgrInit.free
      <3>1. DOMAIN f = 1 .. MaxIc /\ \A k \in 1 .. MaxIc: f[k] = k - 1
        BY DEF IcmgrInit
      <3> HIDE DEF f
      <3>2. \A i \in IcId: i + 1 \in DOMAIN f /\ f[i + 1] = i
        BY <3>1, IcAssumption DEF IcId
      <3>3. \A k \in DOMAIN f: f[k] \in IcId
        BY <3>1, IcAssumption DEF IcId
      <3>4. Range(f) = IcId
        BY <3>2, <3>3 DEF Range
      <3> QED BY <3>4 DEF f
    <2> QED BY <2>1, <2>2 DEF PoolSplit, IcmgrInit
  <1> QED BY <1>1, <1>2 DEF PoolOK, IcmgrInit

---------------------------------------------------------------------------
(* The free stack. *)

\* A push of what is not in a sequence leaves it without repetition.
LEMMA Pushed ==
    ASSUME NEW S, NEW q \in Seq(S), NEW e \in S
    PROVE  /\ Append(q, e) \in Seq(S)
           /\ Range(Append(q, e)) = Range(q) \cup {e}
           /\ IsInjective(q) /\ e \notin Range(q) => IsInjective(Append(q, e))
  <1> DEFINE r == Append(q, e)
  <1>1. /\ r \in Seq(S) /\ Len(r) = Len(q) + 1 /\ DOMAIN r = 1 .. Len(q) + 1
        /\ DOMAIN q = 1 .. Len(q) /\ Len(q) \in Nat
        /\ \A j \in 1 .. Len(q): r[j] = q[j]
        /\ r[Len(q) + 1] = e
    OBVIOUS
  <1> HIDE DEF r
  <1>2. Range(r) = Range(q) \cup {e}
    <2>1. ASSUME NEW j \in DOMAIN r PROVE r[j] \in Range(q) \cup {e}
      BY <1>1 DEF Range
    <2>2. ASSUME NEW j \in DOMAIN q PROVE q[j] \in Range(r)
      BY <1>1 DEF Range
    <2>3. e \in Range(r)
      BY <1>1 DEF Range
    <2> QED BY <2>1, <2>2, <2>3 DEF Range
  <1>3. IsInjective(q) /\ e \notin Range(q) => IsInjective(r)
    BY <1>1 DEF IsInjective, Range
  <1> QED BY <1>1, <1>2, <1>3 DEF r

\* So does a pop, and what was popped is in the sequence no more.
LEMMA Popped ==
    ASSUME NEW S, NEW q \in Seq(S), q # <<>>
    PROVE  /\ Front(q) \in Seq(S)
           /\ Last(q) \in S
           /\ Last(q) \in Range(q)
           /\ IsInjective(q) => /\ Range(Front(q)) = Range(q) \ {Last(q)}
                                /\ IsInjective(Front(q))
  <1> DEFINE r == Front(q)
  <1>1. /\ r \in Seq(S) /\ DOMAIN r = 1 .. Len(q) - 1
        /\ DOMAIN q = 1 .. Len(q) /\ Len(q) \in Nat \ {0}
        /\ \A j \in 1 .. Len(q) - 1: r[j] = q[j]
        /\ Last(q) = q[Len(q)]
    BY DEF Front, Last
  <1> HIDE DEF r
  <1>2. Last(q) \in S /\ Last(q) \in Range(q)
    BY <1>1 DEF Range
  <1>3. ASSUME IsInjective(q)
        PROVE  Range(r) = Range(q) \ {Last(q)} /\ IsInjective(r)
    <2>1. ASSUME NEW x \in Range(r) PROVE x \in Range(q) /\ x # Last(q)
      BY <2>1, <1>1, <1>3 DEF Range, IsInjective
    <2>2. ASSUME NEW x \in Range(q), x # Last(q) PROVE x \in Range(r)
      <3>1. PICK j \in 1 .. Len(q): x = q[j]
        BY <1>1 DEF Range
      <3>2. j \in 1 .. Len(q) - 1
        BY <3>1, <2>2, <1>1
      <3> QED BY <3>1, <3>2, <1>1 DEF Range
    <2>3. IsInjective(r)
      BY <1>1, <1>3 DEF IsInjective
    <2> QED BY <2>1, <2>2, <2>3
  <1> QED BY <1>1, <1>2, <1>3 DEF r

---------------------------------------------------------------------------
\* A context that is taken back goes to the free stack, and its identity
\* was not there before.
LEMMA DestroyedIc ==
    ASSUME NEW m, PoolOK(m), NEW i \in IcId
    PROVE  LET d == DestroyIc(m, i) IN
           /\ PoolOK(d)
           /\ d.map = [m.map EXCEPT ![i] = FALSE]
           /\ d.ic = IF m.map[i] THEN [m.ic EXCEPT ![i] = ResetIc] ELSE m.ic
           /\ d.cur = IF m.map[i] THEN NoIc ELSE m.cur
           /\ d.cnt = m.cnt
  <1> DEFINE d == DestroyIc(m, i)
  <1>t. /\ m.map \in [IcId -> BOOLEAN] /\ m.ic \in [IcId -> Ic]
        /\ m.free \in Seq(IcId) /\ m.cnt \in Nat /\ m.cur \in IcId \cup {NoIc}
    BY DEF PoolOK, Icm
  <1>1. CASE ~m.map[i]
    <2>1. d = m /\ m.map = [m.map EXCEPT ![i] = FALSE]
      BY <1>1, <1>t DEF DestroyIc
    <2> QED BY <2>1, <1>1
  <1>2. CASE m.map[i]
    <2>1. d = [map |-> [m.map EXCEPT ![i] = FALSE], ic |-> [m.ic EXCEPT ![i] = ResetIc],
               free |-> Append(m.free, i), cnt |-> m.cnt, cur |-> NoIc]
      BY <1>2 DEF DestroyIc, PoolOK, Icm
    <2>2. ResetIc \in Ic
      BY DEF ResetIc, Ic
    <2>3. d \in Icm
      BY <2>1, <2>2, <1>t DEF Icm
    <2>4. i \notin Range(m.free)
      BY <1>2 DEF PoolOK, PoolSplit
    <2>5. IsInjective(d.free)
      BY <2>1, <2>4, <1>t, Pushed DEF PoolOK, PoolSplit
    <2>6. Range(d.free) = Range(m.free) \cup {i}
      BY <2>1, <1>t, Pushed
    <2>7. Range(d.free) = {j \in IcId: ~d.map[j]}
      BY <2>6, <2>1, <1>t DEF PoolOK, PoolSplit
    <2> QED BY <2>1, <2>3, <2>5, <2>7, <1>2 DEF PoolOK, PoolSplit
  <1> QED BY <1>1, <1>2

\* One turn of the loop of the collector.
LEMMA ScannedOnce ==
    ASSUME NEW m, PoolOK(m), NEW i \in IcId, NEW alive
    PROVE  LET d == ScannedIc(m, i, alive)
               gone == m.map[i] /\ m.ic[i].win \notin alive
           IN  /\ PoolOK(d)
               /\ d.map = [m.map EXCEPT ![i] = @ /\ ~gone]
               /\ d.ic = IF gone THEN [m.ic EXCEPT ![i] = ResetIc] ELSE m.ic
               /\ d.cur = IF gone THEN NoIc ELSE m.cur
               /\ d.cnt = m.cnt
  <1>t. m.map \in [IcId -> BOOLEAN]
    BY DEF PoolOK, Icm
  <1>1. CASE m.map[i] /\ m.ic[i].win \notin alive
    <2>1. ScannedIc(m, i, alive) = DestroyIc(m, i)
      BY <1>1 DEF ScannedIc
    <2>2. [m.map EXCEPT ![i] = FALSE] = [m.map EXCEPT ![i] = @ /\ ~(m.map[i] /\ m.ic[i].win \notin alive)]
      BY <1>1, <1>t
    <2> QED BY <2>1, <2>2, <1>1, DestroyedIc
  <1>2. CASE ~(m.map[i] /\ m.ic[i].win \notin alive)
    <2>1. ScannedIc(m, i, alive) = m
      BY <1>2 DEF ScannedIc
    <2>2. m.map = [m.map EXCEPT ![i] = @ /\ ~(m.map[i] /\ m.ic[i].win \notin alive)]
      BY <1>2, <1>t
    <2> QED BY <2>1, <2>2, <1>2
  <1> QED BY <1>1, <1>2

\* The loop of the collector: the recursive function that is its course
\* exists, and so is what its definition says.
LEMMA ScanCourse ==
    ASSUME NEW m, NEW alive
    PROVE  \E f: /\ f = [k \in 0 .. MaxIc |-> IF k = 0 THEN m
                                              ELSE ScannedIc(f[k - 1], k - 1, alive)]
                 /\ ScanAllIc(m, alive) = f[MaxIc]
  <1> DEFINE Course(f, n) == f = [k \in 0 .. n |-> IF k = 0 THEN m
                                                  ELSE ScannedIc(f[k - 1], k - 1, alive)]
             S == {n \in Nat: \E f: Course(f, n)}
  <1>1. 0 \in S
    <2>1. Course([k \in 0 .. 0 |-> m], 0)
      OBVIOUS
    <2> QED BY <2>1
  <1>2. ASSUME NEW n \in S PROVE n + 1 \in S
    <2>1. PICK f: Course(f, n)
      OBVIOUS
    <2> DEFINE g == [k \in 0 .. n + 1 |-> IF k = n + 1 THEN ScannedIc(f[n], n, alive) ELSE f[k]]
    <2>2. \A k \in 0 .. n + 1: g[k] = IF k = 0 THEN m ELSE ScannedIc(g[k - 1], k - 1, alive)
      <3> SUFFICES ASSUME NEW k \in 0 .. n + 1
                   PROVE g[k] = IF k = 0 THEN m ELSE ScannedIc(g[k - 1], k - 1, alive)
        OBVIOUS
      <3>1. CASE k = 0
        BY <3>1, <2>1
      <3>2. CASE k = n + 1
        BY <3>2
      <3>3. CASE k \in 1 .. n
        <4>1. g[k] = f[k] /\ g[k - 1] = f[k - 1]
          BY <3>3
        <4> QED BY <4>1, <3>3, <2>1
      <3> QED BY <3>1, <3>2, <3>3
    <2>3. Course(g, n + 1)
      BY <2>2
    <2> HIDE DEF g, Course
    <2> QED BY <2>3
  <1>3. S = Nat
    <2> HIDE DEF S
    <2> S \in SUBSET Nat
      BY DEF S
    <2> QED BY <1>1, <1>2, SetInduction
  <1>4. PICK f: Course(f, MaxIc)
    BY <1>3, IcAssumption
  <1>5. Course(CHOOSE g: Course(g, MaxIc), MaxIc)
    BY <1>4
  <1> QED BY <1>5 DEF ScanAllIc

Gone(m, alive) == {i \in IcId: m.map[i] /\ m.ic[i].win \notin alive}

\* What a pool is after the contexts of R were taken back from it.
Reclaimed(m, R, d) ==
    /\ d.map = [i \in IcId |-> m.map[i] /\ i \notin R]
    /\ d.ic = [i \in IcId |-> IF i \in R THEN ResetIc ELSE m.ic[i]]
    /\ d.cur = IF R = {} THEN m.cur ELSE NoIc

\* The whole loop destroys the contexts whose processes are not found, and those only.
LEMMA ScannedAll ==
    ASSUME NEW m, PoolOK(m), NEW alive
    PROVE  LET d == ScanAllIc(m, alive) IN
           PoolOK(d) /\ Reclaimed(m, Gone(m, alive), d) /\ d.cnt = m.cnt
  <1> DEFINE gone(n) == {i \in Gone(m, alive): i < n}
  <1>t. m.map \in [IcId -> BOOLEAN] /\ m.ic \in [IcId -> Ic]
    BY DEF PoolOK, Icm
  <1>1. PICK f: /\ f = [k \in 0 .. MaxIc |-> IF k = 0 THEN m
                                              ELSE ScannedIc(f[k - 1], k - 1, alive)]
                /\ ScanAllIc(m, alive) = f[MaxIc]
    BY ScanCourse
  <1> DEFINE Good(n) == PoolOK(f[n]) /\ Reclaimed(m, gone(n), f[n]) /\ f[n].cnt = m.cnt
             S == {n \in Nat: n <= MaxIc => Good(n)}
  <1>2. 0 \in S
    <2>1. f[0] = m
      BY <1>1, IcAssumption
    <2>2. gone(0) = {}
      BY DEF Gone, IcId
    <2>3. Reclaimed(m, {}, m)
      BY <1>t DEF Reclaimed
    <2> QED BY <2>1, <2>2, <2>3
  <1>3. ASSUME NEW n \in S PROVE n + 1 \in S
    <2> SUFFICES ASSUME n + 1 <= MaxIc PROVE Good(n + 1)
      OBVIOUS
    <2>1. n \in IcId /\ n \in Nat /\ n + 1 \in 1 .. MaxIc
      BY IcAssumption DEF IcId
    <2>2. Good(n)
      BY <2>1, IcAssumption
    <2>3. f[n + 1] = ScannedIc(f[n], n, alive)
      <3> HIDE DEF S
      <3>1. n + 1 \in 0 .. MaxIc /\ n + 1 # 0 /\ (n + 1) - 1 = n
        BY <2>1
      <3> QED BY <1>1, <3>1
    <2> DEFINE d == f[n + 1]
               lost == f[n].map[n] /\ f[n].ic[n].win \notin alive
    <2>4. /\ PoolOK(d)
          /\ d.map = [f[n].map EXCEPT ![n] = @ /\ ~lost]
          /\ d.ic = IF lost THEN [f[n].ic EXCEPT ![n] = ResetIc] ELSE f[n].ic
          /\ d.cur = IF lost THEN NoIc ELSE f[n].cur
          /\ d.cnt = f[n].cnt
      BY <2>1, <2>2, <2>3, ScannedOnce
    <2>5. lost <=> n \in Gone(m, alive)
      BY <2>1, <2>2, <1>t DEF Reclaimed, Gone
    <2>6. gone(n + 1) = IF lost THEN gone(n) \cup {n} ELSE gone(n)
      BY <2>1, <2>5 DEF Gone, IcId
    <2>7. n \notin gone(n)
      BY <2>1
    <2> HIDE DEF lost, d, gone
    <2>8. d.map = [i \in IcId |-> m.map[i] /\ i \notin gone(n + 1)]
      BY <2>1, <2>2, <2>4, <2>6, <1>t DEF Reclaimed
    <2>9. d.ic = [i \in IcId |-> IF i \in gone(n + 1) THEN ResetIc ELSE m.ic[i]]
      BY <2>1, <2>2, <2>4, <2>6, <1>t DEF Reclaimed
    <2>10. d.cur = IF gone(n + 1) = {} THEN m.cur ELSE NoIc
      BY <2>1, <2>2, <2>4, <2>6 DEF Reclaimed
    <2>11. Good(n + 1)
      BY <2>2, <2>4, <2>8, <2>9, <2>10 DEF Reclaimed, d
    <2> QED BY <2>11
  <1>4. S = Nat
    <2> HIDE DEF S
    <2> S \in SUBSET Nat
      BY DEF S
    <2> QED BY <1>2, <1>3, SetInduction
  <1>5. Good(MaxIc)
    <2> HIDE DEF Good
    <2> QED BY <1>4, IcAssumption
  <1>6. gone(MaxIc) = Gone(m, alive)
    BY IcAssumption DEF Gone, IcId
  <1> QED BY <1>1, <1>5, <1>6

\* Before a context is handed out the collector takes back all the contexts
\* whose processes are not found, or none.
LEMMA Collected ==
    ASSUME NEW m, PoolOK(m), NEW alive
    PROVE  LET d == CollectIfDue(m, alive) IN
           PoolOK(d) /\ \E R \in {{}, Gone(m, alive)}: Reclaimed(m, R, d)
  <1> DEFINE counted == [m EXCEPT !.cnt = @ + 1]
  <1>t. /\ m.map \in [IcId -> BOOLEAN] /\ m.ic \in [IcId -> Ic]
        /\ m.free \in Seq(IcId) /\ m.cnt \in Nat /\ m.cur \in IcId \cup {NoIc}
    BY DEF PoolOK, Icm
  <1>1. /\ counted = [map |-> m.map, ic |-> m.ic, free |-> m.free, cnt |-> m.cnt + 1, cur |-> m.cur]
        /\ PoolOK(counted)
    BY <1>t DEF PoolOK, Icm, PoolSplit
  <1>2. Gone(counted, alive) = Gone(m, alive)
    BY <1>1 DEF Gone
  <1> HIDE DEF counted
  <1>3. CASE CollectIfDue(m, alive) = counted
    <2>1. Reclaimed(m, {}, counted)
      BY <1>1, <1>t DEF Reclaimed
    <2> QED BY <1>1, <1>3, <2>1
  <1>4. CASE CollectIfDue(m, alive) = [ScanAllIc(counted, alive) EXCEPT !.cnt = 0]
    <2> DEFINE d == ScanAllIc(counted, alive)
    <2>1. PoolOK(d) /\ Reclaimed(counted, Gone(m, alive), d)
      BY <1>1, <1>2, ScannedAll
    <2> HIDE DEF d
    <2>2. [d EXCEPT !.cnt = 0] = [map |-> d.map, ic |-> d.ic, free |-> d.free, cnt |-> 0, cur |-> d.cur]
      BY <2>1 DEF PoolOK, Icm
    <2>3. PoolOK([d EXCEPT !.cnt = 0])
      BY <2>1, <2>2 DEF PoolOK, Icm, PoolSplit
    <2>4. Reclaimed(m, Gone(m, alive), [d EXCEPT !.cnt = 0])
      BY <2>1, <2>2, <1>1 DEF Reclaimed
    <2> QED BY <1>4, <2>3, <2>4 DEF d
  <1>5. \/ CollectIfDue(m, alive) = counted
        \/ CollectIfDue(m, alive) = [ScanAllIc(counted, alive) EXCEPT !.cnt = 0]
    BY DEF CollectIfDue, counted
  <1> QED BY <1>3, <1>4, <1>5

\* The context that is handed out was free.
LEMMA TakenFree ==
    ASSUME NEW m, PoolOK(m), m.free # <<>>,
           NEW conn \in Nat, NEW win \in Client \cup {NoClient}
    PROVE  LET i == Last(m.free)
               d == TakeFree(m, conn, win)
           IN  /\ PoolOK(d)
               /\ i \in IcId /\ ~m.map[i]
               /\ d.map = [m.map EXCEPT ![i] = TRUE]
               /\ d.ic = [m.ic EXCEPT ![i] = [conn |-> conn, win |-> win,
                                              enabled |-> FALSE, english |-> FALSE]]
               /\ d.cur = m.cur
  <1> DEFINE i == Last(m.free)
             d == TakeFree(m, conn, win)
             new == [conn |-> conn, win |-> win, enabled |-> FALSE, english |-> FALSE]
  <1>t. /\ m.map \in [IcId -> BOOLEAN] /\ m.ic \in [IcId -> Ic]
        /\ m.free \in Seq(IcId) /\ m.cnt \in Nat /\ m.cur \in IcId \cup {NoIc}
    BY DEF PoolOK, Icm
  <1>1. /\ Front(m.free) \in Seq(IcId) /\ i \in IcId /\ i \in Range(m.free)
        /\ Range(Front(m.free)) = Range(m.free) \ {i}
        /\ IsInjective(Front(m.free))
    BY <1>t, Popped DEF PoolOK, PoolSplit
  <1>2. ~m.map[i]
    BY <1>1 DEF PoolOK, PoolSplit
  <1>3. [ResetIc EXCEPT !.conn = conn, !.win = win] = new
    <2> DEFINE r == [ResetIc EXCEPT !.conn = conn, !.win = win]
    <2>1. ResetIc \in Ic
      BY DEF ResetIc, Ic
    <2>2. r \in Ic
      BY <2>1 DEF Ic
    <2>3. r.conn = conn /\ r.win = win /\ r.enabled = FALSE /\ r.english = FALSE
      BY <2>1 DEF Ic, ResetIc
    <2> HIDE DEF r
    <2>4. r = new
      BY <2>2, <2>3 DEF Ic
    <2> QED BY <2>4 DEF r
  <1>4. d = [map |-> [m.map EXCEPT ![i] = TRUE], ic |-> [m.ic EXCEPT ![i] = new],
             free |-> Front(m.free), cnt |-> m.cnt, cur |-> m.cur]
    <2> DEFINE n == [ResetIc EXCEPT !.conn = conn, !.win = win]
    <2>1. d = [m EXCEPT !.map[i] = TRUE, !.free = Front(@), !.ic[i] = n]
      BY DEF TakeFree
    <2> HIDE DEF n, d, i
    <2>2. d = [map |-> [m.map EXCEPT ![i] = TRUE], ic |-> [m.ic EXCEPT ![i] = n],
               free |-> Front(m.free), cnt |-> m.cnt, cur |-> m.cur]
      BY <2>1 DEF PoolOK, Icm
    <2> QED BY <1>3, <2>2 DEF n
  <1> HIDE DEF d, i
  <1>5. new \in Ic
    BY DEF Ic
  <1>6. d \in Icm
    BY <1>1, <1>4, <1>5, <1>t DEF Icm
  <1>7. PoolSplit(d)
    BY <1>1, <1>4, <1>t DEF PoolOK, PoolSplit
  <1>8. d.cur # NoIc => d.map[d.cur]
    BY <1>4, <1>t DEF PoolOK
  <1> QED BY <1>1, <1>2, <1>4, <1>6, <1>7, <1>8 DEF PoolOK, d, i

-----------------------------------------------------------------------------
(* The server.                                                             *)

\* The messages of the server.  Tokens answer a request the client waits
\* for, marks tell of the event mask of a context.
UpToken == {"DIAL", "CONNECT", "OPEN", "CREATE", "CLOSE", "DISCONNECT"}
DownToken == {"ACCEPT", "CONNECTED", "OPENED", "CREATED", "CLOSED", "GOODBYE"}
Mark == {"CREATED", "MASK_ON", "MASK_OFF"}
AboutIc == {"DESTROY", "FOCUS", "UNFOCUS", "TRIGGER", "KEY"}

UpKind == UpToken \cup AboutIc \cup {"VALUES", "SYNC_REPLY"}
DownKind == DownToken \cup Mark \cup {"FORWARD", "COMMIT", "VALUES_SET", "DESTROYED", "TRIGGERED"}

UpMsg == [t: UpKind, ic: IcId \cup {NoIc}, key: Keys, n: Nat, win: Client \cup {NoClient}]
DownMsg == {m \in [t: DownKind, ic: IcId \cup {NoIc}]: m.t = "CREATED" => m.ic \in IcId}
KeyMsg == {m \in UpMsg: m.t = "KEY" /\ m.ic \in IcId}

Conn == [owner: Client \cup {NoClient}, sync: BOOLEAN, pending: Seq(KeyMsg)]

Srv == [icm: Icm, win: Client \cup {NoClient},
        text: BOOLEAN, shown: BOOLEAN, paused: BOOLEAN, shift: BOOLEAN,
        conn: [ConnId -> Conn], freeConn: Seq(Nat), lastConn: Nat,
        down: [Client -> Seq(DownMsg)], done: [Client -> Nat], alive: BOOLEAN]

\* The text is on the screen or hidden for the time being, not both.
Visible(s) == s.text = (s.shown \/ s.paused) /\ ~(s.shown /\ s.paused)

Good(s) == s \in Srv /\ PoolOK(s.icm) /\ Visible(s)

SameView(s, t) == t.text = s.text /\ t.shown = s.shown /\ t.paused = s.paused /\ t.shift = s.shift
SameLinks(s, t) == t.freeConn = s.freeConn /\ t.lastConn = s.lastConn

\* Whether the masks told in q leave the client of context i with all keys,
\* b being what it had before.
Masked(q, i, b) ==
    \/ Told(q, i) = {} /\ b
    \/ \E k \in Told(q, i): q[k].t = "MASK_ON" /\ \A j \in Told(q, i): j <= k

HasKind(q, K) == \E k \in DOMAIN q: q[k].t \in K

\* What is true of a handler that leaves contexts and connections in place:
\* it sends no tokens, a connection that waits after it waited before or
\* has been sent a key back, and the masks told agree with the contexts.
Grows(s, t) ==
    \A c \in Client:
        /\ Len(s.down[c]) <= Len(t.down[c])
        /\ \A k \in 1 .. Len(s.down[c]): t.down[c][k] = s.down[c][k]
        /\ \A k \in Len(s.down[c]) + 1 .. Len(t.down[c]): t.down[c][k].t \notin DownToken

Owes(s, t) ==
    \A id \in ConnId:
        /\ s.conn[id].sync => t.conn[id].sync
        /\ t.conn[id].sync =>
             \/ s.conn[id].sync
             \/ t.conn[id].owner \in Client /\ HasKind(t.down[t.conn[id].owner], {"FORWARD"})

MasksAgree(s, t, J) ==
    \A i \in J, c \in Client, b \in BOOLEAN:
        /\ s.icm.map[i] /\ s.icm.ic[i].conn \in ConnId
        /\ s.conn[s.icm.ic[i].conn].owner = c
        /\ s.icm.ic[i].enabled = Masked(s.down[c], i, b)
        => t.icm.ic[i].enabled = Masked(t.down[c], i, b)

SamePool(m, n) ==
    /\ n.map = m.map
    /\ \A i \in IcId: n.ic[i].conn = m.ic[i].conn /\ n.ic[i].win = m.ic[i].win

SameConns(s, t) ==
    /\ SameLinks(s, t)
    /\ \A id \in ConnId: /\ t.conn[id].owner = s.conn[id].owner
                         /\ t.conn[id].pending = s.conn[id].pending

FollowsIn(s, t, J) ==
    /\ Good(t)
    /\ SamePool(s.icm, t.icm)
    /\ SameConns(s, t)
    /\ t.done = s.done
    /\ t.alive => s.alive /\ Grows(s, t) /\ Owes(s, t) /\ MasksAgree(s, t, J)

Follows(s, t) == FollowsIn(s, t, IcId)

---------------------------------------------------------------------------
(* Sequences of messages. *)

\* What is in a sequence after an append.
LEMMA AppendedAt ==
    ASSUME NEW S, NEW q \in Seq(S), NEW m \in S
    PROVE  /\ Append(q, m) \in Seq(S) /\ Len(Append(q, m)) = Len(q) + 1 /\ Len(q) \in Nat
           /\ DOMAIN q = 1 .. Len(q) /\ DOMAIN Append(q, m) = 1 .. Len(q) + 1
           /\ \A k \in 1 .. Len(q): Append(q, m)[k] = q[k]
           /\ Append(q, m)[Len(q) + 1] = m
  OBVIOUS

AtMostOne(q, K) == \A j, k \in DOMAIN q: q[j].t \in K /\ q[k].t \in K => j = k

\* An append adds one kind of message; it stays the only one if there was none.
LEMMA KindAppend ==
    ASSUME NEW S, NEW q \in Seq(S), NEW m \in S, NEW K
    PROVE  /\ HasKind(Append(q, m), K) <=> HasKind(q, K) \/ m.t \in K
           /\ AtMostOne(q, K) /\ (m.t \in K => ~HasKind(q, K)) => AtMostOne(Append(q, m), K)
  <1> DEFINE r == Append(q, m)
  <1>1. /\ DOMAIN q = 1 .. Len(q) /\ DOMAIN r = 1 .. Len(q) + 1 /\ Len(q) \in Nat
        /\ \A k \in 1 .. Len(q): r[k] = q[k]
        /\ r[Len(q) + 1] = m
    BY AppendedAt
  <1> HIDE DEF r
  <1>2. HasKind(r, K) <=> HasKind(q, K) \/ m.t \in K
    BY <1>1 DEF HasKind
  <1>3. ASSUME AtMostOne(q, K), m.t \in K => ~HasKind(q, K) PROVE AtMostOne(r, K)
    <2> SUFFICES ASSUME NEW j \in DOMAIN r, NEW k \in DOMAIN r, r[j].t \in K, r[k].t \in K, j < k
                 PROVE  FALSE
      BY <1>1 DEF AtMostOne
    <2>1. j \in DOMAIN q /\ q[j].t \in K
      BY <1>1
    <2>2. CASE k \in DOMAIN q
      BY <2>1, <2>2, <1>1, <1>3 DEF AtMostOne
    <2>3. CASE k \notin DOMAIN q
      <3>1. m.t \in K
        BY <2>3, <1>1
      <3> QED BY <3>1, <2>1, <1>3 DEF HasKind
    <2> QED BY <2>2, <2>3
  <1> QED BY <1>2, <1>3 DEF r

\* What is in a sequence without its head.
LEMMA TailAt ==
    ASSUME NEW S, NEW q \in Seq(S), q # <<>>
    PROVE  /\ Tail(q) \in Seq(S) /\ Len(Tail(q)) = Len(q) - 1 /\ Len(q) \in Nat \ {0}
           /\ DOMAIN q = 1 .. Len(q) /\ DOMAIN Tail(q) = 1 .. Len(q) - 1
           /\ \A k \in 1 .. Len(q) - 1: Tail(q)[k] = q[k + 1]
           /\ Head(q) = q[1] /\ Head(q) \in S
  OBVIOUS

\* Without its head a queue has lost one kind of message, or has another of it.
LEMMA KindTail ==
    ASSUME NEW S, NEW q \in Seq(S), q # <<>>, NEW K
    PROVE  /\ HasKind(q, K) <=> HasKind(Tail(q), K) \/ Head(q).t \in K
           /\ AtMostOne(q, K) => /\ AtMostOne(Tail(q), K)
                                 /\ Head(q).t \in K => ~HasKind(Tail(q), K)
  <1> DEFINE r == Tail(q)
  <1>1. /\ DOMAIN q = 1 .. Len(q) /\ DOMAIN r = 1 .. Len(q) - 1 /\ Len(q) \in Nat \ {0}
        /\ \A k \in 1 .. Len(q) - 1: r[k] = q[k + 1]
        /\ q[1] = Head(q)
    BY TailAt
  <1> HIDE DEF r
  <1>2. HasKind(q, K) => HasKind(r, K) \/ Head(q).t \in K
    <2> SUFFICES ASSUME NEW k \in DOMAIN q, q[k].t \in K, k # 1 PROVE HasKind(r, K)
      BY <1>1 DEF HasKind
    <2>1. k - 1 \in DOMAIN r /\ r[k - 1] = q[k]
      BY <1>1
    <2> QED BY <2>1 DEF HasKind
  <1>3. HasKind(r, K) \/ Head(q).t \in K => HasKind(q, K)
    <2>1. ASSUME NEW k \in DOMAIN r, r[k].t \in K PROVE HasKind(q, K)
      <3>1. k + 1 \in DOMAIN q /\ q[k + 1] = r[k]
        BY <1>1
      <3> QED BY <3>1, <2>1 DEF HasKind
    <2>2. 1 \in DOMAIN q
      BY <1>1
    <2> QED BY <2>1, <2>2, <1>1 DEF HasKind
  <1>4. ASSUME AtMostOne(q, K)
        PROVE  AtMostOne(r, K) /\ (Head(q).t \in K => ~HasKind(r, K))
    <2>0. \A k \in DOMAIN r: k \in Nat /\ k >= 1 /\ k + 1 \in DOMAIN q /\ q[k + 1] = r[k]
      BY <1>1
    <2>1. AtMostOne(r, K)
      <3> SUFFICES ASSUME NEW j \in DOMAIN r, NEW k \in DOMAIN r, r[j].t \in K, r[k].t \in K
                   PROVE  j = k
        BY DEF AtMostOne
      <3>1. j + 1 = k + 1
        BY <2>0, <1>4 DEF AtMostOne
      <3> QED BY <3>1, <2>0
    <2>2. ASSUME Head(q).t \in K, NEW k \in DOMAIN r, r[k].t \in K PROVE FALSE
      <3>1. k + 1 = 1
        BY <2>0, <2>2, <1>1, <1>4 DEF AtMostOne
      <3> QED BY <3>1, <2>0
    <2> QED BY <2>1, <2>2 DEF HasKind
  <1> QED BY <1>2, <1>3, <1>4 DEF r

\* The last mask told is the one that counts.
LEMMA MaskedAppend ==
    ASSUME NEW q \in Seq(DownMsg), NEW m \in DownMsg, NEW i \in IcId, NEW b \in BOOLEAN
    PROVE  Masked(Append(q, m), i, b)
             = IF m.ic = i /\ m.t \in Mark THEN m.t = "MASK_ON" ELSE Masked(q, i, b)
  <1> DEFINE r == Append(q, m)
             n == Len(q) + 1
  <1>1. /\ DOMAIN q = 1 .. Len(q) /\ DOMAIN r = 1 .. n /\ Len(q) \in Nat
        /\ \A k \in 1 .. Len(q): r[k] = q[k]
        /\ r[n] = m
    BY AppendedAt
  <1> HIDE DEF r
  <1>2. CASE m.ic = i /\ m.t \in Mark
    <2>1. Told(r, i) = Told(q, i) \cup {n}
      BY <1>1, <1>2 DEF Told, Mark
    <2>2. n \in Nat /\ \A j \in Told(q, i): j \in Nat /\ j < n
      BY <1>1 DEF Told
    <2>3. m.t = "MASK_ON" => Masked(r, i, b)
      <3>1. n \in Told(r, i) /\ r[n] = m /\ \A j \in Told(r, i): j <= n
        BY <2>1, <2>2, <1>1
      <3> QED BY <3>1 DEF Masked
    <2>4. Masked(r, i, b) => m.t = "MASK_ON"
      <3>1. n \in Told(r, i) /\ \A k \in Told(q, i): ~(n <= k)
        BY <2>1, <2>2, <1>1 DEF Told
      <3> SUFFICES ASSUME NEW k \in Told(r, i), r[k].t = "MASK_ON", \A j \in Told(r, i): j <= k
                   PROVE  m.t = "MASK_ON"
        BY <3>1 DEF Masked
      <3>2. k = n
        BY <3>1, <2>1
      <3> QED BY <3>2, <1>1
    <2>5. Masked(r, i, b) = (m.t = "MASK_ON")
      BY <2>3, <2>4 DEF Masked
    <2> QED BY <2>5, <1>2 DEF r
  <1>3. CASE ~(m.ic = i /\ m.t \in Mark)
    <2>1. Told(r, i) = Told(q, i)
      BY <1>1, <1>3 DEF Told, Mark
    <2>2. \A k \in Told(q, i): r[k] = q[k]
      BY <1>1 DEF Told
    <2> QED BY <2>1, <2>2, <1>3 DEF Masked, r
  <1> QED BY <1>2, <1>3

\* A mask that has been read is the one the client starts from.
LEMMA MaskedTail ==
    ASSUME NEW q \in Seq(DownMsg), q # <<>>, NEW i \in IcId, NEW b \in BOOLEAN
    PROVE  LET m == Head(q) IN
           Masked(q, i, b)
             = Masked(Tail(q), i, IF m.ic = i /\ m.t \in Mark THEN m.t = "MASK_ON" ELSE b)
  <1> DEFINE r == Tail(q)
             m == Head(q)
             told == m.ic = i /\ m.t \in Mark
  <1>1. /\ DOMAIN q = 1 .. Len(q) /\ DOMAIN r = 1 .. Len(q) - 1 /\ Len(q) \in Nat \ {0}
        /\ \A k \in 1 .. Len(q) - 1: r[k] = q[k + 1]
        /\ q[1] = m
    BY TailAt
  <1> HIDE DEF r, m
  <1>2. \A k \in Told(q, i): k = 1 \/ k - 1 \in Told(r, i)
    BY <1>1 DEF Told
  <1>3. \A k \in Told(r, i): k \in Nat /\ k >= 1 /\ k + 1 \in Told(q, i) /\ q[k + 1] = r[k]
    BY <1>1 DEF Told
  <1>4. \A k \in Told(q, i): k \in Nat /\ k >= 1
    BY <1>1 DEF Told
  <1>5. told <=> 1 \in Told(q, i)
    BY <1>1 DEF Told, Mark
  <1>6. CASE Told(r, i) = {}
    <2>1. Told(q, i) = IF told THEN {1} ELSE {}
      BY <1>2, <1>5, <1>6
    <2>2. Masked(q, i, b) = IF told THEN m.t = "MASK_ON" ELSE b
      <3>1. CASE told
        <4>1. Told(q, i) = {1}
          BY <2>1, <3>1
        <4>2. Masked(q, i, b) <=> q[1].t = "MASK_ON"
          <5>1. 1 <= 1
            OBVIOUS
          <5> QED BY <4>1, <5>1 DEF Masked
        <4>3. Masked(q, i, b) \in BOOLEAN
          BY DEF Masked
        <4> QED BY <4>2, <4>3, <3>1, <1>1
      <3>2. CASE ~told
        <4>1. Told(q, i) = {}
          BY <2>1, <3>2
        <4>2. Masked(q, i, b) = b
          BY <4>1 DEF Masked
        <4> QED BY <4>2, <3>2
      <3> QED BY <3>1, <3>2
    <2>3. ASSUME NEW d \in BOOLEAN PROVE Masked(r, i, d) = d
      BY <1>6 DEF Masked
    <2> QED BY <2>2, <2>3 DEF r, m
  <1>7. CASE Told(r, i) # {}
    <2>1. ASSUME NEW d \in BOOLEAN PROVE Masked(q, i, b) = Masked(r, i, d)
      <3>1. ASSUME NEW k \in Told(q, i), q[k].t = "MASK_ON", \A j \in Told(q, i): j <= k
            PROVE  k - 1 \in Told(r, i) /\ r[k - 1].t = "MASK_ON" /\ \A j \in Told(r, i): j <= k - 1
        <4>1. PICK j \in Told(r, i): TRUE
          BY <1>7
        <4>2. j + 1 <= k /\ j >= 1
          BY <4>1, <3>1, <1>3
        <4>3. k # 1 /\ k - 1 \in Told(r, i)
          BY <4>2, <1>2, <1>3, <1>4
        <4>4. r[k - 1] = q[k]
          BY <4>3, <1>3, <1>4
        <4>5. \A l \in Told(r, i): l <= k - 1
          BY <3>1, <1>3, <1>4
        <4> QED BY <4>3, <4>4, <4>5, <3>1
      <3>2. ASSUME NEW k \in Told(r, i), r[k].t = "MASK_ON", \A j \in Told(r, i): j <= k
            PROVE  k + 1 \in Told(q, i) /\ q[k + 1].t = "MASK_ON" /\ \A j \in Told(q, i): j <= k + 1
        <4>1. ASSUME NEW j \in Told(q, i) PROVE j <= k + 1
          <5>1. j = 1 \/ (j - 1 \in Told(r, i) /\ j - 1 <= k)
            BY <3>2, <1>2
          <5> QED BY <5>1, <1>3, <1>4, <3>2
        <4> QED BY <4>1, <3>2, <1>3
      <3>3. Told(q, i) # {}
        BY <1>3, <1>7
      <3>4. (\E k \in Told(q, i): q[k].t = "MASK_ON" /\ \A j \in Told(q, i): j <= k)
              <=> (\E k \in Told(r, i): r[k].t = "MASK_ON" /\ \A j \in Told(r, i): j <= k)
        BY <3>1, <3>2
      <3> QED BY <3>3, <3>4, <1>7 DEF Masked
    <2>2. (IF told THEN m.t = "MASK_ON" ELSE b) \in BOOLEAN
      OBVIOUS
    <2> QED BY <2>1, <2>2 DEF r, m
  <1> QED BY <1>6, <1>7

\* A queue that was sent no token holds the tokens it held.
LEMMA KindsGrown ==
    ASSUME NEW q \in Seq(DownMsg), NEW r \in Seq(DownMsg), Len(q) <= Len(r),
           \A k \in 1 .. Len(q): r[k] = q[k],
           \A k \in Len(q) + 1 .. Len(r): r[k].t \notin DownToken
    PROVE  /\ \A K: HasKind(q, K) => HasKind(r, K)
           /\ \A K \in SUBSET DownToken: HasKind(r, K) => HasKind(q, K)
           /\ AtMostOne(q, DownToken) => AtMostOne(r, DownToken)
           /\ \A m: m.t \in DownToken =>
                 ((\E k \in DOMAIN r: r[k] = m) => (\E k \in DOMAIN q: q[k] = m))
  <1>1. DOMAIN q = 1 .. Len(q) /\ DOMAIN r = 1 .. Len(r) /\ Len(q) \in Nat /\ Len(r) \in Nat
    OBVIOUS
  <1>2. \A k \in DOMAIN q: k \in DOMAIN r /\ r[k] = q[k]
    BY <1>1
  <1>3. \A k \in DOMAIN r: r[k].t \in DownToken => k \in DOMAIN q /\ r[k] = q[k]
    BY <1>1
  <1>4. ASSUME NEW K, HasKind(q, K) PROVE HasKind(r, K)
    BY <1>2, <1>4 DEF HasKind
  <1>5. ASSUME NEW K \in SUBSET DownToken, HasKind(r, K) PROVE HasKind(q, K)
    BY <1>3, <1>5 DEF HasKind
  <1>6. AtMostOne(q, DownToken) => AtMostOne(r, DownToken)
    BY <1>3 DEF AtMostOne
  <1> QED BY <1>3, <1>4, <1>5, <1>6

---------------------------------------------------------------------------
(* Sequences of keys. *)

IsKey(m) == m.t = "KEY"
Increasing(q) == \A j, k \in DOMAIN q: j < k /\ IsKey(q[j]) /\ IsKey(q[k]) => q[j].n < q[k].n
Beyond(q, n) == \A k \in DOMAIN q: IsKey(q[k]) => n < q[k].n
UpTo(q, n) == \A k \in DOMAIN q: IsKey(q[k]) => q[k].n <= n
Before(p, q) ==
    \A j \in DOMAIN p, k \in DOMAIN q: IsKey(p[j]) /\ IsKey(q[k]) => p[j].n < q[k].n

\* A key with a number beyond those in a queue goes behind them.
LEMMA NumbersAppend ==
    ASSUME NEW S \in SUBSET UpMsg, NEW q \in Seq(S), NEW m \in S, NEW n \in Nat, NEW e \in Nat
    PROVE  /\ Increasing(q) /\ (IsKey(m) => UpTo(q, n) /\ n < m.n) => Increasing(Append(q, m))
           /\ UpTo(q, n) /\ n <= e /\ (IsKey(m) => m.n <= e) => UpTo(Append(q, m), e)
           /\ Beyond(q, n) /\ (IsKey(m) => n < m.n) => Beyond(Append(q, m), n)
  <1> DEFINE r == Append(q, m)
  <1>1. /\ DOMAIN q = 1 .. Len(q) /\ DOMAIN r = 1 .. Len(q) + 1 /\ Len(q) \in Nat
        /\ \A k \in 1 .. Len(q): r[k] = q[k]
        /\ r[Len(q) + 1] = m
    BY AppendedAt
  <1>2. m.n \in Nat /\ \A k \in DOMAIN q: q[k].n \in Nat
    BY DEF UpMsg
  <1> HIDE DEF r
  <1>3. ASSUME Increasing(q), IsKey(m) => UpTo(q, n) /\ n < m.n PROVE Increasing(r)
    <2> SUFFICES ASSUME NEW j \in DOMAIN r, NEW k \in DOMAIN r, j < k, IsKey(r[j]), IsKey(r[k])
                 PROVE  r[j].n < r[k].n
      BY DEF Increasing
    <2>1. j \in DOMAIN q /\ r[j] = q[j]
      BY <1>1
    <2>2. CASE k \in DOMAIN q
      BY <2>1, <2>2, <1>1, <1>3 DEF Increasing
    <2>3. CASE k \notin DOMAIN q
      <3>1. r[k] = m
        BY <2>3, <1>1
      <3>2. q[j].n <= n /\ n < m.n
        BY <3>1, <2>1, <1>3 DEF UpTo
      <3> QED BY <3>1, <3>2, <2>1, <1>2
    <2> QED BY <2>2, <2>3
  <1>4. ASSUME UpTo(q, n), n <= e, IsKey(m) => m.n <= e PROVE UpTo(r, e)
    BY <1>1, <1>2, <1>4 DEF UpTo
  <1>5. ASSUME Beyond(q, n), IsKey(m) => n < m.n PROVE Beyond(r, n)
    BY <1>1, <1>5 DEF Beyond
  <1> QED BY <1>3, <1>4, <1>5 DEF r

\* The first key of a queue has the lowest number.
LEMMA NumbersTail ==
    ASSUME NEW S \in SUBSET UpMsg, NEW q \in Seq(S), q # <<>>
    PROVE  /\ Increasing(q) => /\ Increasing(Tail(q))
                               /\ IsKey(Head(q)) => Beyond(Tail(q), Head(q).n)
           /\ \A n \in Nat: /\ UpTo(q, n) => /\ UpTo(Tail(q), n)
                                             /\ IsKey(Head(q)) => Head(q).n <= n
                            /\ Beyond(q, n) => /\ Beyond(Tail(q), n)
                                               /\ IsKey(Head(q)) => n < Head(q).n
  <1> DEFINE r == Tail(q)
  <1>1. /\ DOMAIN q = 1 .. Len(q) /\ DOMAIN r = 1 .. Len(q) - 1 /\ Len(q) \in Nat \ {0}
        /\ \A k \in 1 .. Len(q) - 1: r[k] = q[k + 1]
        /\ q[1] = Head(q)
    BY TailAt
  <1> HIDE DEF r
  <1>2. \A k \in DOMAIN r: k \in Nat /\ 1 < k + 1 /\ k + 1 \in DOMAIN q /\ q[k + 1] = r[k]
    BY <1>1
  <1>3. 1 \in DOMAIN q
    BY <1>1
  <1>4. ASSUME Increasing(q)
        PROVE  Increasing(r) /\ (IsKey(Head(q)) => Beyond(r, Head(q).n))
    <2>1. Increasing(r)
      <3> SUFFICES ASSUME NEW j \in DOMAIN r, NEW k \in DOMAIN r, j < k, IsKey(r[j]), IsKey(r[k])
                   PROVE  r[j].n < r[k].n
        BY DEF Increasing
      <3>1. j + 1 < k + 1
        BY <1>2
      <3> QED BY <3>1, <1>2, <1>4 DEF Increasing
    <2>2. IsKey(Head(q)) => Beyond(r, Head(q).n)
      BY <1>1, <1>2, <1>3, <1>4 DEF Increasing, Beyond
    <2> QED BY <2>1, <2>2
  <1>5. ASSUME NEW n \in Nat
        PROVE  /\ UpTo(q, n) => UpTo(r, n) /\ (IsKey(Head(q)) => Head(q).n <= n)
               /\ Beyond(q, n) => Beyond(r, n) /\ (IsKey(Head(q)) => n < Head(q).n)
    BY <1>1, <1>2, <1>3 DEF UpTo, Beyond
  <1> QED BY <1>4, <1>5 DEF r

\* A queue p all of whose keys come before those of q: the first of q may
\* go behind p, and the keys of p or q may get fewer.
LEMMA BeforeTail ==
    ASSUME NEW S \in SUBSET UpMsg, NEW p \in Seq(S), NEW q \in Seq(S), Before(p, q)
    PROVE  /\ p # <<>> => Before(Tail(p), q)
           /\ q # <<>> => Before(p, Tail(q))
           /\ q # <<>> /\ Increasing(q) /\ Increasing(p) =>
                 /\ IsKey(Head(q)) => Before(Append(p, Head(q)), Tail(q))
                                     /\ Increasing(Append(p, Head(q)))
           /\ p # <<>> /\ IsKey(Head(p)) => Beyond(q, Head(p).n)
  <1>1. ASSUME p # <<>> PROVE Before(Tail(p), q) /\ (IsKey(Head(p)) => Beyond(q, Head(p).n))
    <2> DEFINE r == Tail(p)
    <2>1. /\ DOMAIN p = 1 .. Len(p) /\ DOMAIN r = 1 .. Len(p) - 1 /\ Len(p) \in Nat \ {0}
          /\ \A k \in 1 .. Len(p) - 1: r[k] = p[k + 1]
          /\ p[1] = Head(p)
      BY <1>1, TailAt
    <2> HIDE DEF r
    <2>2. \A k \in DOMAIN r: k + 1 \in DOMAIN p /\ p[k + 1] = r[k]
      BY <2>1
    <2>3. 1 \in DOMAIN p
      BY <2>1
    <2>4. Before(r, q)
      BY <2>2 DEF Before
    <2>5. IsKey(Head(p)) => Beyond(q, Head(p).n)
      BY <2>1, <2>3 DEF Before, Beyond
    <2> QED BY <2>4, <2>5 DEF r
  <1>2. ASSUME q # <<>>
        PROVE  /\ Before(p, Tail(q))
               /\ Increasing(q) /\ Increasing(p) /\ IsKey(Head(q)) =>
                    Before(Append(p, Head(q)), Tail(q)) /\ Increasing(Append(p, Head(q)))
    <2> DEFINE r == Tail(q)
               m == Head(q)
               e == Append(p, m)
    <2>1. /\ DOMAIN q = 1 .. Len(q) /\ DOMAIN r = 1 .. Len(q) - 1 /\ Len(q) \in Nat \ {0}
          /\ \A k \in 1 .. Len(q) - 1: r[k] = q[k + 1]
          /\ q[1] = m /\ m \in S
      BY <1>2, TailAt
    <2>2. /\ DOMAIN p = 1 .. Len(p) /\ DOMAIN e = 1 .. Len(p) + 1 /\ Len(p) \in Nat
          /\ \A k \in 1 .. Len(p): e[k] = p[k]
          /\ e[Len(p) + 1] = m
      BY <2>1, AppendedAt
    <2>6. Increasing(q) /\ IsKey(m) => Beyond(r, m.n)
      BY <1>2, NumbersTail
    <2> HIDE DEF r, m, e
    <2>3. Before(p, r)
      <3>1. \A k \in DOMAIN r: k + 1 \in DOMAIN q /\ q[k + 1] = r[k]
        BY <2>1
      <3> QED BY <3>1 DEF Before
    <2>4. ASSUME Increasing(q), Increasing(p), IsKey(m) PROVE Before(e, r) /\ Increasing(e)
      <3>1. Before(e, r)
        <4> SUFFICES ASSUME NEW j \in DOMAIN e, NEW k \in DOMAIN r, IsKey(e[j]), IsKey(r[k])
                     PROVE  e[j].n < r[k].n
          BY DEF Before
        <4>1. CASE j \in DOMAIN p
          BY <4>1, <2>2, <2>3 DEF Before
        <4>2. CASE j \notin DOMAIN p
          <5>1. e[j] = m
            BY <4>2, <2>2
          <5> QED BY <5>1, <2>4, <2>6 DEF Beyond
        <4> QED BY <4>1, <4>2
      <3>2. Increasing(e)
        <4> SUFFICES ASSUME NEW j \in DOMAIN e, NEW k \in DOMAIN e, j < k, IsKey(e[j]), IsKey(e[k])
                     PROVE  e[j].n < e[k].n
          BY DEF Increasing
        <4>1. j \in DOMAIN p /\ e[j] = p[j]
          BY <2>2
        <4>2. CASE k \in DOMAIN p
          BY <4>1, <4>2, <2>2, <2>4 DEF Increasing
        <4>3. CASE k \notin DOMAIN p
          <5>1. e[k] = q[1] /\ 1 \in DOMAIN q
            BY <4>3, <2>1, <2>2
          <5> QED BY <5>1, <4>1 DEF Before
        <4> QED BY <4>2, <4>3
      <3> QED BY <3>1, <3>2
    <2> QED BY <2>3, <2>4 DEF r, m, e
  <1> QED BY <1>1, <1>2

---------------------------------------------------------------------------

\* Queue d of the queues q has got one message more.
Added(q, d, msg, r) ==
    \A e \in Client: r[e] = IF e = d THEN Append(q[e], msg) ELSE q[e]

\* A message changes nothing but the queue of its receiver; a message to a
\* connection that is not in use is the server's end.
LEMMA Sent ==
    ASSUME NEW s \in Srv, NEW id, NEW msg \in DownMsg, NEW t, t = Send(s, id, msg)
    PROVE  /\ t \in Srv
           /\ t.icm = s.icm /\ t.conn = s.conn /\ t.done = s.done
           /\ SameView(s, t) /\ SameLinks(s, t)
           /\ t.alive => /\ s.alive /\ id \in ConnId /\ s.conn[id].owner \in Client
                         /\ Added(s.down, s.conn[id].owner, msg, t.down)
  <1> DEFINE d == s.conn[id].owner
  <1>1. CASE ~s.alive
    <2>1. t = s
      BY <1>1 DEF Send
    <2> QED BY <2>1, <1>1 DEF SameView, SameLinks
  <1>2. CASE s.alive /\ (id \notin ConnId \/ d = NoClient)
    <2>1. t = [s EXCEPT !.alive = FALSE]
      BY <1>2 DEF Send
    <2>2. /\ t \in Srv /\ ~t.alive
          /\ t.icm = s.icm /\ t.conn = s.conn /\ t.done = s.done
          /\ SameView(s, t) /\ SameLinks(s, t)
      BY <2>1 DEF SameView, SameLinks, Srv
    <2> QED BY <2>2
  <1>3. CASE s.alive /\ id \in ConnId /\ d # NoClient
    <2>1. t = [s EXCEPT !.down[d] = Append(@, msg)]
      BY <1>3 DEF Send
    <2>2. d \in Client
      BY <1>3 DEF Srv, Conn
    <2> HIDE DEF d
    <2>3. Append(s.down[d], msg) \in Seq(DownMsg)
      BY <2>2 DEF Srv
    <2>4. t \in Srv
      <3> DEFINE k == [s.down EXCEPT ![d] = Append(s.down[d], msg)]
      <3>1. k \in [Client -> Seq(DownMsg)]
        BY <2>2, <2>3 DEF Srv
      <3>2. t = [s EXCEPT !.down = k]
        BY <2>1
      <3> HIDE DEF k
      <3> QED BY <3>1, <3>2 DEF Srv
    <2>5. /\ t.icm = s.icm /\ t.conn = s.conn /\ t.done = s.done
          /\ SameView(s, t) /\ SameLinks(s, t)
          /\ t.down = [s.down EXCEPT ![d] = Append(@, msg)]
      BY <2>1 DEF SameView, SameLinks, Srv
    <2>6. Added(s.down, d, msg, t.down)
      BY <2>2, <2>5 DEF Added, Srv
    <2> QED BY <1>3, <2>2, <2>4, <2>5, <2>6 DEF d
  <1> QED BY <1>1, <1>2, <1>3

\* Nothing done is nothing lost.
LEMMA FollowsItself == ASSUME NEW s, Good(s) PROVE Follows(s, s)
  BY DEF Follows, FollowsIn, SamePool, SameConns, SameLinks, Grows, Owes, MasksAgree, Good, Srv

\* One function after the other: what both keep is kept.
LEMMA FollowsInOn ==
    ASSUME NEW s, NEW t, NEW u, NEW J \in SUBSET IcId,
           Good(s), FollowsIn(s, t, J), FollowsIn(t, u, J)
    PROVE  FollowsIn(s, u, J)
  <1>1. Good(u) /\ Good(t) /\ SamePool(s.icm, u.icm) /\ SameConns(s, u) /\ u.done = s.done
    BY DEF FollowsIn, SamePool, SameConns, SameLinks
  <1>2. ASSUME u.alive
        PROVE  s.alive /\ Grows(s, u) /\ Owes(s, u) /\ MasksAgree(s, u, J)
    <2>1. /\ s.alive /\ t.alive
          /\ Grows(s, t) /\ Owes(s, t) /\ MasksAgree(s, t, J)
          /\ Grows(t, u) /\ Owes(t, u) /\ MasksAgree(t, u, J)
      BY <1>2 DEF FollowsIn
    <2>2. \A c \in Client: /\ Len(s.down[c]) \in Nat /\ Len(t.down[c]) \in Nat /\ Len(u.down[c]) \in Nat
                           /\ DOMAIN t.down[c] = 1 .. Len(t.down[c])
                           /\ DOMAIN u.down[c] = 1 .. Len(u.down[c])
      <3> TAKE c \in Client
      <3>1. s.down[c] \in Seq(DownMsg) /\ t.down[c] \in Seq(DownMsg) /\ u.down[c] \in Seq(DownMsg)
        BY <1>1 DEF Good, Srv
      <3> QED BY <3>1
    <2>3. Grows(s, u)
      <3> SUFFICES ASSUME NEW c \in Client
                   PROVE  /\ Len(s.down[c]) <= Len(u.down[c])
                          /\ \A k \in 1 .. Len(s.down[c]): u.down[c][k] = s.down[c][k]
                          /\ \A k \in Len(s.down[c]) + 1 .. Len(u.down[c]): u.down[c][k].t \notin DownToken
        BY DEF Grows
      <3>1. Len(s.down[c]) <= Len(t.down[c]) /\ Len(t.down[c]) <= Len(u.down[c])
        BY <2>1 DEF Grows
      <3>2. ASSUME NEW k \in 1 .. Len(s.down[c]) PROVE u.down[c][k] = s.down[c][k]
        BY <3>1, <2>1, <2>2 DEF Grows
      <3>3. ASSUME NEW k \in Len(s.down[c]) + 1 .. Len(u.down[c])
            PROVE  u.down[c][k].t \notin DownToken
        <4>1. CASE k <= Len(t.down[c])
          <5>1. u.down[c][k] = t.down[c][k] /\ t.down[c][k].t \notin DownToken
            BY <4>1, <2>1, <2>2 DEF Grows
          <5> QED BY <5>1
        <4>2. CASE k > Len(t.down[c])
          BY <4>2, <2>1, <2>2 DEF Grows
        <4> QED BY <4>1, <4>2, <2>2
      <3> QED BY <3>1, <3>2, <3>3, <2>2
    <2>4. Owes(s, u)
      <3>0. \A id \in ConnId: s.conn[id].sync => u.conn[id].sync
        BY <2>1 DEF Owes
      <3> SUFFICES ASSUME NEW id \in ConnId, u.conn[id].sync, ~s.conn[id].sync
                   PROVE  u.conn[id].owner \in Client /\ HasKind(u.down[u.conn[id].owner], {"FORWARD"})
        BY <3>0 DEF Owes
      <3>1. CASE ~t.conn[id].sync
        BY <3>1, <2>1 DEF Owes
      <3>2. CASE t.conn[id].sync
        <4> DEFINE c == t.conn[id].owner
        <4>1. c \in Client /\ HasKind(t.down[c], {"FORWARD"}) /\ u.conn[id].owner = c
          BY <3>2, <2>1 DEF Owes, Follows, FollowsIn, SameConns
        <4> HIDE DEF c
        <4>2. PICK k \in DOMAIN t.down[c]: t.down[c][k].t = "FORWARD"
          BY <4>1 DEF HasKind
        <4>3. k \in DOMAIN u.down[c] /\ u.down[c][k] = t.down[c][k]
          BY <4>1, <2>1, <2>2 DEF Grows
        <4> QED BY <4>1, <4>2, <4>3 DEF HasKind
      <3> QED BY <3>1, <3>2
    <2>5. MasksAgree(s, u, J)
      <3> SUFFICES ASSUME NEW i \in J, NEW c \in Client, NEW b \in BOOLEAN,
                          s.icm.map[i], s.icm.ic[i].conn \in ConnId,
                          s.conn[s.icm.ic[i].conn].owner = c,
                          s.icm.ic[i].enabled = Masked(s.down[c], i, b)
                   PROVE  u.icm.ic[i].enabled = Masked(u.down[c], i, b)
        BY DEF MasksAgree
      <3>1. t.icm.ic[i].enabled = Masked(t.down[c], i, b)
        BY <2>1 DEF MasksAgree
      <3>2. t.icm.map[i] /\ t.icm.ic[i].conn \in ConnId /\ t.conn[t.icm.ic[i].conn].owner = c
        BY DEF FollowsIn, SamePool, SameConns
      <3> QED BY <3>1, <3>2, <2>1 DEF MasksAgree
    <2> QED BY <2>1, <2>3, <2>4, <2>5
  <1> QED BY <1>1, <1>2 DEF FollowsIn

\* The same for all contexts.
LEMMA FollowsOn ==
    ASSUME NEW s, NEW t, NEW u, Good(s), Follows(s, t), Follows(t, u)
    PROVE  Follows(s, u)
  BY FollowsInOn DEF Follows

---------------------------------------------------------------------------
(* The functions the handlers are made of. *)

\* Whatever touches neither queues nor connections nor what a context is
\* told of its mask.
LEMMA QuietlyIn ==
    ASSUME NEW s, Good(s), NEW t \in Srv, PoolOK(t.icm), SamePool(s.icm, t.icm),
           NEW J \in SUBSET IcId, \A i \in J: t.icm.ic[i].enabled = s.icm.ic[i].enabled,
           SameLinks(s, t), t.conn = s.conn, t.down = s.down, t.done = s.done,
           t.alive = s.alive, Visible(t)
    PROVE  FollowsIn(s, t, J)
  <1>1. Good(t) /\ SameConns(s, t)
    BY DEF Good, SameConns
  <1>2. Grows(s, t)
    <2> SUFFICES ASSUME NEW c \in Client
                 PROVE  Len(s.down[c]) \in Nat
      BY DEF Grows
    <2>1. s.down[c] \in Seq(DownMsg)
      BY DEF Good, Srv
    <2> QED BY <2>1
  <1>3. Owes(s, t)
    BY DEF Owes
  <1>4. MasksAgree(s, t, J)
    BY DEF MasksAgree
  <1> QED BY <1>1, <1>2, <1>3, <1>4 DEF FollowsIn

\* The same for all contexts.
LEMMA Quietly ==
    ASSUME NEW s, Good(s), NEW t \in Srv, PoolOK(t.icm), SamePool(s.icm, t.icm),
           \A i \in IcId: t.icm.ic[i].enabled = s.icm.ic[i].enabled,
           SameLinks(s, t), t.conn = s.conn, t.down = s.down, t.done = s.done,
           t.alive = s.alive, Visible(t)
    PROVE  Follows(s, t)
  BY QuietlyIn DEF Follows

\* A message that is no token, and no mark of a context of J.
LEMMA SentIn ==
    ASSUME NEW s, Good(s), NEW id, NEW msg \in DownMsg, msg.t \notin DownToken,
           NEW J \in SUBSET IcId, msg.t \in Mark => msg.ic \notin J
    PROVE  FollowsIn(s, Send(s, id, msg), J)
  <1> DEFINE t == Send(s, id, msg)
             c == s.conn[id].owner
  <1>1. /\ t \in Srv
        /\ t.icm = s.icm /\ t.conn = s.conn /\ t.done = s.done
        /\ SameView(s, t) /\ SameLinks(s, t)
        /\ t.alive => /\ s.alive /\ id \in ConnId /\ c \in Client
                      /\ Added(s.down, c, msg, t.down)
    <2> s \in Srv
      BY DEF Good
    <2> QED BY Sent
  <1> HIDE DEF t, c
  <1>2. Good(t) /\ SamePool(s.icm, t.icm) /\ SameConns(s, t)
    BY <1>1 DEF Good, SamePool, SameConns, Visible, SameView
  <1>3. ASSUME t.alive
        PROVE  Grows(s, t) /\ Owes(s, t) /\ MasksAgree(s, t, J)
    <2>1. /\ s.down \in [Client -> Seq(DownMsg)] /\ c \in Client
          /\ Added(s.down, c, msg, t.down)
      BY <1>1, <1>3 DEF Good, Srv
    <2>2. \A d \in Client: t.down[d] = IF d = c THEN Append(s.down[d], msg) ELSE s.down[d]
      BY <2>1 DEF Added
    <2>3. \A d \in Client: s.down[d] \in Seq(DownMsg)
      BY <2>1
    <2>4. Grows(s, t)
      <3> SUFFICES ASSUME NEW d \in Client
                   PROVE  /\ Len(s.down[d]) <= Len(t.down[d])
                          /\ \A k \in 1 .. Len(s.down[d]): t.down[d][k] = s.down[d][k]
                          /\ \A k \in Len(s.down[d]) + 1 .. Len(t.down[d]): t.down[d][k].t \notin DownToken
        BY DEF Grows
      <3>1. CASE d = c
        <4> DEFINE q == s.down[d]
        <4>1. q \in Seq(DownMsg) /\ t.down[d] = Append(q, msg)
          BY <3>1, <2>2, <2>3
        <4> HIDE DEF q
        <4>2. /\ Len(t.down[d]) = Len(q) + 1 /\ Len(q) \in Nat
              /\ \A k \in 1 .. Len(q): t.down[d][k] = q[k]
              /\ t.down[d][Len(q) + 1] = msg
          BY <4>1, AppendedAt
        <4> QED BY <4>2 DEF q
      <3>2. CASE d # c
        BY <3>2, <2>2, <2>3
      <3> QED BY <3>1, <3>2
    <2>5. Owes(s, t)
      BY <1>1 DEF Owes
    <2>6. \A d \in Client, i \in J, b \in BOOLEAN: Masked(t.down[d], i, b) = Masked(s.down[d], i, b)
      BY <2>2, <2>3, MaskedAppend
    <2>7. MasksAgree(s, t, J)
      BY <2>6, <1>1 DEF MasksAgree
    <2> QED BY <2>4, <2>5, <2>7
  <1> QED BY <1>1, <1>2, <1>3 DEF FollowsIn, t

\* A message that is neither token nor mask changes nothing that matters.
LEMMA SentPlain ==
    ASSUME NEW s, Good(s), NEW id, NEW msg \in DownMsg, msg.t \notin DownToken \cup Mark
    PROVE  Follows(s, Send(s, id, msg))
  BY SentIn DEF Follows

\* The key that goes back makes its connection wait for the answer.
LEMMA KeySentBack ==
    ASSUME NEW s, Good(s), NEW id, NEW i \in IcId
    PROVE  Follows(s, BypassKey(s, id, i))
  <1> DEFINE w == [s EXCEPT !.conn[id].sync = TRUE]
             msg == Reply("FORWARD", i)
             c == s.conn[id].owner
             t == Send(w, id, msg)
  <1>0. s \in Srv
    BY DEF Good
  <1>1. msg \in DownMsg /\ msg.t = "FORWARD" /\ msg.t \notin DownToken \cup Mark
    BY DEF Reply, DownMsg, DownKind, DownToken, Mark
  <1>2. /\ w \in Srv /\ w.icm = s.icm /\ SameView(s, w) /\ SameLinks(s, w)
        /\ w.down = s.down /\ w.done = s.done /\ w.alive = s.alive
    BY <1>0 DEF Srv, Conn, SameView, SameLinks
  <1>3. \A j \in ConnId: /\ w.conn[j].owner = s.conn[j].owner
                         /\ w.conn[j].pending = s.conn[j].pending
                         /\ w.conn[j].sync = (s.conn[j].sync \/ j = id)
    BY <1>0 DEF Srv, Conn
  <1> HIDE DEF w, msg
  <1>4. Good(w)
    BY <1>2 DEF Good, Visible, SameView
  <1>5. Follows(w, t)
    BY <1>1, <1>4, SentPlain
  <1>6. t.alive => /\ id \in ConnId /\ w.conn[id].owner \in Client
                   /\ Added(w.down, w.conn[id].owner, msg, t.down)
    BY <1>1, <1>2, Sent
  <1> HIDE DEF t
  <1>7. SamePool(s.icm, t.icm) /\ SameConns(s, t) /\ t.done = s.done /\ Good(t)
    BY <1>2, <1>3, <1>5 DEF Follows, FollowsIn, SameConns, SameLinks, SamePool
  <1>8. ASSUME t.alive PROVE s.alive /\ Grows(s, t) /\ Owes(s, t) /\ MasksAgree(s, t, IcId)
    <2>1. w.alive /\ Grows(w, t) /\ Owes(w, t) /\ MasksAgree(w, t, IcId)
      BY <1>5, <1>8 DEF Follows, FollowsIn
    <2>2. Grows(s, t)
      BY <2>1, <1>2 DEF Grows
    <2>3. MasksAgree(s, t, IcId)
      BY <2>1, <1>2, <1>3 DEF MasksAgree
    <2>4. /\ id \in ConnId /\ t.conn[id].owner \in Client
          /\ HasKind(t.down[t.conn[id].owner], {"FORWARD"})
      <3>1. id \in ConnId /\ c \in Client /\ t.down[c] = Append(s.down[c], msg)
        BY <1>6, <1>8, <1>2, <1>3, <1>0 DEF Srv, Added
      <3>2. s.down[c] \in Seq(DownMsg)
        BY <3>1, <1>0 DEF Srv
      <3> HIDE DEF c
      <3>4. HasKind(t.down[c], {"FORWARD"})
        BY <3>1, <3>2, <1>1, KindAppend
      <3>5. t.conn[id].owner = c
        BY <1>7, <3>1 DEF SameConns, c
      <3> QED BY <3>1, <3>4, <3>5
    <2>5. Owes(s, t)
      BY <2>1, <2>4, <1>3 DEF Owes
    <2> QED BY <2>1, <2>2, <2>3, <2>5, <1>2
  <1> QED BY <1>7, <1>8 DEF Follows, FollowsIn, BypassKey, t, w, msg

---------------------------------------------------------------------------
(* The window and the focus. *)

\* The window of an enabled context is never left hidden with its text.
Unhidden(s) ==
    s.icm.cur # NoIc /\ Current(s).enabled /\ ~Current(s).english => ~s.paused

\* icmgr_refresh shows or hides the window, and never loses the text.
LEMMA Refreshed ==
    ASSUME NEW s, Good(s)
    PROVE  LET t == Refresh(s) IN Follows(s, t) /\ t.icm = s.icm /\ Unhidden(t)
  <1> DEFINE t == Refresh(s)
  <1>1. t \in {s, [s EXCEPT !.shown = FALSE, !.paused = TRUE],
               [s EXCEPT !.shown = TRUE, !.paused = FALSE]}
    BY DEF Refresh, Pause, GoOn
  <1>2. /\ t \in Srv /\ t.icm = s.icm /\ SameLinks(s, t) /\ t.text = s.text
        /\ t.conn = s.conn /\ t.down = s.down /\ t.done = s.done /\ t.alive = s.alive
    BY <1>1 DEF Good, Srv, SameLinks
  <1>3. /\ s.icm.cur = NoIc => t.shown = s.shown /\ t.paused = s.paused
        /\ s.icm.cur # NoIc /\ (~Current(s).enabled \/ Current(s).english)
             => t.shown = FALSE /\ t.paused = (s.paused \/ s.shown)
        /\ s.icm.cur # NoIc /\ ~(~Current(s).enabled \/ Current(s).english)
             => t.shown = (s.shown \/ s.paused) /\ t.paused = (s.shown /\ s.paused)
    BY DEF Refresh, Pause, GoOn, Good, Srv
  <1>4. s.shown \in BOOLEAN /\ s.paused \in BOOLEAN /\ s.text \in BOOLEAN
    BY DEF Good, Srv
  <1> HIDE DEF t
  <1>5. Visible(t)
    BY <1>2, <1>3, <1>4 DEF Good, Visible
  <1>6. Follows(s, t)
    BY <1>2, <1>5, Quietly DEF Good, SamePool
  <1>7. Unhidden(t)
    BY <1>2, <1>3 DEF Unhidden, Current, Good, Visible
  <1> QED BY <1>2, <1>6, <1>7 DEF t

\* A change of the pool that destroys and creates nothing, and enables nothing.
LEMMA PoolQuietly ==
    ASSUME NEW s, Good(s), NEW m, PoolOK(m), SamePool(s.icm, m),
           \A i \in IcId: m.ic[i].enabled = s.icm.ic[i].enabled,
           NEW t, t = [s EXCEPT !.icm = m]
    PROVE  Follows(s, t) /\ t.icm = m /\ SameView(s, t)
  <1>1. /\ t \in Srv /\ t.icm = m /\ SameLinks(s, t) /\ SameView(s, t)
        /\ t.conn = s.conn /\ t.down = s.down /\ t.done = s.done /\ t.alive = s.alive
    BY DEF Good, Srv, SameLinks, SameView, PoolOK
  <1>2. Visible(t)
    BY <1>1 DEF Good, Visible, SameView
  <1> QED BY <1>1, <1>2, Quietly

\* The focus moves to a mapped context, or not at all.
LEMMA FocusSet ==
    ASSUME NEW s, Good(s), NEW i \in IcId
    PROVE  LET t == Focused(s, i) IN
           /\ Follows(s, t) /\ SameView(s, t)
           /\ t.icm = IF s.icm.map[i] THEN [s.icm EXCEPT !.cur = i] ELSE s.icm
  <1> DEFINE m == SetCurrent(s.icm, i)
  <1>1. PoolOK(s.icm)
    BY DEF Good
  <1>2. PoolOK(m) /\ m.map = s.icm.map /\ m.ic = s.icm.ic
    BY <1>1 DEF SetCurrent, PoolOK, Icm, PoolSplit
  <1>6. m = IF s.icm.map[i] THEN [s.icm EXCEPT !.cur = i] ELSE s.icm
    BY DEF SetCurrent
  <1> HIDE DEF m
  <1>3. SamePool(s.icm, m) /\ \A j \in IcId: m.ic[j].enabled = s.icm.ic[j].enabled
    BY <1>2 DEF SamePool
  <1> DEFINE t == Focused(s, i)
  <1>4. t = [s EXCEPT !.icm = m]
    BY DEF Focused, m
  <1> HIDE DEF t
  <1>5. Follows(s, t) /\ t.icm = m /\ SameView(s, t)
    BY <1>2, <1>3, <1>4, PoolQuietly
  <1> QED BY <1>5, <1>6 DEF t

\* The focus is given up.
LEMMA FocusCleared ==
    ASSUME NEW s, Good(s)
    PROVE  Follows(s, [s EXCEPT !.icm = ClearCurrent(@)])
  <1> DEFINE m == ClearCurrent(s.icm)
  <1>1. PoolOK(s.icm)
    BY DEF Good
  <1>2. PoolOK(m) /\ m.map = s.icm.map /\ m.ic = s.icm.ic
    BY <1>1 DEF ClearCurrent, PoolOK, Icm, PoolSplit
  <1> HIDE DEF m
  <1>3. Follows(s, [s EXCEPT !.icm = m])
    BY <1>2, PoolQuietly DEF SamePool
  <1> QED BY <1>3 DEF m

\* English mode is no matter of the masks.
LEMMA EnglishToggled ==
    ASSUME NEW s, Good(s)
    PROVE  Follows(s, [s EXCEPT !.icm = ToggleEnglish(@)])
  <1> DEFINE m == ToggleEnglish(s.icm)
  <1>1. PoolOK(s.icm)
    BY DEF Good
  <1>2. CASE s.icm.cur = NoIc
    <2>1. m = s.icm
      BY <1>2 DEF ToggleEnglish
    <2> QED BY <2>1, <1>1, PoolQuietly DEF SamePool
  <1>3. CASE s.icm.cur # NoIc
    <2> DEFINE i == s.icm.cur
    <2>1. m = [s.icm EXCEPT !.ic[i].english = ~@]
      BY <1>3 DEF ToggleEnglish
    <2>2. i \in IcId /\ s.icm.ic \in [IcId -> Ic]
      BY <1>1, <1>3 DEF PoolOK, Icm
    <2> HIDE DEF m, i
    <2>3. /\ m.map = s.icm.map /\ m.cur = s.icm.cur /\ m.free = s.icm.free
          /\ m.cnt = s.icm.cnt
          /\ m.ic = [s.icm.ic EXCEPT ![i].english = ~@] /\ m \in Icm
      <3> DEFINE k == [s.icm.ic EXCEPT ![i].english = ~@]
      <3>1. k \in [IcId -> Ic]
        BY <2>2 DEF Ic
      <3>2. m = [s.icm EXCEPT !.ic = k] /\ s.icm \in Icm
        BY <2>1, <1>1 DEF PoolOK
      <3> HIDE DEF k
      <3>3. /\ m.map = s.icm.map /\ m.cur = s.icm.cur /\ m.free = s.icm.free
            /\ m.cnt = s.icm.cnt /\ m.ic = k /\ m \in Icm
        BY <3>1, <3>2 DEF Icm
      <3> QED BY <3>3 DEF k
    <2>4. PoolOK(m)
      BY <2>3, <1>1 DEF PoolOK, PoolSplit
    <2>5. \A j \in IcId: /\ m.ic[j].enabled = s.icm.ic[j].enabled
                         /\ m.ic[j].conn = s.icm.ic[j].conn /\ m.ic[j].win = s.icm.ic[j].win
      BY <2>2, <2>3 DEF Ic
    <2>6. Follows(s, [s EXCEPT !.icm = m])
      BY <2>3, <2>4, <2>5, PoolQuietly DEF SamePool
    <2> QED BY <2>6 DEF m
  <1> QED BY <1>2, <1>3

\* Neither is the state of the shift key.
LEMMA ShiftSet ==
    ASSUME NEW s, Good(s), NEW b \in BOOLEAN
    PROVE  LET t == [s EXCEPT !.shift = b] IN
           /\ Follows(s, t) /\ t.icm = s.icm
           /\ t.text = s.text /\ t.shown = s.shown /\ t.paused = s.paused
  <1> DEFINE t == [s EXCEPT !.shift = b]
  <1>1. /\ t \in Srv /\ t.icm = s.icm /\ SameLinks(s, t)
        /\ t.text = s.text /\ t.shown = s.shown /\ t.paused = s.paused
        /\ t.conn = s.conn /\ t.down = s.down /\ t.done = s.done /\ t.alive = s.alive
    BY DEF Good, Srv, SameLinks
  <1> HIDE DEF t
  <1>2. Visible(t)
    BY <1>1 DEF Good, Visible
  <1>3. Follows(s, t)
    BY <1>1, <1>2, Quietly DEF Good, SamePool
  <1> QED BY <1>1, <1>3 DEF t

\* A key finds the focus where text can be typed: no enabled context has
\* its text hidden.
LEMMA KeyFocusSet ==
    ASSUME NEW s, Good(s), NEW i \in IcId
    PROVE  LET t == KeyFocus(s, i) IN Follows(s, t) /\ (t.icm.cur # NoIc => Unhidden(t))
  <1> DEFINE r == IF s.icm.cur = NoIc THEN Focused(s, i) ELSE s
             t == KeyFocus(s, i)
  <1>1. Follows(s, r) /\ Good(r)
    BY FocusSet, FollowsItself DEF Follows, FollowsIn
  <1> HIDE DEF r
  <1>2. CASE r.icm.cur # NoIc /\ (r.icm.cur # i \/ ~r.shown)
    <2>1. t = Refresh(Focused(r, i))
      BY <1>2 DEF KeyFocus, r
    <2>2. Follows(r, Focused(r, i)) /\ Good(Focused(r, i))
      BY <1>1, FocusSet DEF Follows, FollowsIn
    <2>3. Follows(Focused(r, i), t) /\ Unhidden(t)
      BY <2>1, <2>2, Refreshed
    <2>4. Follows(r, t)
      BY <1>1, <2>2, <2>3, FollowsOn
    <2> QED BY <1>1, <2>3, <2>4, FollowsOn
  <1>3. CASE ~(r.icm.cur # NoIc /\ (r.icm.cur # i \/ ~r.shown))
    <2>1. t = r
      BY <1>3 DEF KeyFocus, r
    <2>2. r.icm.cur # NoIc => Unhidden(r)
      BY <1>1, <1>3 DEF Unhidden, Good, Visible
    <2> QED BY <1>1, <2>1, <2>2
  <1> QED BY <1>2, <1>3

---------------------------------------------------------------------------
(* One forwarded key. *)

\* The view takes a key: nothing is hidden, and nothing is afterwards.
Viewed(s, b) == [s EXCEPT !.text = b, !.shown = b]

\* The view takes a key while nothing is hidden: the text and its window agree.
LEMMA ViewFollows ==
    ASSUME NEW s, Good(s), ~s.paused, NEW b \in BOOLEAN, NEW t, t = Viewed(s, b)
    PROVE  Follows(s, t)
  <1>1. /\ t \in Srv /\ t.icm = s.icm /\ SameLinks(s, t)
        /\ t.text = b /\ t.shown = b /\ t.paused = s.paused
        /\ t.conn = s.conn /\ t.down = s.down /\ t.done = s.done /\ t.alive = s.alive
    BY DEF Good, Srv, SameLinks, Viewed
  <1>2. Visible(t)
    BY <1>1 DEF Good, Visible, Srv
  <1> QED BY <1>1, <1>2, Quietly DEF Good, SamePool

\* The view takes a key: text appears, or is committed.
LEMMA KeyTaken ==
    ASSUME NEW s, Good(s), ~s.paused, NEW k
    PROVE  Follows(s, OnKey(s, k))
  <1>1. ASSUME NEW w, Good(w), ~w.paused
        PROVE  Follows(w, Viewed(w, TRUE)) /\ Follows(w, Viewed(w, FALSE))
    <2> DEFINE on == TRUE
               off == FALSE
    <2>1. on \in BOOLEAN /\ off \in BOOLEAN
      OBVIOUS
    <2> HIDE DEF on, off
    <2>2. Follows(w, Viewed(w, on)) /\ Follows(w, Viewed(w, off))
      BY <2>1, <1>1, ViewFollows
    <2> QED BY <2>2 DEF on, off
  <1>2. Follows(s, Typed(s))
    <2>1. Typed(s) = Viewed(s, TRUE)
      BY DEF Typed, Viewed
    <2> QED BY <2>1, <1>1
  <1>3. Follows(s, Committed(s))
    <2> DEFINE w == CommitPreedit(s)
    <2>1. Committed(s) = Viewed(w, FALSE)
      BY DEF Committed, Viewed
    <2>2. CASE s.icm.cur = NoIc
      <3>1. w = s
        BY <2>2 DEF CommitPreedit
      <3> QED BY <2>1, <3>1, <1>1
    <2>3. CASE s.icm.cur # NoIc
      <3> DEFINE id == Current(s).conn
                 msg == Reply("COMMIT", s.icm.cur)
      <3>1. w = Send(s, id, msg)
        BY <2>3 DEF CommitPreedit, Commit
      <3>2. msg \in DownMsg /\ msg.t \notin DownToken \cup Mark /\ s \in Srv
        BY DEF Reply, DownMsg, DownKind, DownToken, Mark, Good, PoolOK, Icm
      <3> HIDE DEF id, msg, w
      <3>3. Follows(s, w) /\ ~w.paused
        BY <3>1, <3>2, SentPlain, Sent DEF SameView
      <3>4. Good(w)
        BY <3>3 DEF Follows, FollowsIn
      <3>5. Follows(w, Viewed(w, FALSE))
        BY <3>3, <3>4, <1>1
      <3> QED BY <2>1, <3>3, <3>5, FollowsOn
    <2> QED BY <2>2, <2>3
  <1> QED BY <1>2, <1>3, FollowsItself DEF OnKey

\* A key that is not a hot key goes to the view or back to its client.
LEMMA PlainKeyFollows ==
    ASSUME NEW s, Good(s), s.icm.cur # NoIc, Unhidden(s), NEW id, NEW m \in KeyMsg
    PROVE  Follows(s, PlainKey(s, id, m))
  <1> DEFINE off == [s EXCEPT !.shift = FALSE]
             t == PlainKey(s, id, m)
  <1>1. /\ Follows(s, off) /\ off.icm = s.icm
        /\ off.text = s.text /\ off.shown = s.shown /\ off.paused = s.paused
    BY ShiftSet
  <1>2. Good(off)
    BY <1>1 DEF Follows, FollowsIn
  <1>3. CASE GoesBack(off, m.key)
    <2>1. t = BypassKey(off, id, m.ic)
      BY <1>3 DEF PlainKey
    <2> HIDE DEF t, off
    <2>2. m.ic \in IcId
      BY DEF KeyMsg
    <2>3. Follows(off, t)
      BY <2>1, <2>2, <1>2, KeySentBack
    <2> QED BY <1>1, <2>3, FollowsOn DEF t
  <1>4. CASE ~GoesBack(off, m.key)
    <2>1. t = OnKey(off, m.key)
      BY <1>4 DEF PlainKey
    <2> HIDE DEF t, off
    <2>2. ~off.paused
      BY <1>1, <1>4 DEF GoesBack, Unhidden, Current
    <2>3. Follows(off, t)
      BY <2>1, <2>2, <1>2, KeyTaken
    <2> QED BY <1>1, <2>3, FollowsOn DEF t
  <1> QED BY <1>3, <1>4

\* The mask of one context is sent to the client of its connection: with it
\* all that was told of the context before is out of date.
LEMMA MaskSent ==
    ASSUME NEW s, Good(s), NEW i \in IcId, NEW on \in BOOLEAN,
           NEW w, FollowsIn(s, w, IcId \ {i}), w.icm.ic[i].enabled = on,
           NEW t, t = SetEventMask(w, w.icm.ic[i].conn, i, on)
    PROVE  Follows(s, t) /\ t.icm = w.icm
  <1> DEFINE id == w.icm.ic[i].conn
             c == w.conn[id].owner
             msg == Reply(IF on THEN "MASK_ON" ELSE "MASK_OFF", i)
  <1>0. w \in Srv /\ Good(w)
    BY DEF FollowsIn, Good
  <1>1. /\ msg \in DownMsg /\ msg.t \in Mark /\ msg.t \notin DownToken /\ msg.ic = i
        /\ (msg.t = "MASK_ON") = on
    BY DEF Reply, DownMsg, DownKind, DownToken, Mark
  <1>2. t = Send(w, id, msg)
    BY DEF SetEventMask
  <1> HIDE DEF msg, id, c
  <1>3. /\ t.icm = w.icm
        /\ t.alive => c \in Client /\ Added(w.down, c, msg, t.down)
    BY <1>0, <1>1, <1>2, Sent DEF c
  <1>4. FollowsIn(w, t, IcId \ {i})
    BY <1>0, <1>1, <1>2, SentIn
  <1>5. FollowsIn(s, t, IcId \ {i})
    BY <1>4, FollowsInOn
  <1>6. ASSUME t.alive, NEW d \in Client, NEW b \in BOOLEAN,
               s.icm.map[i], s.conn[s.icm.ic[i].conn].owner = d, s.icm.ic[i].conn \in ConnId
        PROVE  t.icm.ic[i].enabled = Masked(t.down[d], i, b)
    <2>1. d = c
      BY <1>6 DEF FollowsIn, SamePool, SameConns, id, c
    <2>2. w.down[c] \in Seq(DownMsg) /\ t.down[c] = Append(w.down[c], msg)
      BY <1>0, <1>3, <1>6 DEF Srv, Added
    <2>3. Masked(t.down[c], i, b) = on
      BY <2>2, <1>1, MaskedAppend
    <2> QED BY <2>1, <2>3, <1>3
  <1>7. ASSUME t.alive PROVE MasksAgree(s, t, IcId)
    <2> SUFFICES ASSUME NEW j \in IcId, NEW d \in Client, NEW b \in BOOLEAN,
                        s.icm.map[j], s.icm.ic[j].conn \in ConnId,
                        s.conn[s.icm.ic[j].conn].owner = d,
                        s.icm.ic[j].enabled = Masked(s.down[d], j, b)
                 PROVE  t.icm.ic[j].enabled = Masked(t.down[d], j, b)
      BY DEF MasksAgree
    <2>1. CASE j = i
      BY <2>1, <1>6, <1>7
    <2>2. CASE j # i
      <3>1. MasksAgree(s, t, IcId \ {i}) /\ j \in IcId \ {i}
        BY <2>2, <1>5, <1>7 DEF FollowsIn
      <3> QED BY <3>1 DEF MasksAgree
    <2> QED BY <2>1, <2>2
  <1> QED BY <1>3, <1>5, <1>7 DEF Follows, FollowsIn

\* The switch of one context, of which its client is still to be told.
Switched(s, i, on) == [s EXCEPT !.icm.ic[i].enabled = on]

\* A context is enabled or disabled: the masks of all others agree.
LEMMA SwitchSet ==
    ASSUME NEW s, Good(s), NEW i \in IcId, NEW on \in BOOLEAN,
           NEW w, w = Switched(s, i, on)
    PROVE  /\ FollowsIn(s, w, IcId \ {i})
           /\ w.icm.ic[i].enabled = on /\ w.icm.cur = s.icm.cur
  <1> DEFINE m == [s.icm EXCEPT !.ic[i].enabled = on]
  <1>1. /\ s.icm \in Icm /\ s.icm.ic \in [IcId -> Ic] /\ s \in Srv /\ PoolOK(s.icm)
    BY DEF Good, PoolOK, Icm, Ic
  <1>2. w = [s EXCEPT !.icm = m]
    BY <1>1 DEF Switched, Srv, Icm, Ic
  <1>3. /\ m.map = s.icm.map /\ m.cur = s.icm.cur /\ m.free = s.icm.free /\ m.cnt = s.icm.cnt
        /\ m.ic = [s.icm.ic EXCEPT ![i].enabled = on] /\ m \in Icm
    BY <1>1 DEF Icm, Ic
  <1> HIDE DEF m
  <1>4. /\ \A j \in IcId: /\ m.ic[j].conn = s.icm.ic[j].conn /\ m.ic[j].win = s.icm.ic[j].win
                          /\ m.ic[j].enabled = IF j = i THEN on ELSE s.icm.ic[j].enabled
    BY <1>1, <1>3 DEF Ic
  <1>5. PoolOK(m)
    BY <1>1, <1>3 DEF PoolOK, PoolSplit
  <1>6. /\ w \in Srv /\ w.icm = m /\ SameLinks(s, w) /\ SameView(s, w)
        /\ w.conn = s.conn /\ w.down = s.down /\ w.done = s.done /\ w.alive = s.alive
    BY <1>1, <1>2, <1>5 DEF Srv, PoolOK, SameLinks, SameView
  <1>7. Visible(w) /\ SamePool(s.icm, w.icm)
    BY <1>3, <1>4, <1>6 DEF Good, Visible, SameView, SamePool
  <1>8. FollowsIn(s, w, IcId \ {i})
    BY <1>4, <1>5, <1>6, <1>7, QuietlyIn
  <1> QED BY <1>3, <1>4, <1>6, <1>8

\* The switch of the current context and the mask that tells of it.
LEMMA Triggered ==
    ASSUME NEW s, Good(s), s.icm.cur # NoIc
    PROVE  Follows(s, TriggerPressed(s))
  <1> DEFINE i == s.icm.cur
             on == ~s.icm.ic[i].enabled
             w == Switched(s, i, on)
             t == TogglePreedit(w)
  <1>1. i \in IcId /\ on \in BOOLEAN
    BY DEF Good, PoolOK, Icm, Ic
  <1>2. TriggerPressed(s) = Refresh(t)
    BY DEF TriggerPressed, Switched
  <1> HIDE DEF on
  <1>3. /\ FollowsIn(s, w, IcId \ {i}) /\ w.icm.ic[i].enabled = on /\ w.icm.cur = i
    BY <1>1, SwitchSet
  <1> HIDE DEF w, i
  <1>4. t = SetEventMask(w, w.icm.ic[i].conn, i, on)
    BY <1>1, <1>3, IcAssumption DEF TogglePreedit, Current, IcId
  <1> HIDE DEF t
  <1>5. Follows(s, t)
    BY <1>1, <1>3, <1>4, MaskSent
  <1>6. Follows(t, Refresh(t))
    BY <1>5, Refreshed DEF Follows, FollowsIn
  <1> QED BY <1>2, <1>5, <1>6, FollowsOn

\* The shift key is released: English mode may change.
LEMMA ShiftUp ==
    ASSUME NEW s, Good(s)
    PROVE  Follows(s, ShiftReleased(s))
  <1> DEFINE off == [s EXCEPT !.shift = FALSE]
             w == [off EXCEPT !.icm = ToggleEnglish(@)]
  <1>1. Follows(s, off) /\ Good(off)
    BY ShiftSet DEF Follows, FollowsIn
  <1>2. ShiftReleased(s) = IF s.shift /\ Current(s).enabled THEN Refresh(w) ELSE off
    BY DEF ShiftReleased
  <1> HIDE DEF off
  <1>3. Follows(off, w) /\ Good(w)
    BY <1>1, EnglishToggled DEF Follows, FollowsIn
  <1> HIDE DEF w
  <1>4. Follows(w, Refresh(w))
    BY <1>3, Refreshed
  <1>5. Follows(s, Refresh(w))
    BY <1>1, <1>3, <1>4, FollowsOn
  <1> QED BY <1>1, <1>2, <1>5

\* A key that finds a focus.
LEMMA KeyFollows ==
    ASSUME NEW s, Good(s), s.icm.cur # NoIc => Unhidden(s), NEW id, NEW m \in KeyMsg
    PROVE  Follows(s, KeyInFocus(s, id, m))
  <1>1. CASE s.icm.cur = NoIc
    BY <1>1, FollowsItself DEF KeyInFocus
  <1>2. CASE s.icm.cur # NoIc /\ ~IsHot(m.key)
    BY <1>2, PlainKeyFollows DEF KeyInFocus
  <1>3. CASE s.icm.cur # NoIc /\ IsHot(m.key)
    <2>1. KeyInFocus(s, id, m) = HotKey(s, m.key)
      BY <1>3 DEF KeyInFocus
    <2>2. CASE m.key = "trigger"
      BY <2>1, <2>2, <1>3, Triggered DEF HotKey
    <2>3. CASE m.key = "shiftDown"
      BY <2>1, <2>3, ShiftSet DEF HotKey
    <2>4. CASE m.key = "shiftUp"
      BY <2>1, <2>4, ShiftUp DEF HotKey
    <2> QED BY <2>2, <2>3, <2>4, <1>3 DEF IsHot
  <1> QED BY <1>1, <1>2, <1>3

\* It is noted which key is handled, and that is all that does not follow.
Noted(s, c, n) == [s EXCEPT !.done[c] = n]

\* A forwarded key is noted as handled, and then handled.
LEMMA Forwarded ==
    ASSUME NEW s, Good(s), NEW id, NEW m \in KeyMsg
    PROVE  LET w == Noted(s, s.conn[id].owner, m.n)
           IN  Good(w) /\ Follows(w, ForwardEvent(s, id, m))
  <1> DEFINE w == Noted(s, s.conn[id].owner, m.n)
             f == KeyFocus(w, m.ic)
  <1>1. m.n \in Nat /\ m.ic \in IcId
    BY DEF KeyMsg, UpMsg
  <1>2. Good(w)
    BY <1>1 DEF Noted, Good, Srv, Visible
  <1>3. ForwardEvent(s, id, m) = KeyInFocus(f, id, m)
    BY DEF ForwardEvent, Noted
  <1> HIDE DEF w
  <1>4. Follows(w, f) /\ (f.icm.cur # NoIc => Unhidden(f))
    BY <1>1, <1>2, KeyFocusSet
  <1> HIDE DEF f
  <1>5. Follows(f, KeyInFocus(f, id, m))
    BY <1>4, KeyFollows DEF Follows, FollowsIn
  <1>6. Follows(w, ForwardEvent(s, id, m))
    BY <1>2, <1>3, <1>4, <1>5, FollowsOn
  <1> QED BY <1>2, <1>6 DEF w

---------------------------------------------------------------------------
(* The inductive invariant.  u, a and r are the requests under way, the    *)
(* clients and the processes that are still there.                         *)

NoToken(s, u, c) == ~HasKind(u[c], UpToken) /\ ~HasKind(s.down[c], DownToken)

NoConn(s, c) == \A id \in ConnId: s.conn[id].owner # c

\* A client and the server take turns: one token is under way at most, and
\* none while the client is free to ask.  A client has one connection at
\* most, and none while it is about to have one.
TakesTurns(s, u, a, r, c) ==
    /\ AtMostOne(u[c], UpToken)
    /\ AtMostOne(s.down[c], DownToken)
    /\ ~(HasKind(u[c], UpToken) /\ HasKind(s.down[c], DownToken))
    /\ \A id, e \in ConnId: s.conn[id].owner = c /\ s.conn[e].owner = c => id = e
    /\ HasKind(u[c], {"DIAL"}) \/ HasKind(s.down[c], {"GOODBYE"}) => NoConn(s, c)
    /\ c \in r /\ a[c].st = "idle" => NoConn(s, c)
    /\ c \in r /\ a[c].st # "waiting" => NoToken(s, u, c)
    /\ c \in r /\ (HasKind(u[c], {"DIAL"}) \/ a[c].st = "idle") => a[c].has = {}

\* Keys that have not been handled, in a queue of the server or on the way
\* to it, are numbered in the order they will be handled.
Numbered(s, u, a, r, c) ==
    /\ Increasing(u[c])
    /\ Beyond(u[c], s.done[c])
    /\ c \in r => UpTo(u[c], a[c].n) /\ s.done[c] <= a[c].n

QueueNumbered(s, u, a, r, c, p) ==
    /\ Increasing(p)
    /\ Beyond(p, s.done[c])
    /\ c \in r => UpTo(p, a[c].n)
    /\ Before(p, u[c])

QueuesNumbered(s, u, a, r, c) ==
    \A id \in ConnId:
        s.conn[id].owner = c => QueueNumbered(s, u, a, r, c, s.conn[id].pending)

\* A connection waits only for an answer its client owes.
AnswerOwed(s, u, r, c) ==
    \A id \in ConnId: c \in r /\ s.conn[id].owner = c /\ s.conn[id].sync =>
        HasKind(s.down[c], {"FORWARD"}) \/ HasKind(u[c], {"SYNC_REPLY"})

\* What a client has been told of its contexts, and of those it will have.
KnowsOf(s, a, c, i) ==
    i \in a[c].has \/ \E k \in DOMAIN s.down[c]: s.down[c][k] = Reply("CREATED", i)

MasksTold(s, a, r, c) ==
    \A i \in IcId:
        /\ c \in r /\ KnowsOf(s, a, c, i)
        /\ s.icm.map[i] /\ s.conn[s.icm.ic[i].conn].owner = c
        => s.icm.ic[i].enabled = Masked(s.down[c], i, i \in a[c].mask)

ClientOK(s, u, a, r, c) ==
    /\ TakesTurns(s, u, a, r, c)
    /\ Numbered(s, u, a, r, c)
    /\ QueuesNumbered(s, u, a, r, c)
    /\ AnswerOwed(s, u, r, c)
    /\ MasksTold(s, a, r, c)

MappedConn(s) == \A i \in IcId: s.icm.map[i] => s.icm.ic[i].conn \in ConnId

Proto(s, u, a, r) == MappedConn(s) /\ \A c \in Client: ClientOK(s, u, a, r, c)

\* The keys wait only while the connection does.
Waits(s) == \A id \in ConnId: s.conn[id].pending # <<>> => s.conn[id].sync

\* A client speaks of contexts it was given.
ClientMsg == {m \in UpMsg: m.t \in AboutIc => m.ic \in IcId}
Ups == [Client -> Seq(ClientMsg)]

App == [st: {"idle", "waiting", "open"}, has: SUBSET IcId, mask: SUBSET IcId, n: Nat]

TypeOK ==
    /\ Good(srv)
    /\ up \in Ups
    /\ app \in [Client -> App]
    /\ running \subseteq Client

XimInv ==
    /\ TypeOK
    /\ srv.alive => Proto(srv, up, app, running) /\ Waits(srv)

---------------------------------------------------------------------------
(* What keeps the invariant. *)

\* A handler that leaves contexts and connections in place keeps the invariant.
LEMMA Followed ==
    ASSUME NEW s, NEW t, Good(s), Follows(s, t), t.alive,
           NEW u, NEW a, NEW r, Proto(s, u, a, r), a \in [Client -> App]
    PROVE  Proto(t, u, a, r)
  <1>1. /\ Good(t) /\ SamePool(s.icm, t.icm) /\ SameConns(s, t) /\ t.done = s.done
        /\ Grows(s, t) /\ Owes(s, t) /\ MasksAgree(s, t, IcId)
    BY DEF Follows, FollowsIn
  <1>2. MappedConn(t)
    BY <1>1 DEF Proto, MappedConn, SamePool
  <1>3. ASSUME NEW c \in Client PROVE ClientOK(t, u, a, r, c)
    <2> DEFINE q == s.down[c]
               p == t.down[c]
    <2>1. ClientOK(s, u, a, r, c)
      BY DEF Proto
    <2>2. q \in Seq(DownMsg) /\ p \in Seq(DownMsg)
      BY <1>1 DEF Good, Srv
    <2>3. /\ Len(q) <= Len(p) /\ \A k \in 1 .. Len(q): p[k] = q[k]
          /\ \A k \in Len(q) + 1 .. Len(p): p[k].t \notin DownToken
      BY <1>1 DEF Grows
    <2> HIDE DEF q, p
    <2>4. /\ \A K: HasKind(q, K) => HasKind(p, K)
          /\ \A K \in SUBSET DownToken: HasKind(p, K) => HasKind(q, K)
          /\ AtMostOne(q, DownToken) => AtMostOne(p, DownToken)
          /\ \A m: m.t \in DownToken =>
                 ((\E k \in DOMAIN p: p[k] = m) => (\E k \in DOMAIN q: q[k] = m))
      BY <2>2, <2>3, KindsGrown
    <2>5. /\ HasKind(p, DownToken) => HasKind(q, DownToken)
          /\ HasKind(p, {"GOODBYE"}) => HasKind(q, {"GOODBYE"})
          /\ HasKind(q, {"FORWARD"}) => HasKind(p, {"FORWARD"})
      BY <2>4 DEF DownToken
    <2>6. \A id \in ConnId: t.conn[id].owner = s.conn[id].owner /\ t.conn[id].pending = s.conn[id].pending
      BY <1>1 DEF SameConns
    <2>7. TakesTurns(t, u, a, r, c)
      BY <2>1, <2>4, <2>5, <2>6 DEF ClientOK, TakesTurns, NoToken, NoConn, p, q
    <2>8. Numbered(t, u, a, r, c)
      BY <2>1, <1>1 DEF ClientOK, Numbered
    <2>9. QueuesNumbered(t, u, a, r, c)
      BY <2>1, <2>6, <1>1 DEF ClientOK, QueuesNumbered, QueueNumbered
    <2>10. AnswerOwed(t, u, r, c)
      BY <2>1, <2>5, <2>6, <1>1 DEF ClientOK, AnswerOwed, Owes, p, q
    <2>11. MasksTold(t, a, r, c)
      <3> SUFFICES ASSUME NEW i \in IcId, c \in r, KnowsOf(t, a, c, i), t.icm.map[i],
                          t.conn[t.icm.ic[i].conn].owner = c
                   PROVE  t.icm.ic[i].enabled = Masked(t.down[c], i, i \in a[c].mask)
        BY DEF MasksTold
      <3>1. s.icm.map[i] /\ t.icm.ic[i].conn = s.icm.ic[i].conn /\ s.icm.ic[i].conn \in ConnId
        BY <1>1 DEF SamePool, Proto, MappedConn
      <3>2. s.conn[s.icm.ic[i].conn].owner = c
        BY <3>1, <2>6
      <3>3. KnowsOf(s, a, c, i)
        <4>1. Reply("CREATED", i).t \in DownToken
          BY DEF Reply, DownToken
        <4> QED BY <4>1, <2>4 DEF KnowsOf, p, q
      <3>4. s.icm.ic[i].enabled = Masked(s.down[c], i, i \in a[c].mask)
        BY <3>1, <3>2, <3>3, <2>1 DEF ClientOK, MasksTold
      <3> DEFINE b == i \in a[c].mask
      <3>5. b \in BOOLEAN
        OBVIOUS
      <3>6. s.icm.ic[i].enabled = Masked(s.down[c], i, b)
        BY <3>4
      <3> HIDE DEF b
      <3>7. t.icm.ic[i].enabled = Masked(t.down[c], i, b)
        BY <3>1, <3>2, <3>5, <3>6, <1>1 DEF MasksAgree
      <3> QED BY <3>7 DEF b
    <2> QED BY <2>7, <2>8, <2>9, <2>10, <2>11 DEF ClientOK
  <1> QED BY <1>2, <1>3 DEF Proto

\* The queues stay, and no connection stops waiting.
LEMMA WaitsFollowed ==
    ASSUME NEW s, NEW t, Follows(s, t), t.alive, Waits(s)
    PROVE  Waits(t)
  BY DEF Follows, FollowsIn, Waits, SameConns, Owes

---------------------------------------------------------------------------
(* A request is taken. *)

Rest(u, c) == [u EXCEPT ![c] = Tail(@)]

\* The requests of the others stay, and those of one client lose the first.
LEMMA Taken ==
    ASSUME NEW u \in Ups, NEW c \in Client, u[c] # <<>>
    PROVE  /\ Rest(u, c) \in Ups /\ Rest(u, c)[c] = Tail(u[c])
           /\ \A d \in Client \ {c}: Rest(u, c)[d] = u[d]
           /\ u[c] \in Seq(ClientMsg) /\ u[c] \in Seq(UpMsg) /\ Head(u[c]) \in ClientMsg
           /\ Head(u[c]) \in UpMsg
  <1> DEFINE q == u[c]
  <1>1. q \in Seq(ClientMsg) /\ ClientMsg \subseteq UpMsg
    BY DEF Ups, ClientMsg
  <1> HIDE DEF q
  <1>2. Tail(q) \in Seq(ClientMsg) /\ Head(q) \in ClientMsg
    BY <1>1, TailAt DEF q
  <1>3. Rest(u, c) \in Ups /\ Rest(u, c)[c] = Tail(q) /\ \A d \in Client \ {c}: Rest(u, c)[d] = u[d]
    BY <1>2 DEF Rest, Ups, q
  <1>4. q \in Seq(UpMsg)
    BY <1>1
  <1> QED BY <1>1, <1>2, <1>3, <1>4 DEF q

\* A request that is taken is one kind less.
LEMMA TakenKinds ==
    ASSUME NEW u \in Ups, NEW c \in Client, u[c] # <<>>, NEW K
    PROVE  /\ HasKind(u[c], K) <=> HasKind(Rest(u, c)[c], K) \/ Head(u[c]).t \in K
           /\ AtMostOne(u[c], K) => AtMostOne(Rest(u, c)[c], K)
           /\ AtMostOne(u[c], K) /\ Head(u[c]).t \in K => ~HasKind(Rest(u, c)[c], K)
  <1> DEFINE q == u[c]
  <1>1. q \in Seq(ClientMsg) /\ Rest(u, c)[c] = Tail(q)
    BY Taken
  <1> HIDE DEF q
  <1>2. /\ HasKind(q, K) <=> HasKind(Tail(q), K) \/ Head(q).t \in K
        /\ AtMostOne(q, K) => /\ AtMostOne(Tail(q), K)
                              /\ Head(q).t \in K => ~HasKind(Tail(q), K)
    BY <1>1, KindTail DEF q
  <1> QED BY <1>1, <1>2 DEF q

\* A request is taken: all is kept but the answer it may have been.
LEMMA RestOK ==
    ASSUME NEW s, Good(s), NEW u \in Ups, NEW a \in [Client -> App], NEW r,
           NEW c \in Client, u[c] # <<>>, Proto(s, u, a, r),
           NEW d \in Client
    PROVE  LET v == Rest(u, c) IN
           /\ TakesTurns(s, v, a, r, d) /\ Numbered(s, v, a, r, d)
           /\ QueuesNumbered(s, v, a, r, d) /\ MasksTold(s, a, r, d)
           /\ d # c \/ Head(u[c]).t # "SYNC_REPLY" => AnswerOwed(s, v, r, d)
  <1> DEFINE v == Rest(u, c)
             m == Head(u[c])
  <1>1. /\ v \in Ups /\ v[c] = Tail(u[c]) /\ \A e \in Client \ {c}: v[e] = u[e]
        /\ u[c] \in Seq(UpMsg) /\ m \in UpMsg
    BY Taken
  <1>9. ASSUME NEW K
        PROVE  /\ HasKind(u[c], K) <=> HasKind(v[c], K) \/ m.t \in K
               /\ AtMostOne(u[c], K) => AtMostOne(v[c], K)
    BY TakenKinds
  <1> HIDE DEF v, m
  <1>2. ClientOK(s, u, a, r, d)
    BY DEF Proto
  <1>3. /\ \A K: HasKind(v[d], K) => HasKind(u[d], K)
        /\ \A K: AtMostOne(u[d], K) => AtMostOne(v[d], K)
    BY <1>1, <1>9
  <1>4. TakesTurns(s, v, a, r, d)
    BY <1>2, <1>3 DEF ClientOK, TakesTurns, NoToken
  <1>5. Numbered(s, v, a, r, d)
    <2>1. CASE d # c
      BY <2>1, <1>1, <1>2 DEF ClientOK, Numbered
    <2>2. CASE d = c
      <3>1. s.done[d] \in Nat /\ a[d].n \in Nat
        BY DEF Good, Srv, App
      <3>2. /\ Increasing(u[d]) => Increasing(v[d])
            /\ Beyond(u[d], s.done[d]) => Beyond(v[d], s.done[d])
            /\ UpTo(u[d], a[d].n) => UpTo(v[d], a[d].n)
        BY <2>2, <3>1, <1>1, NumbersTail
      <3> QED BY <3>2, <1>2 DEF ClientOK, Numbered
    <2> QED BY <2>1, <2>2
  <1>6. QueuesNumbered(s, v, a, r, d)
    <2>1. CASE d # c
      BY <2>1, <1>1, <1>2 DEF ClientOK, QueuesNumbered, QueueNumbered
    <2>2. CASE d = c
      <3> SUFFICES ASSUME NEW id \in ConnId, s.conn[id].owner = d
                   PROVE  QueueNumbered(s, v, a, r, d, s.conn[id].pending)
        BY DEF QueuesNumbered
      <3> DEFINE p == s.conn[id].pending
      <3>1. QueueNumbered(s, u, a, r, d, p)
        BY <1>2 DEF ClientOK, QueuesNumbered
      <3>2. p \in Seq(UpMsg)
        <4>1. p \in Seq(KeyMsg) /\ KeyMsg \subseteq UpMsg
          BY DEF Good, Srv, Conn, KeyMsg
        <4> QED BY <4>1
      <3> HIDE DEF p
      <3>3. Before(p, v[d])
        BY <2>2, <3>1, <3>2, <1>1, BeforeTail DEF QueueNumbered
      <3> QED BY <3>1, <3>3 DEF QueueNumbered, p
    <2> QED BY <2>1, <2>2
  <1>7. MasksTold(s, a, r, d)
    BY <1>2 DEF ClientOK
  <1>8. ASSUME d # c \/ m.t # "SYNC_REPLY" PROVE AnswerOwed(s, v, r, d)
    <2>1. HasKind(u[d], {"SYNC_REPLY"}) => HasKind(v[d], {"SYNC_REPLY"})
      BY <1>8, <1>1, <1>9
    <2> QED BY <2>1, <1>2 DEF ClientOK, AnswerOwed
  <1> QED BY <1>4, <1>5, <1>6, <1>7, <1>8 DEF v, m

\* A request that answers no key is taken, and no token is under way after one.
LEMMA PlainRest ==
    ASSUME NEW s, Good(s), NEW u \in Ups, NEW a \in [Client -> App], NEW r,
           NEW c \in Client, u[c] # <<>>, Proto(s, u, a, r), Head(u[c]).t # "SYNC_REPLY"
    PROVE  /\ Proto(s, Rest(u, c), a, r)
           /\ Head(u[c]).t \in UpToken =>
                 NoToken(s, Rest(u, c), c) /\ (c \in r => a[c].st = "waiting")
  <1>1. Proto(s, Rest(u, c), a, r)
    BY RestOK DEF Proto, ClientOK
  <1>2. ASSUME Head(u[c]).t \in UpToken
        PROVE  NoToken(s, Rest(u, c), c) /\ (c \in r => a[c].st = "waiting")
    <2>1. TakesTurns(s, u, a, r, c)
      BY DEF Proto, ClientOK
    <2>2. /\ HasKind(u[c], UpToken)
          /\ AtMostOne(u[c], UpToken) => ~HasKind(Rest(u, c)[c], UpToken)
      BY <1>2, TakenKinds
    <2> QED BY <2>1, <2>2 DEF TakesTurns, NoToken
  <1> QED BY <1>1, <1>2

\* A token is answered by a token.  On the way connections may be freed,
\* and the client may be given one.
LEMMA Answered ==
    ASSUME NEW s, Good(s), NEW u \in Ups, NEW a \in [Client -> App], NEW r,
           Proto(s, u, a, r), NEW c \in Client, NoToken(s, u, c),
           c \in r => a[c].st = "waiting",
           NEW msg \in DownMsg, msg.t \in DownToken,
           NEW w \in Srv, Added(s.down, c, msg, w.down), w.done = s.done,
           \A id \in ConnId: \/ w.conn[id] = s.conn[id]
                             \/ w.conn[id].owner = NoClient
                             \/ w.conn[id].owner = c /\ w.conn[id].pending = <<>> /\ ~w.conn[id].sync,
           \A id, e \in ConnId: w.conn[id].owner = c /\ w.conn[e].owner = c => id = e,
           msg.t = "GOODBYE" => NoConn(w, c),
           MappedConn(w), \A d \in Client: MasksTold(w, a, r, d)
    PROVE  Proto(w, u, a, r)
  <1> SUFFICES ASSUME NEW d \in Client PROVE ClientOK(w, u, a, r, d)
    BY DEF Proto
  <1>1. ClientOK(s, u, a, r, d) /\ NoClient \notin Client
    BY IcAssumption DEF Proto
  <1>2. s.down[d] \in Seq(DownMsg) /\ w.down[d] = IF d = c THEN Append(s.down[d], msg) ELSE s.down[d]
    BY DEF Good, Srv, Added
  <1>3. ASSUME NEW K
        PROVE  /\ HasKind(w.down[d], K) <=> HasKind(s.down[d], K) \/ (d = c /\ msg.t \in K)
               /\ AtMostOne(s.down[d], K) /\ (d = c => ~HasKind(s.down[d], K)) => AtMostOne(w.down[d], K)
    <2> DEFINE q == s.down[d]
    <2>1. /\ HasKind(Append(q, msg), K) <=> HasKind(q, K) \/ msg.t \in K
          /\ AtMostOne(q, K) /\ (msg.t \in K => ~HasKind(q, K)) => AtMostOne(Append(q, msg), K)
      BY <1>2, KindAppend
    <2> QED BY <2>1, <1>2
  <1>4. TakesTurns(w, u, a, r, d)
    <2>1. CASE d = c
      <3>1. ~HasKind(u[c], UpToken) /\ ~HasKind(s.down[c], DownToken) /\ ~HasKind(u[c], {"DIAL"})
        BY DEF NoToken, HasKind, UpToken
      <3>2. AtMostOne(w.down[c], DownToken) /\ AtMostOne(u[c], UpToken)
        BY <2>1, <3>1, <1>1, <1>3 DEF ClientOK, TakesTurns
      <3>3. HasKind(w.down[c], {"GOODBYE"}) => msg.t = "GOODBYE"
        <4>1. ~HasKind(s.down[c], {"GOODBYE"})
          BY <3>1 DEF HasKind, DownToken
        <4> QED BY <2>1, <4>1, <1>3
      <3>4. c \in r => a[c].st # "idle"
        OBVIOUS
      <3> QED BY <2>1, <3>1, <3>2, <3>3, <3>4 DEF TakesTurns
    <2>2. CASE d # c
      <3>1. w.down[d] = s.down[d]
        BY <2>2, <1>2
      <3>2. \A id \in ConnId: w.conn[id].owner = d => s.conn[id].owner = d
        BY <2>2, <1>1
      <3>3. NoConn(s, d) => NoConn(w, d)
        BY <3>2 DEF NoConn
      <3>4. \A id, e \in ConnId: w.conn[id].owner = d /\ w.conn[e].owner = d => id = e
        BY <3>2, <1>1 DEF ClientOK, TakesTurns
      <3> QED BY <3>1, <3>3, <3>4, <1>1 DEF ClientOK, TakesTurns, NoToken
    <2> QED BY <2>1, <2>2
  <1>5. Numbered(w, u, a, r, d)
    BY <1>1 DEF ClientOK, Numbered
  <1>6. QueuesNumbered(w, u, a, r, d)
    <2> SUFFICES ASSUME NEW id \in ConnId, w.conn[id].owner = d
                 PROVE  QueueNumbered(w, u, a, r, d, w.conn[id].pending)
      BY DEF QueuesNumbered
    <2>1. CASE w.conn[id] = s.conn[id]
      BY <2>1, <1>1 DEF ClientOK, QueuesNumbered, QueueNumbered
    <2>2. CASE w.conn[id].pending = <<>>
      BY <2>2 DEF QueueNumbered, Increasing, Beyond, UpTo, Before
    <2> QED BY <2>1, <2>2, <1>1
  <1>7. AnswerOwed(w, u, r, d)
    <2>1. HasKind(s.down[d], {"FORWARD"}) => HasKind(w.down[d], {"FORWARD"})
      BY <1>3
    <2>2. \A id \in ConnId: w.conn[id].owner = d /\ w.conn[id].sync => w.conn[id] = s.conn[id]
      BY <1>1
    <2> QED BY <2>1, <2>2, <1>1 DEF ClientOK, AnswerOwed
  <1> QED BY <1>4, <1>5, <1>6, <1>7 DEF ClientOK

\* A token that is no mark leaves what the clients were told of the masks.
LEMMA MasksStill ==
    ASSUME NEW s, Good(s), NEW u \in Ups, NEW a \in [Client -> App], NEW r,
           Proto(s, u, a, r), NEW c \in Client, NoToken(s, u, c),
           NEW msg \in DownMsg, msg.t \notin Mark,
           NEW w \in Srv, Added(s.down, c, msg, w.down), w.icm = s.icm,
           \A id \in ConnId: \/ w.conn[id] = s.conn[id]
                             \/ w.conn[id].owner = NoClient
                             \/ w.conn[id].owner = c /\ (c \in r => a[c].has = {})
    PROVE  MappedConn(w) /\ \A d \in Client: MasksTold(w, a, r, d)
  <1>1. MappedConn(w)
    BY DEF Proto, MappedConn
  <1>2. ASSUME NEW d \in Client PROVE MasksTold(w, a, r, d)
    <2> SUFFICES ASSUME NEW i \in IcId, d \in r, KnowsOf(w, a, d, i), w.icm.map[i],
                        w.conn[w.icm.ic[i].conn].owner = d
                 PROVE  w.icm.ic[i].enabled = Masked(w.down[d], i, i \in a[d].mask)
      BY DEF MasksTold
    <2> DEFINE q == s.down[d]
    <2>1. q \in Seq(DownMsg) /\ w.down[d] = IF d = c THEN Append(q, msg) ELSE q
      BY DEF Good, Srv, Added
    <2> HIDE DEF q
    <2>2. KnowsOf(s, a, d, i)
      <3>1. CASE d # c
        BY <3>1, <2>1 DEF KnowsOf, q
      <3>2. CASE d = c
        <4> SUFFICES ASSUME NEW k \in DOMAIN w.down[d], w.down[d][k] = Reply("CREATED", i)
                     PROVE  \E j \in DOMAIN q: q[j] = Reply("CREATED", i)
          BY DEF KnowsOf, q
        <4>1. msg # Reply("CREATED", i)
          BY DEF Reply, Mark
        <4>2. /\ DOMAIN q = 1 .. Len(q) /\ DOMAIN Append(q, msg) = 1 .. Len(q) + 1 /\ Len(q) \in Nat
              /\ \A j \in 1 .. Len(q): Append(q, msg)[j] = q[j]
              /\ Append(q, msg)[Len(q) + 1] = msg
          BY <2>1, AppendedAt
        <4>3. w.down[d] = Append(q, msg)
          BY <3>2, <2>1
        <4> QED BY <4>1, <4>2, <4>3
      <3> QED BY <3>1, <3>2
    <2>3. w.icm.ic[i].conn \in ConnId /\ NoClient \notin Client
      BY <1>1, IcAssumption DEF MappedConn
    <2>4. s.conn[s.icm.ic[i].conn].owner = d
      <3> DEFINE id == w.icm.ic[i].conn
      <3>1. CASE w.conn[id] = s.conn[id]
        BY <3>1
      <3>2. CASE d = c /\ a[c].has = {}
        <4>1. PICK k \in DOMAIN q: q[k] = Reply("CREATED", i)
          BY <2>2, <3>2 DEF KnowsOf, q
        <4>2. HasKind(q, DownToken)
          BY <4>1 DEF HasKind, Reply, DownToken
        <4> QED BY <4>2, <3>2 DEF NoToken, q
      <3> QED BY <3>1, <3>2, <2>3
    <2>5. s.icm.ic[i].enabled = Masked(q, i, i \in a[d].mask)
      BY <2>2, <2>4 DEF Proto, ClientOK, MasksTold, q
    <2> DEFINE b == i \in a[d].mask
    <2>6. b \in BOOLEAN
      OBVIOUS
    <2> HIDE DEF b
    <2>7. Masked(w.down[d], i, b) = Masked(q, i, b)
      BY <2>1, <2>6, MaskedAppend
    <2> QED BY <2>5, <2>7 DEF b
  <1> QED BY <1>1, <1>2

---------------------------------------------------------------------------
(* The requests that leave contexts and connections in place. *)

\* SetIcValues follows.
LEMMA ValuesSet ==
    ASSUME NEW s, Good(s), NEW id, NEW w \in Client \cup {NoClient}
    PROVE  Follows(s, SetIcValues(s, id, w))
  <1> DEFINE e == IcEvents(s, w)
             msg == Reply("VALUES_SET", NoIc)
  <1>1. /\ e \in Srv /\ e.icm = s.icm /\ SameLinks(s, e) /\ SameView(s, e)
        /\ e.conn = s.conn /\ e.down = s.down /\ e.done = s.done /\ e.alive = s.alive
    BY DEF IcEvents, Good, Srv, SameLinks, SameView
  <1>2. msg \in DownMsg /\ msg.t \notin DownToken \cup Mark
    BY DEF Reply, DownMsg, DownKind, DownToken, Mark
  <1>3. SetIcValues(s, id, w) = Send(e, id, msg)
    BY DEF SetIcValues
  <1> HIDE DEF e, msg
  <1>4. Follows(s, e)
    <2>1. Visible(e) /\ SamePool(s.icm, e.icm)
      BY <1>1 DEF Good, Visible, SameView, SamePool
    <2> QED BY <1>1, <2>1, Quietly DEF Good
  <1>5. Follows(e, Send(e, id, msg))
    BY <1>2, <1>4, SentPlain DEF Follows, FollowsIn
  <1> QED BY <1>3, <1>4, <1>5, FollowsOn

\* SetIcFocus and UnsetIcFocus follow.
LEMMA FocusFollows ==
    ASSUME NEW s, Good(s), NEW i \in IcId
    PROVE  Follows(s, SetIcFocus(s, i)) /\ Follows(s, UnsetIcFocus(s, i))
  <1> DEFINE f == IF s.shown THEN s ELSE Focused(s, i)
  <1>1. Follows(s, f)
    BY FocusSet, FollowsItself
  <1>2. SetIcFocus(s, i) = Refresh(f)
    BY DEF SetIcFocus
  <1> HIDE DEF f
  <1>3. Follows(f, Refresh(f))
    BY <1>1, Refreshed DEF Follows, FollowsIn
  <1>4. Follows(s, SetIcFocus(s, i))
    BY <1>1, <1>2, <1>3, FollowsOn
  <1>5. Follows(s, UnsetIcFocus(s, i))
    BY FocusCleared, FollowsItself DEF UnsetIcFocus
  <1> QED BY <1>4, <1>5

\* A context is enabled, and its client told, after the client of the
\* request was told of it.
LEMMA EnabledFollows ==
    ASSUME NEW s, Good(s), NEW id, NEW i \in IcId
    PROVE  Follows(s, Enabled(SetEventMask(s, id, i, TRUE), i))
  <1> DEFINE y == SetEventMask(s, id, i, TRUE)
             msg == Reply("MASK_ON", i)
             t == Enabled(y, i)
  <1>0. s \in Srv
    BY DEF Good
  <1>1. msg \in DownMsg /\ msg.t \notin DownToken /\ msg.ic = i
    BY DEF Reply, DownMsg, DownKind, DownToken, Mark
  <1>2. y = Send(s, id, msg)
    BY DEF SetEventMask
  <1> HIDE DEF msg, y
  <1>3. FollowsIn(s, y, IcId \ {i}) /\ y.icm = s.icm
    BY <1>0, <1>1, <1>2, SentIn, Sent
  <1>4. Good(y) /\ y \in Srv
    BY <1>3 DEF FollowsIn, Good
  <1>5. CASE ~s.icm.map[i]
    <2>1. t = y
      BY <1>3, <1>5 DEF Enabled
    <2>2. MasksAgree(s, y, {i})
      BY <1>5 DEF MasksAgree
    <2>3. Follows(s, y)
      BY <1>3, <2>2 DEF Follows, FollowsIn, MasksAgree
    <2> QED BY <2>1, <2>3 DEF y
  <1>6. CASE s.icm.map[i]
    <2> DEFINE f == Focused(y, i)
               on == TRUE
               w == Switched(f, i, on)
               e == TogglePreedit(w)
    <2>1. Follows(y, f) /\ f.icm = [y.icm EXCEPT !.cur = i]
      BY <1>3, <1>4, <1>6, FocusSet
    <2>2. Good(f) /\ f.icm.cur = i
      BY <2>1, <1>4 DEF Follows, FollowsIn, Good, Srv, Icm
    <2>3. t = Refresh(e)
      BY <1>3, <1>6 DEF Enabled, Switched
    <2>4. on = TRUE
      OBVIOUS
    <2>6. on \in BOOLEAN
      OBVIOUS
    <2> HIDE DEF on, f, t
    <2>5. FollowsIn(f, w, IcId \ {i}) /\ w.icm.ic[i].enabled = on /\ w.icm.cur = i
      <3>1. Good(f)
        BY <2>2
      <3>2. FollowsIn(f, w, IcId \ {i}) /\ w.icm.ic[i].enabled = on /\ w.icm.cur = f.icm.cur
        BY <2>6, <3>1, SwitchSet
      <3> QED BY <3>2, <2>2
    <2> HIDE DEF w
    <2>9. FollowsIn(y, f, IcId \ {i})
      BY <2>1 DEF Follows, FollowsIn, MasksAgree
    <2>10. FollowsIn(s, w, IcId \ {i})
      <3>1. FollowsIn(s, f, IcId \ {i})
        BY <1>3, <2>9, FollowsInOn
      <3> QED BY <3>1, <2>5, FollowsInOn
    <2>11. e = SetEventMask(w, w.icm.ic[i].conn, i, on)
      BY <2>4, <2>5, IcAssumption DEF TogglePreedit, Current, IcId
    <2> HIDE DEF e
    <2>12. Follows(s, e)
      BY <2>5, <2>6, <2>10, <2>11, MaskSent
    <2>13. Follows(e, Refresh(e))
      BY <2>12, Refreshed DEF Follows, FollowsIn
    <2>14. Follows(s, t)
      BY <2>3, <2>12, <2>13, FollowsOn
    <2> QED BY <2>14 DEF t, y
  <1> QED BY <1>5, <1>6

\* TriggerNotify follows.
LEMMA TriggerFollows ==
    ASSUME NEW s, Good(s), NEW id, NEW i \in IcId
    PROVE  Follows(s, TriggerNotify(s, id, i))
  <1> DEFINE x == Send(s, id, Reply("TRIGGERED", i))
  <1>1. /\ Reply("TRIGGERED", i) \in DownMsg
        /\ Reply("TRIGGERED", i).t \notin DownToken \cup Mark
    BY DEF Reply, DownMsg, DownKind, DownToken, Mark
  <1>2. Follows(s, x)
    BY <1>1, SentPlain
  <1> HIDE DEF x
  <1>3. Follows(x, Enabled(SetEventMask(x, id, i, TRUE), i))
    BY <1>2, EnabledFollows DEF Follows, FollowsIn
  <1> QED BY <1>2, <1>3, FollowsOn DEF TriggerNotify, x

---------------------------------------------------------------------------
(* What a handler makes of a request: the pool moves as it promises, the   *)
(* invariant is kept, and no key is handled twice.                         *)

InUse(m) == {i \in IcId: m.map[i]}
Windows(m) == [i \in IcId |-> m.ic[i].win]
Unsure(m, r) == {i \in InUse(m): Windows(m)[i] \notin r \ Wide}

Stays(m, n) == InUse(n) = InUse(m) /\ Windows(n) = Windows(m)

Destroys(m, n) ==
    \E i \in InUse(m):
        /\ InUse(n) = InUse(m) \ {i}
        /\ Windows(n) = [Windows(m) EXCEPT ![i] = NoClient]
        /\ n.cur = NoIc

Creates(m, n, r) ==
    \E R \in SUBSET Unsure(m, r), w \in Client \cup {NoClient}, i \in IcId:
        /\ n.cur = IF R = {} THEN m.cur ELSE NoIc
        /\ i \notin InUse(m) \ R
        /\ InUse(n) = (InUse(m) \ R) \cup {i}
        /\ Windows(n) = [j \in IcId |-> IF j = i THEN w
                                        ELSE IF j \in R THEN NoClient ELSE Windows(m)[j]]

PoolMoves(m, n, r) == Stays(m, n) \/ Destroys(m, n) \/ Creates(m, n, r)

Ready(s, u, a, r, c) ==
    /\ Good(s) /\ u \in Ups /\ a \in [Client -> App] /\ r \subseteq Client
    /\ c \in Client /\ u[c] # <<>>
    /\ Proto(s, u, a, r) /\ Waits(s)

HandledOK(s, t, u, a, r, c) ==
    /\ Good(t)
    /\ PoolMoves(s.icm, t.icm, r)
    /\ t.alive => Proto(t, Rest(u, c), a, r) /\ Waits(t)
    /\ \A d \in Client: t.done[d] # s.done[d] => t.done[d] > s.done[d]

\* With the same contexts and windows the pool stays.
LEMMA PoolStays == ASSUME NEW m, NEW n, SamePool(m, n) PROVE Stays(m, n)
  BY DEF SamePool, Stays, InUse, Windows

\* Requests that leave contexts and connections in place, and those of a
\* client without a connection.
LEMMA PlainHandled ==
    ASSUME NEW s, NEW u, NEW a, NEW r, NEW c, Ready(s, u, a, r, c),
           Head(u[c]).t # "SYNC_REPLY", NEW t, Follows(s, t)
    PROVE  HandledOK(s, t, u, a, r, c)
  <1>1. /\ Good(s) /\ u \in Ups /\ a \in [Client -> App] /\ c \in Client /\ u[c] # <<>>
        /\ Proto(s, u, a, r) /\ Waits(s)
    BY DEF Ready
  <1>2. Proto(s, Rest(u, c), a, r)
    BY <1>1, PlainRest
  <1>3. t.alive => Proto(t, Rest(u, c), a, r) /\ Waits(t)
    BY <1>1, <1>2, Followed, WaitsFollowed
  <1>4. Good(t) /\ t.done = s.done /\ PoolMoves(s.icm, t.icm, r)
    BY PoolStays DEF Follows, FollowsIn, PoolMoves
  <1> QED BY <1>3, <1>4 DEF HandledOK

\* A request without a connection is dropped.
LEMMA NotConnected ==
    ASSUME NEW s, NEW u, NEW a, NEW r, NEW c, Ready(s, u, a, r, c), NoConn(s, c)
    PROVE  HandledOK(s, s, u, a, r, c)
  <1>1. /\ Good(s) /\ u \in Ups /\ a \in [Client -> App] /\ c \in Client /\ u[c] # <<>>
        /\ Proto(s, u, a, r) /\ Waits(s)
    BY DEF Ready
  <1>2. \A d \in Client: AnswerOwed(s, Rest(u, c), r, d)
    <2>1. AnswerOwed(s, Rest(u, c), r, c)
      BY DEF AnswerOwed, NoConn
    <2> QED BY <1>1, <2>1, RestOK
  <1>3. Proto(s, Rest(u, c), a, r)
    BY <1>1, <1>2, RestOK DEF Proto, ClientOK
  <1>4. PoolMoves(s.icm, s.icm, r)
    BY DEF PoolMoves, Stays
  <1> QED BY <1>1, <1>3, <1>4 DEF HandledOK

\* The requests that are answered by a plain token.
LEMMA TokenHandled ==
    ASSUME NEW s, NEW u, NEW a, NEW r, NEW c, Ready(s, u, a, r, c),
           NEW id \in ConnId, s.conn[id].owner = c,
           Head(u[c]).t \in UpToken, Head(u[c]).t # "SYNC_REPLY",
           NEW msg \in DownMsg, msg.t \in {"CONNECTED", "OPENED", "CLOSED"}
    PROVE  HandledOK(s, Send(s, id, msg), u, a, r, c)
  <1> DEFINE t == Send(s, id, msg)
             v == Rest(u, c)
  <1>1. /\ Good(s) /\ u \in Ups /\ a \in [Client -> App] /\ c \in Client /\ u[c] # <<>>
        /\ Proto(s, u, a, r) /\ Waits(s) /\ s \in Srv
    BY DEF Ready, Good
  <1>2. v \in Ups /\ Proto(s, v, a, r) /\ NoToken(s, v, c) /\ (c \in r => a[c].st = "waiting")
    BY <1>1, PlainRest, Taken
  <1> HIDE DEF v
  <1>3. /\ t \in Srv /\ t.icm = s.icm /\ t.conn = s.conn /\ t.done = s.done /\ SameView(s, t)
        /\ t.alive => Added(s.down, c, msg, t.down)
    BY <1>1, Sent
  <1> HIDE DEF t
  <1>4. Good(t) /\ PoolMoves(s.icm, t.icm, r)
    BY <1>1, <1>3 DEF Good, Visible, SameView, PoolMoves, Stays
  <1>5. ASSUME t.alive PROVE Proto(t, v, a, r) /\ Waits(t)
    <2>1. msg.t \in DownToken /\ msg.t \notin Mark /\ msg.t # "GOODBYE"
      BY DEF DownToken, Mark
    <2>2. \A k, e \in ConnId: t.conn[k].owner = c /\ t.conn[e].owner = c => k = e
      BY <1>1, <1>3 DEF Proto, ClientOK, TakesTurns
    <2>3. MappedConn(t) /\ \A d \in Client: MasksTold(t, a, r, d)
      BY <1>1, <1>2, <1>3, <1>5, <2>1, MasksStill
    <2>4. Proto(t, v, a, r)
      BY <1>1, <1>2, <1>3, <1>5, <2>1, <2>2, <2>3, Answered
    <2> QED BY <2>4, <1>1, <1>3 DEF Waits
  <1> QED BY <1>3, <1>4, <1>5 DEF HandledOK, t, v

---------------------------------------------------------------------------
(* Keys. *)

\* A key that has to wait stays behind those that wait already.
LEMMA KeyQueued ==
    ASSUME NEW s, NEW u, NEW a, NEW r, NEW c, Ready(s, u, a, r, c),
           NEW id \in ConnId, s.conn[id].owner = c, s.conn[id].sync,
           NEW m, m = Head(u[c]), m.t = "KEY"
    PROVE  HandledOK(s, [s EXCEPT !.conn[id].pending = Append(@, m)], u, a, r, c)
  <1> DEFINE t == [s EXCEPT !.conn[id].pending = Append(@, m)]
             v == Rest(u, c)
             p == s.conn[id].pending
  <1>1. /\ Good(s) /\ u \in Ups /\ a \in [Client -> App] /\ c \in Client /\ u[c] # <<>>
        /\ Proto(s, u, a, r) /\ Waits(s) /\ s \in Srv
    BY DEF Ready, Good
  <1>2. /\ v \in Ups /\ v[c] = Tail(u[c]) /\ \A d \in Client \ {c}: v[d] = u[d]
        /\ u[c] \in Seq(UpMsg) /\ m \in KeyMsg /\ m \in UpMsg
    BY <1>1, Taken DEF ClientMsg, KeyMsg, AboutIc
  <1>3. Proto(s, v, a, r)
    BY <1>1, PlainRest
  <1>4. p \in Seq(KeyMsg) /\ Append(p, m) \in Seq(KeyMsg)
    BY <1>1, <1>2 DEF Srv, Conn
  <1>5. /\ t \in Srv /\ t.icm = s.icm /\ t.done = s.done /\ t.down = s.down /\ t.alive = s.alive
        /\ SameView(s, t)
        /\ \A e \in ConnId: /\ t.conn[e].owner = s.conn[e].owner
                            /\ t.conn[e].sync = s.conn[e].sync
                            /\ t.conn[e].pending = IF e = id THEN Append(p, m) ELSE s.conn[e].pending
    BY <1>1, <1>4 DEF Srv, Conn, SameView
  <1>6. p \in Seq(UpMsg)
    BY <1>4 DEF KeyMsg
  <1> HIDE DEF t, v, p
  <1>7. Good(t) /\ PoolMoves(s.icm, t.icm, r) /\ Waits(t)
    BY <1>1, <1>5 DEF Good, Visible, SameView, PoolMoves, Stays, Waits
  <1>8. QueuesNumbered(t, v, a, r, c)
    <2> SUFFICES ASSUME NEW e \in ConnId, t.conn[e].owner = c
                 PROVE  QueueNumbered(t, v, a, r, c, t.conn[e].pending)
      BY DEF QueuesNumbered
    <2>1. e = id
      BY <1>1, <1>5 DEF Proto, ClientOK, TakesTurns
    <2>2. t.conn[e].pending = Append(p, m) /\ t.done = s.done
      BY <2>1, <1>5
    <2>3. QueueNumbered(s, u, a, r, c, p) /\ Numbered(s, u, a, r, c)
      BY <1>1 DEF Proto, ClientOK, QueuesNumbered, p
    <2>4. IsKey(m) /\ s.done[c] \in Nat /\ a[c].n \in Nat /\ m.n \in Nat
      BY <1>1, <1>2 DEF IsKey, Srv, App, UpMsg
    <2>5. Before(p, u[c]) /\ Increasing(u[c]) /\ Increasing(p)
      BY <2>3 DEF QueueNumbered, Numbered
    <2>6. Before(Append(p, m), v[c]) /\ Increasing(Append(p, m))
      BY <2>4, <2>5, <1>1, <1>2, <1>6, BeforeTail
    <2>7. s.done[c] < m.n /\ (c \in r => m.n <= a[c].n)
      BY <2>3, <2>4, <1>1, <1>2, NumbersTail DEF Numbered
    <2>8. Beyond(Append(p, m), s.done[c])
      BY <2>3, <2>4, <2>7, <1>2, <1>6, NumbersAppend DEF QueueNumbered
    <2>9. c \in r => UpTo(Append(p, m), a[c].n)
      BY <2>3, <2>4, <2>7, <1>2, <1>6, NumbersAppend DEF QueueNumbered
    <2> QED BY <2>2, <2>6, <2>8, <2>9 DEF QueueNumbered
  <1>9. ASSUME NEW d \in Client, d # c PROVE QueuesNumbered(t, v, a, r, d)
    BY <1>3, <1>5, <1>9 DEF Proto, ClientOK, QueuesNumbered, QueueNumbered
  <1>10. ASSUME NEW d \in Client PROVE ClientOK(t, v, a, r, d)
    <2>1. TakesTurns(t, v, a, r, d) /\ Numbered(t, v, a, r, d) /\ AnswerOwed(t, v, r, d)
      BY <1>3, <1>5 DEF Proto, ClientOK, TakesTurns, NoToken, NoConn, Numbered, AnswerOwed
    <2>2. MasksTold(t, a, r, d)
      BY <1>3, <1>5 DEF Proto, ClientOK, MappedConn, MasksTold, KnowsOf
    <2> QED BY <2>1, <2>2, <1>8, <1>9 DEF ClientOK
  <1>11. MappedConn(t)
    BY <1>3, <1>5 DEF Proto, MappedConn
  <1> QED BY <1>5, <1>7, <1>10, <1>11 DEF HandledOK, Proto, t, v

\* A key is noted, and no longer waits.
LEMMA KeyNoted ==
    ASSUME NEW s, Good(s), NEW v, NEW a \in [Client -> App], NEW r, Proto(s, v, a, r),
           NEW c \in Client, NEW n \in Nat,
           NEW w \in Srv, w.icm = s.icm, w.down = s.down, w.done = [s.done EXCEPT ![c] = n],
           \A e \in ConnId: w.conn[e].owner = s.conn[e].owner /\ w.conn[e].sync = s.conn[e].sync,
           \A e \in ConnId: w.conn[e].owner # c => w.conn[e].pending = s.conn[e].pending,
           \A e \in ConnId: w.conn[e].owner = c => QueueNumbered(w, v, a, r, c, w.conn[e].pending),
           Beyond(v[c], n), c \in r => n <= a[c].n
    PROVE  Proto(w, v, a, r)
  <1>1. /\ w.done[c] = n /\ \A d \in Client: d # c => w.done[d] = s.done[d]
    BY DEF Good, Srv
  <1>2. ASSUME NEW d \in Client PROVE ClientOK(w, v, a, r, d)
    <2>1. TakesTurns(w, v, a, r, d) /\ AnswerOwed(w, v, r, d)
      BY DEF Proto, ClientOK, TakesTurns, NoToken, NoConn, AnswerOwed
    <2>2. Numbered(w, v, a, r, d)
      BY <1>1 DEF Proto, ClientOK, Numbered
    <2>3. QueuesNumbered(w, v, a, r, d)
      BY <1>1 DEF Proto, ClientOK, QueuesNumbered, QueueNumbered
    <2>4. MasksTold(w, a, r, d)
      BY DEF Proto, ClientOK, MappedConn, MasksTold, KnowsOf
    <2> QED BY <2>1, <2>2, <2>3, <2>4 DEF ClientOK
  <1>3. MappedConn(w)
    BY DEF Proto, MappedConn
  <1> QED BY <1>2, <1>3 DEF Proto

\* A key that need not wait is handled at once: no other key waits.
LEMMA KeyHandled ==
    ASSUME NEW s, NEW u, NEW a, NEW r, NEW c, Ready(s, u, a, r, c),
           NEW id \in ConnId, s.conn[id].owner = c, ~s.conn[id].sync,
           NEW m, m = Head(u[c]), m.t = "KEY"
    PROVE  HandledOK(s, ForwardEvent(s, id, m), u, a, r, c)
  <1> DEFINE t == ForwardEvent(s, id, m)
             v == Rest(u, c)
             w == Noted(s, c, m.n)
  <1>1. /\ Good(s) /\ u \in Ups /\ a \in [Client -> App] /\ c \in Client /\ u[c] # <<>>
        /\ Proto(s, u, a, r) /\ Waits(s) /\ s \in Srv
    BY DEF Ready, Good
  <1>2. /\ v \in Ups /\ v[c] = Tail(u[c]) /\ u[c] \in Seq(UpMsg) /\ m \in KeyMsg /\ m.n \in Nat
    BY <1>1, Taken DEF ClientMsg, KeyMsg, AboutIc, UpMsg
  <1>3. Proto(s, v, a, r)
    BY <1>1, PlainRest
  <1>4. Good(w) /\ Follows(w, t)
    BY <1>1, <1>2, Forwarded
  <1>5. /\ w \in Srv /\ w.icm = s.icm /\ w.down = s.down /\ w.conn = s.conn /\ w.alive = s.alive
        /\ w.done = [s.done EXCEPT ![c] = m.n]
    BY <1>1, <1>2 DEF Noted, Srv
  <1> HIDE DEF t, v, w
  <1>6. /\ Beyond(v[c], m.n) /\ s.done[c] < m.n /\ (c \in r => m.n <= a[c].n)
    <2>1. Numbered(s, u, a, r, c) /\ IsKey(m) /\ s.done[c] \in Nat /\ a[c].n \in Nat
      BY <1>1 DEF Proto, ClientOK, IsKey, Srv, App
    <2> QED BY <2>1, <1>1, <1>2, NumbersTail DEF Numbered
  <1>7. Proto(w, v, a, r)
    <2>1. \A e \in ConnId: w.conn[e].owner = c => w.conn[e].pending = <<>>
      BY <1>1, <1>5 DEF Proto, ClientOK, TakesTurns, Waits
    <2>2. \A e \in ConnId: w.conn[e].owner = c => QueueNumbered(w, v, a, r, c, w.conn[e].pending)
      BY <2>1 DEF QueueNumbered, Increasing, Beyond, UpTo, Before
    <2> QED BY <2>2, <1>1, <1>2, <1>3, <1>5, <1>6, KeyNoted
  <1>8. Waits(w)
    BY <1>1, <1>5 DEF Waits
  <1>9. t.alive => Proto(t, v, a, r) /\ Waits(t)
    BY <1>1, <1>4, <1>7, <1>8, Followed, WaitsFollowed
  <1>10. Good(t) /\ PoolMoves(s.icm, t.icm, r)
    <2>1. SamePool(w.icm, t.icm) /\ Good(t)
      BY <1>4 DEF Follows, FollowsIn
    <2> QED BY <2>1, <1>5, PoolStays DEF PoolMoves
  <1>11. \A d \in Client: t.done[d] # s.done[d] => t.done[d] > s.done[d]
    <2>1. t.done = w.done
      BY <1>4 DEF Follows, FollowsIn
    <2> QED BY <2>1, <1>1, <1>2, <1>5, <1>6 DEF Srv
  <1> QED BY <1>9, <1>10, <1>11 DEF HandledOK, t, v

---------------------------------------------------------------------------
(* The answer to a key that was sent back: the queue moves on. *)

\* The queue of a connection is put in the place of another.
Requeued(s, id, q) == [s EXCEPT !.conn[id].pending = q]

\* The queue of one connection, and nothing else, is replaced.
LEMMA RequeuedAs ==
    ASSUME NEW s \in Srv, NEW id \in ConnId, NEW q \in Seq(KeyMsg),
           NEW t, t = Requeued(s, id, q)
    PROVE  /\ t \in Srv /\ t.icm = s.icm /\ t.down = s.down /\ t.alive = s.alive /\ t.done = s.done
           /\ SameView(s, t) /\ SameLinks(s, t)
           /\ \A e \in ConnId: /\ t.conn[e].owner = s.conn[e].owner
                               /\ t.conn[e].sync = s.conn[e].sync
                               /\ t.conn[e].pending = IF e = id THEN q ELSE s.conn[e].pending
  <1> DEFINE k == [s.conn EXCEPT ![id].pending = q]
  <1>1. k \in [ConnId -> Conn]
    BY DEF Srv, Conn
  <1>2. \A e \in ConnId: /\ k[e].owner = s.conn[e].owner
                         /\ k[e].sync = s.conn[e].sync
                         /\ k[e].pending = IF e = id THEN q ELSE s.conn[e].pending
    BY DEF Srv, Conn
  <1>3. t = [s EXCEPT !.conn = k]
    BY DEF Requeued, Srv
  <1> HIDE DEF k
  <1>4. /\ t \in Srv /\ t.conn = k
        /\ t.icm = s.icm /\ t.down = s.down /\ t.alive = s.alive /\ t.done = s.done
        /\ SameView(s, t) /\ SameLinks(s, t)
    BY <1>1, <1>3 DEF Srv, SameView, SameLinks
  <1> QED BY <1>2, <1>4

\* One key leaves the queue and is handled.
LEMMA QueuedHandled ==
    ASSUME NEW s, Good(s), NEW v \in Ups, NEW a \in [Client -> App], NEW r, Proto(s, v, a, r),
           NEW c \in Client, NEW id \in ConnId, s.conn[id].owner = c, s.conn[id].pending # <<>>,
           NEW t, t = OneQueued(s, id)
    PROVE  /\ Good(t) /\ SamePool(s.icm, t.icm)
           /\ \A e \in ConnId: /\ t.conn[e].owner = s.conn[e].owner
                               /\ e # id => t.conn[e].pending = s.conn[e].pending
                               /\ t.alive /\ s.conn[e].sync => t.conn[e].sync
           /\ t.conn[id].pending = Tail(s.conn[id].pending)
           /\ t.done[c] > s.done[c] /\ \A d \in Client: d # c => t.done[d] = s.done[d]
           /\ t.alive => Proto(t, v, a, r)
  <1> DEFINE p == s.conn[id].pending
             q == Tail(p)
             m == Head(p)
             w == Noted(s, c, m.n)
             x == Requeued(w, id, q)
             f == ForwardEvent(s, id, m)
  <1>1. s \in Srv /\ p \in Seq(KeyMsg) /\ KeyMsg \in SUBSET UpMsg
    BY DEF Good, Srv, Conn, KeyMsg
  <1>2. q \in Seq(KeyMsg) /\ m \in KeyMsg /\ m.n \in Nat /\ IsKey(m) /\ s.done[c] \in Nat
    <2>1. q \in Seq(KeyMsg) /\ m \in KeyMsg
      BY <1>1, TailAt
    <2> QED BY <1>1, <2>1 DEF KeyMsg, UpMsg, IsKey, Srv
  <1>3. Good(w) /\ Follows(w, f)
    BY <1>2, Forwarded
  <1>4. /\ w \in Srv /\ w.icm = s.icm /\ w.down = s.down /\ w.conn = s.conn /\ w.alive = s.alive
        /\ w.done = [s.done EXCEPT ![c] = m.n] /\ SameView(s, w)
    BY <1>1, <1>2 DEF Noted, Srv, SameView
  <1> HIDE DEF p, q, m, w
  <1>5. /\ x \in Srv /\ x.icm = w.icm /\ x.down = w.down /\ x.alive = w.alive /\ x.done = w.done
        /\ SameView(w, x) /\ SameLinks(w, x)
        /\ \A e \in ConnId: /\ x.conn[e].owner = w.conn[e].owner
                            /\ x.conn[e].sync = w.conn[e].sync
                            /\ x.conn[e].pending = IF e = id THEN q ELSE w.conn[e].pending
    BY <1>2, <1>4, RequeuedAs
  <1>6. t = Requeued(f, id, q)
    <2>1. f.conn[id].pending = p
      BY <1>3, <1>4 DEF Follows, FollowsIn, SameConns, p
    <2>2. t = [f EXCEPT !.conn[id].pending = Tail(@)]
      BY DEF OneQueued, m, p
    <2> HIDE DEF f
    <2> QED BY <2>1, <2>2 DEF q, Requeued
  <1> HIDE DEF x, f
  <1>7. /\ Good(f) /\ f \in Srv /\ SamePool(s.icm, f.icm) /\ SameConns(w, f) /\ f.done = w.done
        /\ f.alive => w.alive /\ Grows(w, f) /\ Owes(w, f) /\ MasksAgree(w, f, IcId)
    BY <1>3, <1>4 DEF Follows, FollowsIn, Good
  <1>8. /\ t \in Srv /\ t.icm = f.icm /\ t.down = f.down /\ t.alive = f.alive /\ t.done = f.done
        /\ SameView(f, t) /\ SameLinks(f, t)
        /\ \A e \in ConnId: /\ t.conn[e].owner = f.conn[e].owner
                            /\ t.conn[e].sync = f.conn[e].sync
                            /\ t.conn[e].pending = IF e = id THEN q ELSE f.conn[e].pending
    BY <1>2, <1>6, <1>7, RequeuedAs
  <1>9. Good(t) /\ Good(x)
    BY <1>3, <1>5, <1>7, <1>8 DEF Good, Visible, SameView
  <1>10. Follows(x, t)
    <2>1. SamePool(x.icm, t.icm) /\ SameConns(x, t) /\ t.done = x.done
      BY <1>4, <1>5, <1>7, <1>8 DEF SameConns, SameLinks
    <2>2. ASSUME t.alive
          PROVE  x.alive /\ Grows(x, t) /\ Owes(x, t) /\ MasksAgree(x, t, IcId)
      <3>1. x.alive /\ Grows(x, t)
        BY <1>5, <1>7, <1>8, <2>2 DEF Grows
      <3>2. Owes(x, t)
        BY <1>5, <1>7, <1>8, <2>2 DEF Owes
      <3>3. MasksAgree(x, t, IcId)
        BY <1>5, <1>7, <1>8, <2>2 DEF MasksAgree
      <3> QED BY <3>1, <3>2, <3>3
    <2> QED BY <2>1, <2>2, <1>9 DEF Follows, FollowsIn
  <1>11. /\ QueueNumbered(x, v, a, r, c, q) /\ Beyond(v[c], m.n) /\ s.done[c] < m.n
         /\ c \in r => m.n <= a[c].n
    <2>1. QueueNumbered(s, v, a, r, c, p)
      BY DEF Proto, ClientOK, QueuesNumbered, p
    <2>2. p \in Seq(UpMsg) /\ p # <<>> /\ q = Tail(p) /\ m = Head(p) /\ v[c] \in Seq(UpMsg)
      <3>1. v[c] \in Seq(ClientMsg) /\ ClientMsg \subseteq UpMsg
        BY DEF Ups, ClientMsg
      <3>2. p # <<>> /\ q = Tail(p) /\ m = Head(p)
        BY DEF p, q, m
      <3>3. v[c] \in Seq(UpMsg)
        BY <3>1
      <3> QED BY <1>1, <3>2, <3>3
    <2>3. /\ Increasing(p) /\ Beyond(p, s.done[c]) /\ (c \in r => UpTo(p, a[c].n)) /\ Before(p, v[c])
      BY <2>1 DEF QueueNumbered
    <2>4. Increasing(q) /\ Beyond(q, m.n) /\ s.done[c] < m.n
      BY <2>2, <2>3, <1>2, NumbersTail
    <2>5. c \in r => UpTo(q, a[c].n) /\ m.n <= a[c].n
      <3>1. a[c].n \in Nat
        BY DEF App
      <3> QED BY <3>1, <2>2, <2>3, <1>2, NumbersTail
    <2>6. Before(q, v[c]) /\ Beyond(v[c], m.n)
      BY <2>2, <2>3, <1>2, BeforeTail
    <2>7. x.done[c] = m.n
      BY <1>1, <1>4, <1>5 DEF Srv
    <2> QED BY <2>4, <2>5, <2>6, <2>7 DEF QueueNumbered
  <1>12. Proto(x, v, a, r)
    <2>1. \A e \in ConnId: s.conn[e].owner = c => e = id
      BY DEF Proto, ClientOK, TakesTurns
    <2>2. \A e \in ConnId: x.conn[e].owner # c => x.conn[e].pending = s.conn[e].pending
      BY <1>4, <1>5
    <2>3. \A e \in ConnId: x.conn[e].owner = c => QueueNumbered(x, v, a, r, c, x.conn[e].pending)
      BY <2>1, <1>4, <1>5, <1>11
    <2> QED BY <2>2, <2>3, <1>2, <1>4, <1>5, <1>11, KeyNoted
  <1>13. t.alive => Proto(t, v, a, r)
    BY <1>9, <1>10, <1>12, Followed
  <1>14. \A e \in ConnId: /\ t.conn[e].owner = s.conn[e].owner
                          /\ e # id => t.conn[e].pending = s.conn[e].pending
    BY <1>4, <1>7, <1>8 DEF SameConns
  <1>15. \A e \in ConnId: t.alive /\ s.conn[e].sync => t.conn[e].sync
    BY <1>4, <1>7, <1>8 DEF Owes
  <1>16. t.done[c] > s.done[c] /\ \A d \in Client: d # c => t.done[d] = s.done[d]
    <2>1. t.done = [s.done EXCEPT ![c] = m.n] /\ s.done \in [Client -> Nat]
      BY <1>1, <1>4, <1>7, <1>8 DEF Srv
    <2> QED BY <2>1, <1>2, <1>11
  <1>17. t.conn[id].pending = Tail(s.conn[id].pending)
    BY <1>8 DEF p, q
  <1>18. SamePool(s.icm, t.icm)
    BY <1>7, <1>8
  <1> QED BY <1>9, <1>13, <1>14, <1>15, <1>16, <1>17, <1>18

\* The course of ProcessQueue: the recursive function of its definition
\* exists, and what it is said to be.
LEMMA QueueCourse ==
    ASSUME NEW s, NEW id, Len(s.conn[id].pending) \in Nat
    PROVE  \E f: /\ f[0] = [s EXCEPT !.conn[id].sync = FALSE]
                 /\ \A k \in 1 .. Len(s.conn[id].pending): f[k] = NextQueued(f[k - 1], id)
                 /\ SyncReply(s, id) = f[Len(s.conn[id].pending)]
  <1> DEFINE L == Len(s.conn[id].pending)
             first == [s EXCEPT !.conn[id].sync = FALSE]
             Step(x) == Value({NextQueued(t, id): t \in {x}})
             Course(f, n) == f = [k \in 0 .. n |-> IF k = 0 THEN first ELSE Step(f[k - 1])]
             S == {n \in Nat: \E f: Course(f, n)}
  <1>0. ASSUME NEW x PROVE Step(x) = NextQueued(x, id)
    <2>1. {NextQueued(t, id): t \in {x}} = {NextQueued(x, id)}
      OBVIOUS
    <2> QED BY <2>1 DEF Value
  <1>6. SyncReply(s, id) = LET f == CHOOSE g: Course(g, L) IN f[L]
    BY DEF SyncReply
  <1> HIDE DEF L, first, Step
  <1>1. 0 \in S
    <2>1. Course([k \in 0 .. 0 |-> first], 0)
      OBVIOUS
    <2> QED BY <2>1
  <1>2. ASSUME NEW n \in S PROVE n + 1 \in S
    <2>1. PICK f: Course(f, n)
      OBVIOUS
    <2> DEFINE g == [k \in 0 .. n + 1 |-> IF k = n + 1 THEN Step(f[n]) ELSE f[k]]
    <2>2. \A k \in 0 .. n + 1: g[k] = IF k = 0 THEN first ELSE Step(g[k - 1])
      <3> SUFFICES ASSUME NEW k \in 0 .. n + 1
                   PROVE g[k] = IF k = 0 THEN first ELSE Step(g[k - 1])
        OBVIOUS
      <3>1. CASE k = 0
        BY <3>1, <2>1
      <3>2. CASE k = n + 1
        BY <3>2
      <3>3. CASE k \in 1 .. n
        <4>1. g[k] = f[k] /\ g[k - 1] = f[k - 1]
          BY <3>3
        <4> QED BY <4>1, <3>3, <2>1
      <3> QED BY <3>1, <3>2, <3>3
    <2>3. Course(g, n + 1)
      BY <2>2
    <2> HIDE DEF g, Course
    <2> QED BY <2>3
  <1>3. S = Nat
    <2> HIDE DEF S
    <2> S \in SUBSET Nat
      BY DEF S
    <2> QED BY <1>1, <1>2, SetInduction
  <1>4. L \in Nat
    BY DEF L
  <1>5. PICK h: Course(h, L)
    BY <1>3, <1>4
  <1> DEFINE f == CHOOSE g: Course(g, L)
  <1>7. Course(f, L)
    BY <1>5
  <1>8. SyncReply(s, id) = f[L]
    BY <1>6
  <1> HIDE DEF f
  <1>9. f[0] = first /\ \A k \in 1 .. L: f[k] = Step(f[k - 1])
    BY <1>4, <1>7
  <1> QED BY <1>0, <1>8, <1>9 DEF L, first

\* What is true after some of the queue has been handled.
Unqueued(s, x, v, a, r, id, k) ==
    /\ Good(x) /\ SamePool(s.icm, x.icm)
    /\ \A e \in ConnId: /\ x.conn[e].owner = s.conn[e].owner
                        /\ e # id => x.conn[e].pending = s.conn[e].pending
                        /\ x.alive /\ e # id /\ s.conn[e].sync => x.conn[e].sync
    /\ \A d \in Client: x.done[d] # s.done[d] => x.done[d] > s.done[d]
    /\ x.alive => /\ Proto(x, v, a, r)
                  /\ \/ x.conn[id].sync
                     \/ Len(x.conn[id].pending) = Len(s.conn[id].pending) - k

\* One turn of the loop: the queue gets shorter by one, or the connection waits.
LEMMA NextUnqueued ==
    ASSUME NEW s, Good(s), NEW v \in Ups, NEW a \in [Client -> App], NEW r,
           NEW c \in Client, NEW id \in ConnId, s.conn[id].owner = c,
           NEW k \in 1 .. Len(s.conn[id].pending), NEW x, Unqueued(s, x, v, a, r, id, k - 1),
           NEW y, y = NextQueued(x, id)
    PROVE  Unqueued(s, y, v, a, r, id, k)
  <1>1. CASE ~(x.alive /\ ~x.conn[id].sync)
    <2>1. y = x
      BY <1>1 DEF NextQueued
    <2> QED BY <1>1, <2>1 DEF Unqueued
  <1>2. CASE x.alive /\ ~x.conn[id].sync
    <2> DEFINE p == x.conn[id].pending
               L == Len(s.conn[id].pending)
    <2>1. y = OneQueued(x, id)
      BY <1>2 DEF NextQueued
    <2>2. /\ Good(x) /\ Proto(x, v, a, r) /\ x.conn[id].owner = c
          /\ Len(p) = L - (k - 1)
      BY <1>2 DEF Unqueued
    <2>3. p \in Seq(KeyMsg) /\ s.conn[id].pending \in Seq(KeyMsg)
      BY <2>2 DEF Good, Srv, Conn
    <2>4. L \in Nat /\ k \in 1 .. L
      BY <2>3
    <2> HIDE DEF L
    <2>5. p # <<>> /\ Len(Tail(p)) = L - k
      <3> HIDE DEF p
      <3>1. Len(p) >= 1
        BY <2>2, <2>4
      <3>2. p # <<>>
        BY <3>1
      <3> QED BY <3>2, <2>2, <2>3, <2>4, TailAt
    <2> HIDE DEF p
    <2>6. /\ Good(y) /\ SamePool(x.icm, y.icm)
          /\ \A e \in ConnId: /\ y.conn[e].owner = x.conn[e].owner
                              /\ e # id => y.conn[e].pending = x.conn[e].pending
                              /\ y.alive /\ x.conn[e].sync => y.conn[e].sync
          /\ y.conn[id].pending = Tail(p)
          /\ y.done[c] > x.done[c] /\ \A d \in Client: d # c => y.done[d] = x.done[d]
          /\ y.alive => Proto(y, v, a, r)
      BY <2>1, <2>2, <2>5, QueuedHandled DEF p
    <2>7. SamePool(s.icm, y.icm)
      BY <2>6 DEF SamePool, Unqueued
    <2>8. \A d \in Client: y.done[d] # s.done[d] => y.done[d] > s.done[d]
      <3> SUFFICES ASSUME NEW d \in Client, y.done[d] # s.done[d] PROVE y.done[d] > s.done[d]
        OBVIOUS
      <3>1. x.done[d] \in Nat /\ s.done[d] \in Nat /\ y.done[d] \in Nat
        BY <2>2, <2>6 DEF Good, Srv
      <3>2. x.done[d] # s.done[d] => x.done[d] > s.done[d]
        BY DEF Unqueued
      <3> QED BY <3>1, <3>2, <2>6
    <2>9. \A e \in ConnId: /\ y.conn[e].owner = s.conn[e].owner
                           /\ e # id => y.conn[e].pending = s.conn[e].pending
                           /\ y.alive /\ e # id /\ s.conn[e].sync => y.conn[e].sync
      BY <1>2, <2>6 DEF Unqueued
    <2>10. Len(y.conn[id].pending) = L - k
      BY <2>5, <2>6
    <2> QED BY <2>6, <2>7, <2>8, <2>9, <2>10 DEF Unqueued, L
  <1> QED BY <1>1, <1>2

\* The answer that was owed has come: the client's one connection waits no
\* more.
LEMMA SyncCleared ==
    ASSUME NEW s, NEW u, NEW a, NEW r, NEW c, Ready(s, u, a, r, c),
           NEW id \in ConnId, s.conn[id].owner = c,
           NEW t, t = [s EXCEPT !.conn[id].sync = FALSE]
    PROVE  Unqueued(s, t, Rest(u, c), a, r, id, 0)
  <1> DEFINE v == Rest(u, c)
  <1>1. /\ Good(s) /\ u \in Ups /\ a \in [Client -> App] /\ c \in Client /\ u[c] # <<>>
        /\ Proto(s, u, a, r) /\ s \in Srv
    BY DEF Ready, Good
  <1>2. /\ t \in Srv /\ t.icm = s.icm /\ SameView(s, t)
        /\ t.down = s.down /\ t.done = s.done /\ t.alive = s.alive
    BY <1>1 DEF Srv, Conn, SameView
  <1>3. \A e \in ConnId: /\ t.conn[e].owner = s.conn[e].owner
                         /\ t.conn[e].pending = s.conn[e].pending
                         /\ t.conn[e].sync = (s.conn[e].sync /\ e # id)
    BY <1>1 DEF Srv, Conn
  <1>4. Good(t) /\ SamePool(s.icm, t.icm)
    BY <1>1, <1>2 DEF Good, Visible, SameView, SamePool
  <1>5. ASSUME NEW d \in Client PROVE ClientOK(t, v, a, r, d)
    <2>1. /\ TakesTurns(s, v, a, r, d) /\ Numbered(s, v, a, r, d)
          /\ QueuesNumbered(s, v, a, r, d) /\ MasksTold(s, a, r, d)
          /\ d # c => AnswerOwed(s, v, r, d)
      BY <1>1, RestOK
    <2> HIDE DEF v
    <2>2. TakesTurns(t, v, a, r, d) /\ Numbered(t, v, a, r, d)
      BY <2>1, <1>2, <1>3 DEF TakesTurns, NoToken, NoConn, Numbered
    <2>3. QueuesNumbered(t, v, a, r, d)
      BY <2>1, <1>2, <1>3 DEF QueuesNumbered, QueueNumbered
    <2>4. MasksTold(t, a, r, d)
      BY <2>1, <1>1, <1>2, <1>3 DEF Proto, MappedConn, MasksTold, KnowsOf
    <2>5. AnswerOwed(t, v, r, d)
      <3>1. CASE d # c
        BY <3>1, <2>1, <1>2, <1>3 DEF AnswerOwed
      <3>2. CASE d = c
        <4>1. \A e \in ConnId: s.conn[e].owner = c => e = id
          BY <1>1 DEF Proto, ClientOK, TakesTurns
        <4> QED BY <4>1, <3>2, <1>3 DEF AnswerOwed
      <3> QED BY <3>1, <3>2
    <2> QED BY <2>2, <2>3, <2>4, <2>5 DEF ClientOK
  <1>6. MappedConn(t)
    BY <1>1, <1>2 DEF Proto, MappedConn
  <1>7. Len(t.conn[id].pending) = Len(s.conn[id].pending) - 0
    <2>1. s.conn[id].pending \in Seq(KeyMsg)
      BY <1>1 DEF Srv, Conn
    <2> QED BY <2>1, <1>3
  <1> QED BY <1>2, <1>3, <1>4, <1>5, <1>6, <1>7 DEF Unqueued, Proto

\* The answer to a key sent back starts the queue again.
LEMMA SyncReplied ==
    ASSUME NEW s, NEW u, NEW a, NEW r, NEW c, Ready(s, u, a, r, c),
           NEW id \in ConnId, s.conn[id].owner = c
    PROVE  HandledOK(s, SyncReply(s, id), u, a, r, c)
  <1> DEFINE v == Rest(u, c)
             L == Len(s.conn[id].pending)
             t == SyncReply(s, id)
  <1>1. /\ Good(s) /\ u \in Ups /\ a \in [Client -> App] /\ c \in Client /\ u[c] # <<>>
        /\ Waits(s)
    BY DEF Ready
  <1>2. v \in Ups
    BY <1>1, Taken
  <1>3. s.conn[id].pending \in Seq(KeyMsg)
    BY <1>1 DEF Good, Srv, Conn
  <1>4. L \in Nat
    BY <1>3
  <1>5. PICK f: /\ f[0] = [s EXCEPT !.conn[id].sync = FALSE]
                /\ \A k \in 1 .. L: f[k] = NextQueued(f[k - 1], id)
                /\ t = f[L]
    BY <1>4, QueueCourse
  <1>7. Unqueued(s, f[0], v, a, r, id, 0)
    BY <1>5, SyncCleared
  <1> HIDE DEF v, t
  <1> DEFINE S == {k \in Nat: k <= L => Unqueued(s, f[k], v, a, r, id, k)}
  <1>6. S = Nat
    <2>1. 0 \in S
      BY <1>7
    <2>2. ASSUME NEW k \in S PROVE k + 1 \in S
      <3> SUFFICES ASSUME k + 1 <= L PROVE Unqueued(s, f[k + 1], v, a, r, id, k + 1)
        OBVIOUS
      <3>1. k \in Nat /\ Unqueued(s, f[k], v, a, r, id, k)
        BY <1>4
      <3> HIDE DEF S
      <3> DEFINE n == k + 1
      <3>2. n \in 1 .. L /\ n - 1 = k
        BY <3>1, <1>4
      <3> HIDE DEF n
      <3>3. f[n] = NextQueued(f[n - 1], id) /\ Unqueued(s, f[n - 1], v, a, r, id, n - 1)
        BY <3>1, <3>2, <1>5
      <3>4. Unqueued(s, f[n], v, a, r, id, n)
        BY <3>2, <3>3, <1>1, <1>2, NextUnqueued
      <3> QED BY <3>4 DEF n
    <2> HIDE DEF S
    <2> S \in SUBSET Nat
      BY DEF S
    <2> QED BY <2>1, <2>2, SetInduction
  <1>8. Unqueued(s, t, v, a, r, id, L)
    BY <1>4, <1>5, <1>6
  <1> HIDE DEF L
  <1>9. Good(t) /\ PoolMoves(s.icm, t.icm, r)
    BY <1>8, PoolStays DEF Unqueued, PoolMoves
  <1>10. ASSUME t.alive PROVE Proto(t, v, a, r) /\ Waits(t)
    <2>1. Proto(t, v, a, r)
      BY <1>8, <1>10 DEF Unqueued
    <2>2. t.conn[id].pending # <<>> => t.conn[id].sync
      <3>1. t.conn[id].sync \/ Len(t.conn[id].pending) = L - L
        BY <1>8, <1>10 DEF Unqueued, L
      <3>2. t.conn[id].pending \in Seq(KeyMsg)
        BY <1>9 DEF Good, Srv, Conn
      <3>3. L - L = 0
        BY <1>4
      <3> QED BY <3>1, <3>2, <3>3
    <2>3. Waits(t)
      BY <2>2, <1>1, <1>8, <1>10 DEF Waits, Unqueued
    <2> QED BY <2>1, <2>3
  <1>11. \A d \in Client: t.done[d] # s.done[d] => t.done[d] > s.done[d]
    BY <1>8 DEF Unqueued
  <1> QED BY <1>9, <1>10, <1>11 DEF HandledOK, t, v

---------------------------------------------------------------------------
(* Contexts come and go. *)

\* A context is given back: what is known of the others stays.
LEMMA DestroyHandled ==
    ASSUME NEW s, NEW u, NEW a, NEW r, NEW c, Ready(s, u, a, r, c),
           Head(u[c]).t # "SYNC_REPLY", NEW id, NEW i \in IcId
    PROVE  HandledOK(s, DestroyContext(s, id, i), u, a, r, c)
  <1> DEFINE v == Rest(u, c)
             m == DestroyIc(s.icm, i)
             x == [s EXCEPT !.icm = m]
             y == Refresh(x)
             msg == Reply("DESTROYED", i)
             t == Send(y, id, msg)
  <1>1. /\ Good(s) /\ u \in Ups /\ a \in [Client -> App] /\ c \in Client /\ u[c] # <<>>
        /\ Proto(s, u, a, r) /\ Waits(s) /\ s \in Srv /\ PoolOK(s.icm)
    BY DEF Ready, Good
  <1>2. Proto(s, v, a, r)
    BY <1>1, PlainRest
  <1>3. /\ PoolOK(m)
        /\ m.map = [s.icm.map EXCEPT ![i] = FALSE]
        /\ m.ic = IF s.icm.map[i] THEN [s.icm.ic EXCEPT ![i] = ResetIc] ELSE s.icm.ic
        /\ m.cur = IF s.icm.map[i] THEN NoIc ELSE s.icm.cur
    BY <1>1, DestroyedIc
  <1>4. DestroyContext(s, id, i) = t
    BY DEF DestroyContext
  <1>5. msg \in DownMsg /\ msg.t \notin DownToken \cup Mark
    BY DEF Reply, DownMsg, DownKind, DownToken, Mark
  <1> HIDE DEF v, m, msg
  <1>6. /\ x \in Srv /\ x.icm = m /\ SameView(s, x)
        /\ x.conn = s.conn /\ x.down = s.down /\ x.done = s.done /\ x.alive = s.alive
    BY <1>1, <1>3 DEF Srv, SameView, PoolOK
  <1> HIDE DEF x
  <1>7. Good(x) /\ Waits(x)
    BY <1>1, <1>3, <1>6 DEF Good, Visible, SameView, Waits
  <1>8. Follows(x, t) /\ t.icm = x.icm
    <2>1. Follows(x, y) /\ y.icm = x.icm
      BY <1>7, Refreshed
    <2> HIDE DEF y
    <2>2. Good(y) /\ y \in Srv
      BY <2>1 DEF Follows, FollowsIn, Good
    <2>3. Follows(y, t) /\ t.icm = y.icm
      BY <2>2, <1>5, SentPlain, Sent
    <2> QED BY <2>1, <2>3, <1>7, FollowsOn
  <1> HIDE DEF t, y
  <1>9. /\ m.map \in [IcId -> BOOLEAN] /\ m.ic \in [IcId -> Ic]
        /\ s.icm.map \in [IcId -> BOOLEAN] /\ s.icm.ic \in [IcId -> Ic]
    BY <1>1, <1>3 DEF PoolOK, Icm
  <1>10. \A j \in IcId: m.map[j] => s.icm.map[j] /\ m.ic[j] = s.icm.ic[j]
    BY <1>3, <1>9
  <1>11. Proto(x, v, a, r)
    <2>1. MappedConn(x)
      BY <1>2, <1>6, <1>10 DEF Proto, MappedConn
    <2>2. ASSUME NEW d \in Client PROVE ClientOK(x, v, a, r, d)
      <3>1. /\ TakesTurns(x, v, a, r, d) /\ Numbered(x, v, a, r, d)
            /\ QueuesNumbered(x, v, a, r, d) /\ AnswerOwed(x, v, r, d)
        BY <1>2, <1>6 DEF Proto, ClientOK, TakesTurns, NoToken, NoConn, Numbered,
                          QueuesNumbered, QueueNumbered, AnswerOwed
      <3>2. MasksTold(x, a, r, d)
        BY <1>2, <1>6, <1>10 DEF Proto, ClientOK, MasksTold, KnowsOf
      <3> QED BY <3>1, <3>2 DEF ClientOK
    <2> QED BY <2>1, <2>2 DEF Proto
  <1>12. t.alive => Proto(t, v, a, r) /\ Waits(t)
    BY <1>1, <1>7, <1>8, <1>11, Followed, WaitsFollowed
  <1>13. Good(t) /\ t.done = s.done
    BY <1>6, <1>8 DEF Follows, FollowsIn
  <1>14. PoolMoves(s.icm, m, r)
    <2>1. CASE ~s.icm.map[i]
      <3>1. m.ic = s.icm.ic /\ \A j \in IcId: m.map[j] = s.icm.map[j]
        BY <2>1, <1>3, <1>9
      <3> QED BY <3>1 DEF PoolMoves, Stays, InUse, Windows
    <2>2. CASE s.icm.map[i]
      <3>1. i \in InUse(s.icm) /\ InUse(m) = InUse(s.icm) \ {i}
        BY <2>2, <1>3, <1>9 DEF InUse
      <3>2. Windows(m) = [Windows(s.icm) EXCEPT ![i] = NoClient]
        <4>1. m.ic = [s.icm.ic EXCEPT ![i] = ResetIc] /\ ResetIc.win = NoClient
          BY <2>2, <1>3 DEF ResetIc
        <4>2. \A j \in IcId: m.ic[j].win = IF j = i THEN NoClient ELSE s.icm.ic[j].win
          BY <4>1, <1>9
        <4> QED BY <4>2 DEF Windows
      <3>3. m.cur = NoIc
        BY <2>2, <1>3
      <3> QED BY <3>1, <3>2, <3>3 DEF PoolMoves, Destroys
    <2> QED BY <2>1, <2>2
  <1>15. t.icm = m
    BY <1>6, <1>8
  <1> QED BY <1>4, <1>12, <1>13, <1>14, <1>15 DEF HandledOK, v

\* Without a free context the request is the server's end.
LEMMA NoneToGive ==
    ASSUME NEW s, NEW u, NEW a, NEW r, NEW c, Ready(s, u, a, r, c), NEW id, NEW msg,
           NEW t, t = Send([s EXCEPT !.alive = FALSE], id, msg)
    PROVE  HandledOK(s, t, u, a, r, c)
  <1> DEFINE x == [s EXCEPT !.alive = FALSE]
  <1>1. Good(s)
    BY DEF Ready
  <1>2. /\ x \in Srv /\ x.icm = s.icm /\ SameView(s, x) /\ x.done = s.done /\ ~x.alive
    BY <1>1 DEF Good, Srv, SameView
  <1>3. t = x
    BY <1>2 DEF Send
  <1> HIDE DEF x
  <1>4. Good(x) /\ PoolMoves(s.icm, x.icm, r)
    BY <1>1, <1>2 DEF Good, Visible, SameView, PoolMoves, Stays
  <1> QED BY <1>2, <1>3, <1>4 DEF HandledOK

\* What the pool makes of a request for a context while it has one free.
LEMMA ContextTaken ==
    ASSUME NEW m, PoolOK(m), NEW found \in Lookups(running),
           NEW due, due = CollectIfDue(m, found), due.free # <<>>,
           NEW id \in Nat, NEW w \in Client \cup {NoClient},
           NEW i, i = Last(due.free), NEW n, n = TakeFree(due, id, w)
    PROVE  /\ i \in IcId /\ PoolOK(n) /\ Creates(m, n, running)
           /\ n.map[i] /\ n.ic[i].conn = id /\ ~n.ic[i].enabled
           /\ \A j \in IcId: j # i /\ n.map[j] => m.map[j] /\ n.ic[j] = m.ic[j]
  <1>1. PoolOK(due) /\ \E R \in {{}, Gone(m, found)}: Reclaimed(m, R, due)
    BY Collected
  <1>2. PICK R \in {{}, Gone(m, found)}: Reclaimed(m, R, due)
    BY <1>1
  <1> DEFINE new == [conn |-> id, win |-> w, enabled |-> FALSE, english |-> FALSE]
  <1>3. /\ PoolOK(n) /\ i \in IcId /\ ~due.map[i]
        /\ n.map = [due.map EXCEPT ![i] = TRUE]
        /\ n.ic = [due.ic EXCEPT ![i] = new]
        /\ n.cur = due.cur
    BY <1>1, TakenFree
  <1>4. /\ due.map \in [IcId -> BOOLEAN] /\ due.ic \in [IcId -> Ic]
        /\ m.map \in [IcId -> BOOLEAN] /\ m.ic \in [IcId -> Ic]
    BY <1>1 DEF PoolOK, Icm
  <1>5. /\ \A j \in IcId: due.map[j] = (m.map[j] /\ j \notin R)
        /\ \A j \in IcId: due.ic[j] = IF j \in R THEN ResetIc ELSE m.ic[j]
        /\ due.cur = IF R = {} THEN m.cur ELSE NoIc
    BY <1>2 DEF Reclaimed
  <1>6. /\ new.conn = id /\ new.win = w /\ ~new.enabled
    OBVIOUS
  <1> HIDE DEF new
  <1>7. n.map[i] /\ n.ic[i] = new
    BY <1>3, <1>4
  <1>8. \A j \in IcId: j # i => n.map[j] = due.map[j] /\ n.ic[j] = due.ic[j]
    BY <1>3, <1>4
  <1>9. \A j \in IcId: j # i /\ n.map[j] => m.map[j] /\ n.ic[j] = m.ic[j]
    BY <1>5, <1>8
  <1>10. R \in SUBSET Unsure(m, running)
    <2>1. running \ Wide \subseteq found
      BY DEF Lookups
    <2> QED BY <1>2, <2>1 DEF Gone, Unsure, InUse, Windows
  <1>11. i \notin InUse(m) \ R /\ InUse(n) = (InUse(m) \ R) \cup {i}
    <2>1. InUse(n) = InUse(due) \cup {i}
      BY <1>3, <1>4 DEF InUse
    <2>2. InUse(due) = InUse(m) \ R
      BY <1>5 DEF InUse
    <2>3. i \notin InUse(due)
      BY <1>3 DEF InUse
    <2> QED BY <2>1, <2>2, <2>3
  <1>12. Windows(n) = [j \in IcId |-> IF j = i THEN w
                                      ELSE IF j \in R THEN NoClient ELSE Windows(m)[j]]
    <2>1. \A j \in IcId: n.ic[j].win = IF j = i THEN w ELSE IF j \in R THEN NoClient ELSE m.ic[j].win
      BY <1>5, <1>6, <1>7, <1>8 DEF ResetIc
    <2> QED BY <2>1 DEF Windows
  <1>13. n.cur = IF R = {} THEN m.cur ELSE NoIc
    BY <1>3, <1>5
  <1>14. Creates(m, n, running)
    BY <1>3, <1>10, <1>11, <1>12, <1>13 DEF Creates
  <1> QED BY <1>3, <1>6, <1>7, <1>9, <1>14

\* A context is handed out: its client is told, and has no keys of it yet.
LEMMA CreateHandled ==
    ASSUME NEW s, NEW u, NEW a, NEW c, Ready(s, u, a, running, c),
           NEW id \in ConnId, s.conn[id].owner = c,
           Head(u[c]).t = "CREATE", NEW w \in Client \cup {NoClient},
           NEW found \in Lookups(running)
    PROVE  HandledOK(s, CreateIc(s, id, w, found), u, a, running, c)
  <1> DEFINE v == Rest(u, c)
             due == CollectIfDue(s.icm, found)
             i == Last(due.free)
             e == IcEvents(s, w)
             n == TakeFree(due, id, e.win)
             x == [e EXCEPT !.icm = n]
             msg == Reply("CREATED", i)
             t == Send(x, id, msg)
  <1>1. /\ Good(s) /\ u \in Ups /\ a \in [Client -> App] /\ c \in Client /\ u[c] # <<>>
        /\ Proto(s, u, a, running) /\ Waits(s) /\ s \in Srv /\ PoolOK(s.icm)
    BY DEF Ready, Good
  <1>2. CreateIc(s, id, w, found) = IF due.free = <<>> THEN Send([s EXCEPT !.alive = FALSE], id, msg) ELSE t
    BY DEF CreateIc, NewContext
  <1>3. CASE due.free = <<>>
    <2> HIDE DEF msg, t, due
    <2>1. CreateIc(s, id, w, found) = Send([s EXCEPT !.alive = FALSE], id, msg)
      BY <1>2, <1>3
    <2> QED BY <2>1, NoneToGive
  <1>4. CASE due.free # <<>>
    <2>1. /\ e \in Srv /\ e.icm = s.icm /\ SameView(s, e)
          /\ e.conn = s.conn /\ e.down = s.down /\ e.done = s.done /\ e.alive = s.alive
          /\ e.win \in Client \cup {NoClient}
      BY <1>1 DEF IcEvents, Srv, SameView
    <2>2. id \in Nat
      BY DEF ConnId
    <2> HIDE DEF e
    <2>3. /\ i \in IcId /\ PoolOK(n) /\ Creates(s.icm, n, running)
          /\ n.map[i] /\ n.ic[i].conn = id /\ ~n.ic[i].enabled
          /\ \A j \in IcId: j # i /\ n.map[j] => s.icm.map[j] /\ n.ic[j] = s.icm.ic[j]
      BY <1>1, <1>4, <2>1, <2>2, ContextTaken
    <2>4. msg \in DownMsg /\ msg.t \in DownToken \cap Mark /\ msg.t # "GOODBYE" /\ msg.t # "MASK_ON"
      BY <2>3 DEF Reply, DownMsg, DownKind, DownToken, Mark
    <2>5. msg.ic = i /\ \A j \in IcId: j # i => msg # Reply("CREATED", j)
      BY DEF Reply
    <2>6. t = Send(x, id, msg) /\ CreateIc(s, id, w, found) = t
      BY <1>2, <1>4
    <2> HIDE DEF msg, n, i, due
    <2>7. /\ x \in Srv /\ x.icm = n /\ SameView(s, x)
          /\ x.conn = s.conn /\ x.down = s.down /\ x.done = s.done /\ x.alive = s.alive
      BY <2>1, <2>3 DEF Srv, SameView, PoolOK
    <2> HIDE DEF x
    <2>8. /\ t \in Srv /\ t.icm = n /\ t.conn = s.conn /\ t.done = s.done
          /\ SameView(x, t)
          /\ t.alive => s.alive /\ Added(s.down, c, msg, t.down)
      BY <2>4, <2>6, <2>7, Sent
    <2> HIDE DEF t
    <2>9. Good(t) /\ PoolMoves(s.icm, t.icm, running)
      BY <1>1, <2>3, <2>7, <2>8 DEF Good, Visible, SameView, PoolMoves
    <2>10. v \in Ups /\ Proto(s, v, a, running) /\ NoToken(s, v, c) /\ (c \in running => a[c].st = "waiting")
      BY <1>1, PlainRest, Taken DEF UpToken
    <2> HIDE DEF v
    <2>11. MappedConn(t)
      BY <2>3, <2>8, <2>10 DEF Proto, MappedConn
    <2>12. ASSUME t.alive, NEW d \in Client PROVE MasksTold(t, a, running, d)
      <3> SUFFICES ASSUME NEW j \in IcId, d \in running, KnowsOf(t, a, d, j), t.icm.map[j],
                          t.conn[t.icm.ic[j].conn].owner = d
                   PROVE  t.icm.ic[j].enabled = Masked(t.down[d], j, j \in a[d].mask)
        BY DEF MasksTold
      <3> DEFINE q == s.down[d]
                 b == j \in a[d].mask
      <3>1. q \in Seq(DownMsg) /\ t.down[d] = IF d = c THEN Append(q, msg) ELSE q
        BY <1>1, <2>8, <2>12 DEF Srv, Added
      <3>2. b \in BOOLEAN
        OBVIOUS
      <3> HIDE DEF q, b
      <3>3. Masked(Append(q, msg), j, b) = IF j = i THEN FALSE ELSE Masked(q, j, b)
        <4>1. Masked(Append(q, msg), j, b)
                = IF msg.ic = j /\ msg.t \in Mark THEN msg.t = "MASK_ON" ELSE Masked(q, j, b)
          BY <2>4, <3>1, <3>2, MaskedAppend
        <4>2. msg.ic = j /\ msg.t \in Mark <=> j = i
          BY <2>4, <2>5
        <4>3. (msg.t = "MASK_ON") = FALSE
          BY <2>4
        <4> QED BY <4>1, <4>2, <4>3
      <3>4. CASE j = i
        <4>1. d = c /\ ~t.icm.ic[j].enabled
          BY <3>4, <2>3, <2>8
        <4>2. t.icm.ic[j].enabled \in BOOLEAN
          BY <2>8 DEF Srv, Icm, Ic
        <4> QED BY <4>1, <4>2, <3>1, <3>3, <3>4 DEF b
      <3>5. CASE j # i
        <4>1. s.icm.map[j] /\ t.icm.ic[j] = s.icm.ic[j]
          BY <3>5, <2>3, <2>8
        <4>2. KnowsOf(s, a, d, j)
          <5> SUFFICES ASSUME NEW k \in DOMAIN t.down[d], t.down[d][k] = Reply("CREATED", j), d = c
                       PROVE  \E l \in DOMAIN q: q[l] = Reply("CREATED", j)
            BY <3>1 DEF KnowsOf, q
          <5>1. msg # Reply("CREATED", j)
            BY <3>5, <2>5
          <5>2. /\ DOMAIN q = 1 .. Len(q) /\ DOMAIN Append(q, msg) = 1 .. Len(q) + 1 /\ Len(q) \in Nat
                /\ \A l \in 1 .. Len(q): Append(q, msg)[l] = q[l]
                /\ Append(q, msg)[Len(q) + 1] = msg
            BY <2>4, <3>1, AppendedAt
          <5>3. t.down[d] = Append(q, msg)
            BY <3>1
          <5> QED BY <5>1, <5>2, <5>3
        <4>3. s.icm.ic[j].enabled = Masked(q, j, b)
          BY <4>1, <4>2, <2>8, <2>10 DEF Proto, ClientOK, MasksTold, q, b
        <4> QED BY <4>1, <4>3, <3>1, <3>3, <3>5 DEF b
      <3> QED BY <3>4, <3>5
    <2>13. ASSUME t.alive PROVE Proto(t, v, a, running) /\ Waits(t)
      <3>1. \A k, l \in ConnId: t.conn[k].owner = c /\ t.conn[l].owner = c => k = l
        BY <1>1, <2>8 DEF Proto, ClientOK, TakesTurns
      <3>2. Added(s.down, c, msg, t.down) /\ msg.t \in DownToken
        BY <2>4, <2>8, <2>13
      <3>3. \A d \in Client: MasksTold(t, a, running, d)
        BY <2>12, <2>13
      <3>4. Proto(t, v, a, running)
        BY <1>1, <2>4, <2>8, <2>10, <2>11, <3>1, <3>2, <3>3, Answered
      <3> QED BY <3>4, <1>1, <2>8 DEF Waits
    <2> QED BY <2>6, <2>8, <2>9, <2>13 DEF HandledOK, v
  <1> QED BY <1>3, <1>4

---------------------------------------------------------------------------
(* Connections come and go. *)

\* A connection is opened: the others stay.
LEMMA Connected ==
    ASSUME NEW s \in Srv, NEW c \in Client, NEW t, t = NewClient(s, c)
    PROVE  /\ t \in Srv /\ t.icm = s.icm /\ SameView(s, t)
           /\ t.down = s.down /\ t.done = s.done /\ t.alive = s.alive
           /\ \E id: /\ \A e \in ConnId: e # id => t.conn[e] = s.conn[e]
                     /\ id \in ConnId => t.conn[id] = [FreeConn EXCEPT !.owner = c]
  <1> DEFINE id == IF s.freeConn = <<>> THEN s.lastConn + 1 ELSE Head(s.freeConn)
             k == [s.conn EXCEPT ![id] = [FreeConn EXCEPT !.owner = c]]
             free == IF s.freeConn = <<>> THEN s.freeConn ELSE Tail(s.freeConn)
             last == IF s.freeConn = <<>> THEN id ELSE s.lastConn
  <1>1. s.conn \in [ConnId -> Conn] /\ s.freeConn \in Seq(Nat) /\ s.lastConn \in Nat
    BY DEF Srv
  <1>2. [FreeConn EXCEPT !.owner = c] \in Conn
    <2>1. FreeConn \in Conn
      BY DEF FreeConn, Conn
    <2> QED BY <2>1 DEF Conn
  <1>3. k \in [ConnId -> Conn]
    BY <1>1, <1>2
  <1>4. free \in Seq(Nat) /\ last \in Nat
    <2> HIDE DEF k
    <2>1. CASE s.freeConn = <<>>
      BY <2>1, <1>1
    <2>2. CASE s.freeConn # <<>>
      BY <2>2, <1>1, TailAt
    <2> QED BY <2>1, <2>2
  <1>5. t = [s EXCEPT !.conn = k, !.freeConn = free, !.lastConn = last]
    BY DEF NewClient, Srv
  <1>6. /\ \A e \in ConnId: e # id => k[e] = s.conn[e]
        /\ id \in ConnId => k[id] = [FreeConn EXCEPT !.owner = c]
    BY <1>1
  <1> HIDE DEF k, free, last, id
  <1>7. /\ t \in Srv /\ t.conn = k /\ t.icm = s.icm /\ SameView(s, t)
        /\ t.down = s.down /\ t.done = s.done /\ t.alive = s.alive
    BY <1>3, <1>4, <1>5 DEF Srv, SameView
  <1> QED BY <1>6, <1>7

\* A client that dials has no connection and no contexts: it is given one.
LEMMA DialHandled ==
    ASSUME NEW s, NEW u, NEW a, NEW r, NEW c, Ready(s, u, a, r, c), Head(u[c]).t = "DIAL"
    PROVE  HandledOK(s, Dialled(s, c), u, a, r, c)
  <1> DEFINE v == Rest(u, c)
             x == NewClient(s, c)
             msg == Reply("ACCEPT", NoIc)
             t == Dialled(s, c)
  <1>1. /\ Good(s) /\ u \in Ups /\ a \in [Client -> App] /\ c \in Client /\ u[c] # <<>>
        /\ Proto(s, u, a, r) /\ Waits(s) /\ s \in Srv
    BY DEF Ready, Good
  <1>2. /\ x \in Srv /\ x.icm = s.icm /\ SameView(s, x)
        /\ x.down = s.down /\ x.done = s.done /\ x.alive = s.alive
        /\ \E id: /\ \A e \in ConnId: e # id => x.conn[e] = s.conn[e]
                  /\ id \in ConnId => x.conn[id] = [FreeConn EXCEPT !.owner = c]
    BY <1>1, Connected
  <1>3. PICK id: /\ \A e \in ConnId: e # id => x.conn[e] = s.conn[e]
                 /\ id \in ConnId => x.conn[id] = [FreeConn EXCEPT !.owner = c]
    BY <1>2
  <1>4. t = [x EXCEPT !.down[c] = Append(@, msg)]
    BY DEF Dialled
  <1>5. msg \in DownMsg /\ msg.t \in DownToken /\ msg.t \notin Mark /\ msg.t # "GOODBYE"
    BY DEF Reply, DownMsg, DownKind, DownToken, Mark
  <1> HIDE DEF x, msg, t
  <1>6. /\ t \in Srv /\ t.icm = s.icm /\ SameView(x, t) /\ t.conn = x.conn
        /\ t.done = s.done /\ Added(s.down, c, msg, t.down) /\ t.alive = s.alive
    <2> DEFINE q == Append(s.down[c], msg)
    <2>1. q \in Seq(DownMsg)
      BY <1>1, <1>5 DEF Srv
    <2>2. t = [x EXCEPT !.down[c] = q]
      BY <1>2, <1>4
    <2> HIDE DEF q
    <2>3. /\ t \in Srv /\ t.icm = s.icm /\ SameView(x, t) /\ t.conn = x.conn
          /\ t.done = s.done /\ t.down = [s.down EXCEPT ![c] = q] /\ t.alive = s.alive
      BY <1>2, <2>1, <2>2 DEF Srv, SameView
    <2>4. Added(s.down, c, msg, t.down)
      BY <2>3, <1>1 DEF Added, Srv, q
    <2> QED BY <2>3, <2>4
  <1>7. Good(t) /\ PoolMoves(s.icm, t.icm, r)
    BY <1>1, <1>2, <1>6 DEF Good, Visible, SameView, PoolMoves, Stays
  <1>8. v \in Ups /\ Proto(s, v, a, r) /\ NoToken(s, v, c) /\ (c \in r => a[c].st = "waiting")
    BY <1>1, PlainRest, Taken DEF UpToken
  <1>9. NoConn(s, c) /\ (c \in r => a[c].has = {})
    <2>1. HasKind(u[c], {"DIAL"})
      BY <1>1, TakenKinds
    <2> QED BY <2>1, <1>1 DEF Proto, ClientOK, TakesTurns
  <1> HIDE DEF v
  <1>10. \A e \in ConnId: \/ t.conn[e] = s.conn[e]
                          \/ t.conn[e].owner = c /\ t.conn[e].pending = <<>> /\ ~t.conn[e].sync
    BY <1>3, <1>6 DEF FreeConn
  <1>11. \A k, e \in ConnId: t.conn[k].owner = c /\ t.conn[e].owner = c => k = e
    <2>1. \A e \in ConnId: t.conn[e].owner = c => e = id
      BY <1>3, <1>6, <1>9 DEF NoConn
    <2> QED BY <2>1
  <1>12. ASSUME t.alive PROVE Proto(t, v, a, r) /\ Waits(t)
    <2>1. MappedConn(t) /\ \A d \in Client: MasksTold(t, a, r, d)
      BY <1>1, <1>5, <1>6, <1>8, <1>9, <1>10, MasksStill
    <2>2. Proto(t, v, a, r)
      BY <1>1, <1>5, <1>6, <1>8, <1>10, <1>11, <2>1, Answered
    <2>3. Waits(t)
      BY <1>1, <1>10 DEF Waits
    <2> QED BY <2>2, <2>3
  <1> QED BY <1>6, <1>7, <1>12 DEF HandledOK, v, t

\* A connection is closed: the others stay.
LEMMA Freed ==
    ASSUME NEW s \in Srv, NEW id \in ConnId, NEW t, t = DeleteClient(s, id)
    PROVE  /\ t \in Srv /\ t.icm = s.icm /\ SameView(s, t)
           /\ t.down = s.down /\ t.done = s.done /\ t.alive = s.alive
           /\ t.conn[id] = FreeConn /\ \A e \in ConnId: e # id => t.conn[e] = s.conn[e]
  <1> DEFINE k == [s.conn EXCEPT ![id] = FreeConn]
             free == <<id>> \o s.freeConn
  <1>1. s.conn \in [ConnId -> Conn] /\ s.freeConn \in Seq(Nat) /\ id \in Nat
    BY DEF Srv, ConnId
  <1>2. FreeConn \in Conn
    BY DEF FreeConn, Conn
  <1>3. k \in [ConnId -> Conn]
    BY <1>1, <1>2
  <1>4. free \in Seq(Nat)
    BY <1>1
  <1>5. t = [s EXCEPT !.conn = k, !.freeConn = free]
    BY DEF DeleteClient, Srv
  <1>6. k[id] = FreeConn /\ \A e \in ConnId: e # id => k[e] = s.conn[e]
    BY <1>1
  <1> HIDE DEF k, free
  <1>7. /\ t \in Srv /\ t.conn = k /\ t.icm = s.icm /\ SameView(s, t)
        /\ t.down = s.down /\ t.done = s.done /\ t.alive = s.alive
    BY <1>3, <1>4, <1>5 DEF Srv, SameView
  <1> QED BY <1>6, <1>7

\* The connection of a client that takes its leave is free again.
LEMMA LeaveHandled ==
    ASSUME NEW s, NEW u, NEW a, NEW r, NEW c, Ready(s, u, a, r, c),
           NEW id \in ConnId, s.conn[id].owner = c, Head(u[c]).t = "DISCONNECT"
    PROVE  HandledOK(s, Disconnect(s, id), u, a, r, c)
  <1> DEFINE v == Rest(u, c)
             msg == Reply("GOODBYE", NoIc)
             x == Send(s, id, msg)
             t == DeleteClient(x, id)
  <1>1. /\ Good(s) /\ u \in Ups /\ a \in [Client -> App] /\ c \in Client /\ u[c] # <<>>
        /\ Proto(s, u, a, r) /\ Waits(s) /\ s \in Srv
    BY DEF Ready, Good
  <1>2. Disconnect(s, id) = t
    BY DEF Disconnect
  <1>3. msg \in DownMsg /\ msg.t \in DownToken /\ msg.t \notin Mark
    BY DEF Reply, DownMsg, DownKind, DownToken, Mark
  <1> HIDE DEF msg
  <1>4. /\ x \in Srv /\ x.icm = s.icm /\ x.conn = s.conn /\ x.done = s.done /\ SameView(s, x)
        /\ x.alive => Added(s.down, c, msg, x.down)
    BY <1>1, <1>3, Sent
  <1> HIDE DEF x
  <1>5. /\ t \in Srv /\ t.icm = x.icm /\ SameView(x, t)
        /\ t.down = x.down /\ t.done = x.done /\ t.alive = x.alive
        /\ t.conn[id] = FreeConn /\ \A e \in ConnId: e # id => t.conn[e] = x.conn[e]
    BY <1>4, Freed
  <1> HIDE DEF t
  <1>6. Good(t) /\ PoolMoves(s.icm, t.icm, r)
    BY <1>1, <1>4, <1>5 DEF Good, Visible, SameView, PoolMoves, Stays
  <1>7. v \in Ups /\ Proto(s, v, a, r) /\ NoToken(s, v, c) /\ (c \in r => a[c].st = "waiting")
    BY <1>1, PlainRest, Taken DEF UpToken
  <1> HIDE DEF v
  <1>8. NoConn(t, c)
    <2>1. \A e \in ConnId: s.conn[e].owner = c => e = id
      BY <1>1 DEF Proto, ClientOK, TakesTurns
    <2>2. FreeConn.owner # c
      BY <1>1, IcAssumption DEF FreeConn
    <2> QED BY <2>1, <2>2, <1>4, <1>5 DEF NoConn
  <1>9. \A e \in ConnId: \/ t.conn[e] = s.conn[e]
                         \/ t.conn[e].owner = NoClient /\ t.conn[e].pending = <<>>
    BY <1>4, <1>5 DEF FreeConn
  <1>10. ASSUME t.alive PROVE Proto(t, v, a, r) /\ Waits(t)
    <2>0. Added(s.down, c, msg, t.down) /\ t.icm = s.icm /\ t.done = s.done
      BY <1>4, <1>5, <1>10
    <2>1. MappedConn(t) /\ \A d \in Client: MasksTold(t, a, r, d)
      BY <1>1, <1>3, <1>5, <1>7, <1>9, <2>0, MasksStill
    <2>2. \A k, e \in ConnId: t.conn[k].owner = c /\ t.conn[e].owner = c => k = e
      BY <1>8 DEF NoConn
    <2>3. Proto(t, v, a, r)
      BY <1>1, <1>3, <1>5, <1>7, <1>8, <1>9, <2>0, <2>1, <2>2, Answered
    <2>4. Waits(t)
      BY <1>1, <1>9 DEF Waits
    <2> QED BY <2>3, <2>4
  <1> QED BY <1>2, <1>4, <1>5, <1>6, <1>10 DEF HandledOK, v

---------------------------------------------------------------------------
(* The steps. *)

\* The connection the server finds for a client is one of that client.
LEMMA ConnOfClient ==
    ASSUME NEW c
    PROVE  /\ ConnOf(c) = 0 => NoConn(srv, c)
           /\ ConnOf(c) # 0 => ConnOf(c) \in ConnId /\ srv.conn[ConnOf(c)].owner = c
  <1> DEFINE ids == {id \in ConnId: srv.conn[id].owner = c}
  <1>1. CASE ids = {}
    BY <1>1 DEF ConnOf, NoConn
  <1>2. CASE ids # {}
    <2>1. ConnOf(c) \in ids
      BY <1>2 DEF ConnOf
    <2>2. \A id \in ConnId: id # 0
      BY DEF ConnId
    <2> QED BY <2>1, <2>2
  <1> QED BY <1>1, <1>2

\* Whatever request is served, the invariant is kept.
LEMMA Handles ==
    ASSUME NEW c, Ready(srv, up, app, running, c), NEW found \in Lookups(running)
    PROVE  HandledOK(srv, Handled(srv, c, ConnOf(c), Head(up[c]), found), up, app, running, c)
  <1> DEFINE m == Head(up[c])
             id == ConnOf(c)
             t == Handled(srv, c, id, m, found)
             OK(y) == HandledOK(srv, y, up, app, running, c)
  <1>1. Good(srv) /\ up \in Ups /\ c \in Client /\ up[c] # <<>>
    BY DEF Ready
  <1>2. m \in ClientMsg /\ m \in UpMsg
    BY <1>1, Taken
  <1>3. /\ m.t \in UpKind /\ m.win \in Client \cup {NoClient}
        /\ m.t \in AboutIc => m.ic \in IcId
    BY <1>2 DEF ClientMsg, UpMsg
  <1>4. /\ id = 0 => NoConn(srv, c)
        /\ id # 0 => id \in ConnId /\ srv.conn[id].owner = c
    BY ConnOfClient
  <1> HIDE DEF id, m
  <1>5. CASE m.t = "DIAL"
    <2>1. t = Dialled(srv, c)
      BY <1>5 DEF Handled
    <2> HIDE DEF t
    <2>2. OK(t)
      BY <1>5, <2>1, DialHandled DEF m
    <2> QED BY <2>2 DEF t, id, m
  <1>6. CASE m.t # "DIAL" /\ id = 0
    <2>1. t = srv
      BY <1>6 DEF Handled
    <2> HIDE DEF t
    <2>2. OK(t)
      BY <1>4, <1>6, <2>1, NotConnected
    <2> QED BY <2>2 DEF t, id, m
  <1>7. CASE m.t # "DIAL" /\ id # 0
    <2>0. id \in ConnId /\ srv.conn[id].owner = c
      BY <1>4, <1>7
    <2> DEFINE Plain(k) == Reply(k, NoIc)
    <2>1. ASSUME NEW k \in {"CONNECTED", "OPENED", "CLOSED"}, m.t \in {"CONNECT", "OPEN", "CLOSE"}
          PROVE  OK(Send(srv, id, Reply(k, NoIc)))
      <3>1. Reply(k, NoIc) \in DownMsg /\ Reply(k, NoIc).t \in {"CONNECTED", "OPENED", "CLOSED"}
        BY DEF Reply, DownMsg, DownKind, DownToken
      <3>2. m.t \in UpToken /\ m.t # "SYNC_REPLY"
        BY <2>1 DEF UpToken
      <3> QED BY <2>0, <3>1, <3>2, TokenHandled DEF m
    <2>2. ASSUME m.t = "CONNECT" PROVE OK(t)
      <3>1. t = Send(srv, id, Reply("CONNECTED", NoIc))
        BY <1>7, <2>2 DEF Handled, Connect
      <3> HIDE DEF t
      <3> QED BY <2>1, <2>2, <3>1
    <2>3. ASSUME m.t = "OPEN" PROVE OK(t)
      <3>1. t = Send(srv, id, Reply("OPENED", NoIc))
        BY <1>7, <2>3 DEF Handled, OpenIm
      <3> HIDE DEF t
      <3> QED BY <2>1, <2>3, <3>1
    <2>4. ASSUME m.t = "CLOSE" PROVE OK(t)
      <3>1. t = Send(srv, id, Reply("CLOSED", NoIc))
        BY <1>7, <2>4 DEF Handled, CloseIm
      <3> HIDE DEF t
      <3> QED BY <2>1, <2>4, <3>1
    <2>5. ASSUME m.t = "CREATE" PROVE OK(t)
      <3>1. t = CreateIc(srv, id, m.win, found)
        BY <1>7, <2>5 DEF Handled
      <3> HIDE DEF t
      <3> QED BY <1>3, <2>0, <2>5, <3>1, CreateHandled DEF m
    <2>6. ASSUME m.t = "VALUES" PROVE OK(t)
      <3>1. t = SetIcValues(srv, id, m.win)
        BY <1>7, <2>6 DEF Handled
      <3> HIDE DEF t
      <3>2. Follows(srv, t)
        BY <1>1, <1>3, <3>1, ValuesSet
      <3> QED BY <2>6, <3>2, PlainHandled DEF m
    <2>7. ASSUME m.t = "DESTROY" PROVE OK(t)
      <3>1. t = DestroyContext(srv, id, m.ic) /\ m.ic \in IcId
        BY <1>3, <1>7, <2>7 DEF Handled, AboutIc
      <3> HIDE DEF t
      <3> QED BY <2>7, <3>1, DestroyHandled DEF m
    <2>8. ASSUME m.t \in {"FOCUS", "UNFOCUS", "TRIGGER"} PROVE OK(t)
      <3>1. /\ m.ic \in IcId
            /\ t \in {SetIcFocus(srv, m.ic), UnsetIcFocus(srv, m.ic), TriggerNotify(srv, id, m.ic)}
        BY <1>3, <1>7, <2>8 DEF Handled, AboutIc
      <3> HIDE DEF t
      <3>2. Follows(srv, t)
        BY <1>1, <3>1, FocusFollows, TriggerFollows
      <3> QED BY <2>8, <3>2, PlainHandled DEF m
    <2>9. ASSUME m.t = "KEY" PROVE OK(t)
      <3>1. t = KeyArrives(srv, id, m)
        BY <1>7, <2>9 DEF Handled
      <3> HIDE DEF t
      <3>2. CASE srv.conn[id].sync
        <4>1. t = [srv EXCEPT !.conn[id].pending = Append(@, m)]
          BY <3>1, <3>2 DEF KeyArrives
        <4> QED BY <2>0, <2>9, <3>2, <4>1, KeyQueued DEF m
      <3>3. CASE ~srv.conn[id].sync
        <4>1. t = ForwardEvent(srv, id, m)
          BY <3>1, <3>3 DEF KeyArrives
        <4> QED BY <2>0, <2>9, <3>3, <4>1, KeyHandled DEF m
      <3> QED BY <3>2, <3>3
    <2>10. ASSUME m.t = "SYNC_REPLY" PROVE OK(t)
      <3>1. t = SyncReply(srv, id)
        BY <1>7, <2>10 DEF Handled
      <3> HIDE DEF t
      <3> QED BY <2>0, <3>1, SyncReplied
    <2>11. ASSUME m.t = "DISCONNECT" PROVE OK(t)
      <3>1. t = Disconnect(srv, id)
        BY <1>7, <2>11 DEF Handled
      <3> HIDE DEF t
      <3> QED BY <2>0, <2>11, <3>1, LeaveHandled DEF m
    <2>12. m.t \in {"CONNECT", "OPEN", "CLOSE", "CREATE", "VALUES", "DESTROY", "FOCUS", "UNFOCUS",
                    "TRIGGER", "KEY", "SYNC_REPLY", "DISCONNECT"}
      BY <1>3, <1>7 DEF UpKind, UpToken, AboutIc
    <2> HIDE DEF t, OK
    <2>13. OK(t)
      BY <2>2, <2>3, <2>4, <2>5, <2>6, <2>7, <2>8, <2>9, <2>10, <2>11, <2>12
    <2> QED BY <2>13 DEF OK, t, id, m
  <1> QED BY <1>5, <1>6, <1>7

\* A client of whom the step says nothing.
LEMMA OthersStill ==
    ASSUME NEW s, NEW u, NEW a, NEW r, NEW d, ClientOK(s, u, a, r, d), MappedConn(s),
           NEW t, t.icm = s.icm, t.conn = s.conn, t.done = s.done, t.down[d] = s.down[d],
           NEW v, v[d] = u[d], NEW b, b[d] = a[d], NEW q, d \in q => d \in r
    PROVE  ClientOK(t, v, b, q, d)
  <1>1. TakesTurns(t, v, b, q, d)
    BY DEF ClientOK, TakesTurns, NoToken, NoConn
  <1>2. Numbered(t, v, b, q, d) /\ QueuesNumbered(t, v, b, q, d)
    BY DEF ClientOK, Numbered, QueuesNumbered, QueueNumbered
  <1>3. AnswerOwed(t, v, q, d)
    BY DEF ClientOK, AnswerOwed
  <1>4. MasksTold(t, b, q, d)
    BY DEF ClientOK, MasksTold, KnowsOf
  <1> QED BY <1>1, <1>2, <1>3, <1>4 DEF ClientOK

\* What was on its way to the processes that are gone is lost.
LEMMA Silenced ==
    ASSUME NEW s, Good(s), NEW r, NEW u, NEW a,
           NEW t, t = [s EXCEPT !.down = [d \in Client |-> IF d \in r THEN @[d] ELSE <<>>]]
    PROVE  /\ Good(t) /\ t.icm = s.icm /\ t.done = s.done /\ t.alive = s.alive
           /\ Proto(s, u, a, r) => Proto(t, u, a, r)
           /\ Waits(s) => Waits(t)
  <1> DEFINE k == [d \in Client |-> IF d \in r THEN s.down[d] ELSE <<>>]
  <1>1. s.down \in [Client -> Seq(DownMsg)] /\ s \in Srv
    BY DEF Good, Srv
  <1>2. k \in [Client -> Seq(DownMsg)]
    BY <1>1
  <1>3. \A d \in Client: k[d] = IF d \in r THEN s.down[d] ELSE <<>>
    OBVIOUS
  <1>4. t = [s EXCEPT !.down = k]
    OBVIOUS
  <1> HIDE DEF k
  <1>5. /\ t \in Srv /\ t.icm = s.icm /\ t.conn = s.conn /\ t.done = s.done /\ t.alive = s.alive
        /\ t.down = k /\ SameView(s, t)
    BY <1>1, <1>2, <1>4 DEF Srv, SameView
  <1>6. Good(t) /\ (Waits(s) => Waits(t))
    BY <1>5 DEF Good, Visible, SameView, Waits
  <1>7. ASSUME Proto(s, u, a, r), NEW d \in Client PROVE ClientOK(t, u, a, r, d)
    <2>1. ClientOK(s, u, a, r, d) /\ MappedConn(s)
      BY <1>7 DEF Proto
    <2>2. CASE d \in r
      <3>1. t.down[d] = s.down[d]
        BY <2>2, <1>3, <1>5
      <3> QED BY <2>1, <3>1, <1>5, OthersStill
    <2>3. CASE d \notin r
      <3>1. t.down[d] = <<>>
        BY <2>3, <1>3, <1>5
      <3>2. TakesTurns(t, u, a, r, d)
        BY <2>1, <2>3, <3>1, <1>5 DEF ClientOK, TakesTurns, AtMostOne, HasKind, NoConn
      <3>3. Numbered(t, u, a, r, d) /\ QueuesNumbered(t, u, a, r, d)
        BY <2>1, <1>5 DEF ClientOK, Numbered, QueuesNumbered, QueueNumbered
      <3>4. AnswerOwed(t, u, r, d) /\ MasksTold(t, a, r, d)
        BY <2>3 DEF AnswerOwed, MasksTold
      <3> QED BY <3>2, <3>3, <3>4 DEF ClientOK
    <2> QED BY <2>2, <2>3
  <1>8. Proto(s, u, a, r) => Proto(t, u, a, r)
    BY <1>5, <1>7 DEF Proto, MappedConn
  <1> QED BY <1>5, <1>6, <1>8

\* What a step may do to the pool, and to the keys.
Moves ==
    /\ PoolMoves(srv.icm, srv'.icm, running)
    /\ \A d \in Client: srv'.done[d] # srv.done[d] => srv'.done[d] > srv.done[d]

\* A turn of the event loop.
LEMMA ServeKeeps ==
    ASSUME XimInv, NEW c \in Client, Serve(c)
    PROVE  XimInv' /\ Moves /\ running' = running
  <1>0. PICK found \in Lookups(running):
          srv' = [Handled(srv, c, ConnOf(c), Head(up[c]), found)
                    EXCEPT !.down = [d \in Client |-> IF d \in running THEN @[d] ELSE <<>>]]
    BY DEF Serve
  <1> DEFINE t == Handled(srv, c, ConnOf(c), Head(up[c]), found)
  <1>1. Ready(srv, up, app, running, c)
    BY DEF XimInv, TypeOK, Serve, Ready
  <1>2. HandledOK(srv, t, up, app, running, c)
    BY <1>1, Handles
  <1>3. /\ srv' = [t EXCEPT !.down = [d \in Client |-> IF d \in running THEN @[d] ELSE <<>>]]
        /\ up' = Rest(up, c) /\ app' = app /\ running' = running
    BY <1>0 DEF Serve, Rest
  <1> HIDE DEF t
  <1>4. /\ Good(t) /\ PoolMoves(srv.icm, t.icm, running)
        /\ t.alive => Proto(t, Rest(up, c), app, running) /\ Waits(t)
        /\ \A d \in Client: t.done[d] # srv.done[d] => t.done[d] > srv.done[d]
    BY <1>2 DEF HandledOK
  <1>5. /\ Good(srv') /\ srv'.icm = t.icm /\ srv'.done = t.done /\ srv'.alive = t.alive
        /\ \A u, a: Proto(t, u, a, running) => Proto(srv', u, a, running)
        /\ Waits(t) => Waits(srv')
    <2> DEFINE y == srv'
    <2>1. y = [t EXCEPT !.down = [d \in Client |-> IF d \in running THEN @[d] ELSE <<>>]]
      BY <1>3
    <2> HIDE DEF y
    <2>2. ASSUME NEW u, NEW a
          PROVE  /\ Good(y) /\ y.icm = t.icm /\ y.done = t.done /\ y.alive = t.alive
                 /\ Proto(t, u, a, running) => Proto(y, u, a, running)
                 /\ Waits(t) => Waits(y)
      BY <1>4, <2>1, Silenced
    <2> QED BY <2>2 DEF y
  <1>6. Rest(up, c) \in Ups
    BY <1>1, Taken DEF Ready
  <1>7. TypeOK'
    BY <1>3, <1>5, <1>6 DEF XimInv, TypeOK
  <1>8. srv'.alive => Proto(srv', up', app', running') /\ Waits(srv')
    BY <1>3, <1>4, <1>5
  <1> QED BY <1>3, <1>4, <1>5, <1>7, <1>8 DEF XimInv, Moves

---------------------------------------------------------------------------
(* What a client makes of a message. *)

\* The request with which Xlib answers, and when it does.
AnswerTo(m) ==
    CASE m.t = "ACCEPT"    -> Request("CONNECT")
      [] m.t = "CONNECTED" -> Request("OPEN")
      [] m.t = "CLOSED"    -> Request("DISCONNECT")
      [] m.t \in {"FORWARD", "COMMIT"} -> Request("SYNC_REPLY")

IsAnswered(m) == m.t \in {"ACCEPT", "CONNECTED", "CLOSED", "FORWARD", "COMMIT"}

\* What the client is afterwards.
ReadState(a, m) ==
    CASE m.t = "OPENED"   -> [a EXCEPT !.st = "open"]
      [] m.t = "CREATED"  -> [a EXCEPT !.st = "open", !.has = @ \cup {m.ic}, !.mask = @ \ {m.ic}]
      [] m.t = "MASK_ON"  -> [a EXCEPT !.mask = @ \cup ({m.ic} \cap a.has)]
      [] m.t = "MASK_OFF" -> [a EXCEPT !.mask = @ \ {m.ic}]
      [] m.t = "GOODBYE"  -> [ClientInit EXCEPT !.n = a.n]
      [] OTHER            -> a

\* Receive does what ReadState and AnswerTo say.
LEMMA Received ==
    ASSUME NEW c, NEW m \in DownMsg, NEW a \in App, Receive(c, a, m)
    PROVE  LET b == ReadState(a, m) IN
           /\ app' = [app EXCEPT ![c] = b]
           /\ up' = IF IsAnswered(m) THEN [up EXCEPT ![c] = Append(@, AnswerTo(m))] ELSE up
  <1>1. m.t \in DownKind
    BY DEF DownMsg
  <1>2. CASE IsAnswered(m)
    <2>1. Answers(c, AnswerTo(m), a)
      BY <1>2 DEF Receive, IsAnswered, AnswerTo
    <2>2. ReadState(a, m) = a
      BY <1>2 DEF ReadState, IsAnswered
    <2> QED BY <2>1, <2>2, <1>2 DEF Answers, Says
  <1>3. CASE ~IsAnswered(m)
    <2>1. Notes(c, ReadState(a, m))
      <3>1. CASE m.t \in {"VALUES_SET", "DESTROYED", "TRIGGERED"}
        BY <3>1 DEF Receive, ReadState
      <3>2. CASE m.t = "OPENED"
        BY <3>2 DEF Receive, ReadState
      <3>3. CASE m.t = "CREATED"
        BY <3>3 DEF Receive, ReadState
      <3>4. CASE m.t = "MASK_ON"
        BY <3>4 DEF Receive, ReadState
      <3>5. CASE m.t = "MASK_OFF"
        BY <3>5 DEF Receive, ReadState
      <3>6. CASE m.t = "GOODBYE"
        BY <3>6 DEF Receive, ReadState
      <3> QED BY <1>1, <1>3, <3>1, <3>2, <3>3, <3>4, <3>5, <3>6
              DEF DownKind, DownToken, Mark, IsAnswered
    <2> QED BY <2>1, <1>3 DEF Notes
  <1> QED BY <1>2, <1>3

\* What a client is after it read a message, field by field.
LEMMA ReadFields ==
    ASSUME NEW m \in DownMsg, NEW a \in App, NEW b, b = ReadState(a, m)
    PROVE  /\ b \in App /\ b.n = a.n
           /\ b.st = IF m.t = "GOODBYE" THEN "idle"
                     ELSE IF m.t \in {"OPENED", "CREATED"} THEN "open" ELSE a.st
           /\ b.has = IF m.t = "GOODBYE" THEN {}
                      ELSE IF m.t = "CREATED" THEN a.has \cup {m.ic} ELSE a.has
           /\ b.mask = IF m.t = "GOODBYE" THEN {}
                       ELSE IF m.t = "MASK_ON" THEN a.mask \cup ({m.ic} \cap a.has)
                       ELSE IF m.t \in {"CREATED", "MASK_OFF"} THEN a.mask \ {m.ic} ELSE a.mask
  <1>1. m.t = "CREATED" => m.ic \in IcId
    BY DEF DownMsg
  <1>2. CASE m.t \in {"OPENED", "CREATED", "MASK_ON", "MASK_OFF"}
    <2>1. CASE m.t = "OPENED"
      <3>1. b = [a EXCEPT !.st = "open"]
        BY <2>1 DEF ReadState
      <3> QED BY <2>1, <3>1 DEF App
    <2>2. CASE m.t = "CREATED"
      <3>1. b = [a EXCEPT !.st = "open", !.has = @ \cup {m.ic}, !.mask = @ \ {m.ic}]
        BY <2>2 DEF ReadState
      <3> DEFINE has == a.has \cup {m.ic}
                 mask == a.mask \ {m.ic}
      <3>2. has \in SUBSET IcId /\ mask \in SUBSET IcId
        BY <2>2, <1>1 DEF App
      <3>3. b = [a EXCEPT !.st = "open", !.has = has, !.mask = mask]
        BY <3>1
      <3> HIDE DEF has, mask
      <3>4. b \in App /\ b.n = a.n /\ b.st = "open" /\ b.has = has /\ b.mask = mask
        BY <3>2, <3>3 DEF App
      <3> QED BY <2>2, <3>4 DEF has, mask
    <2>3. CASE m.t = "MASK_ON"
      <3>1. b = [a EXCEPT !.mask = @ \cup ({m.ic} \cap a.has)]
        BY <2>3 DEF ReadState
      <3> QED BY <2>3, <3>1 DEF App
    <2>4. CASE m.t = "MASK_OFF"
      <3>1. b = [a EXCEPT !.mask = @ \ {m.ic}]
        BY <2>4 DEF ReadState
      <3> QED BY <2>4, <3>1 DEF App
    <2> QED BY <1>2, <2>1, <2>2, <2>3, <2>4
  <1>3. CASE m.t = "GOODBYE"
    <2>1. b = [ClientInit EXCEPT !.n = a.n] /\ ClientInit \in App
      BY <1>3 DEF ReadState, ClientInit, App
    <2>2. ClientInit.st = "idle" /\ ClientInit.has = {} /\ ClientInit.mask = {}
      BY DEF ClientInit
    <2> HIDE DEF ClientInit
    <2> QED BY <1>3, <2>1, <2>2 DEF App
  <1>4. CASE m.t \notin {"OPENED", "CREATED", "MASK_ON", "MASK_OFF", "GOODBYE"}
    <2>1. b = a
      BY <1>4 DEF ReadState
    <2> QED BY <1>4, <2>1
  <1> QED BY <1>2, <1>3, <1>4

\* A request behind the others: the keys of p still come before.
LEMMA BeforeAppend ==
    ASSUME NEW S \in SUBSET UpMsg, NEW p \in Seq(S), NEW q \in Seq(S), NEW m \in S, Before(p, q),
           NEW n \in Nat, IsKey(m) => UpTo(p, n) /\ n < m.n
    PROVE  Before(p, Append(q, m))
  <1> DEFINE r == Append(q, m)
  <1>1. /\ DOMAIN q = 1 .. Len(q) /\ DOMAIN r = 1 .. Len(q) + 1 /\ Len(q) \in Nat
        /\ \A k \in 1 .. Len(q): r[k] = q[k]
        /\ r[Len(q) + 1] = m
    BY AppendedAt
  <1>2. m.n \in Nat /\ \A k \in DOMAIN p: p[k].n \in Nat
    BY DEF UpMsg
  <1> HIDE DEF r
  <1> SUFFICES ASSUME NEW j \in DOMAIN p, NEW k \in DOMAIN r, IsKey(p[j]), IsKey(r[k])
               PROVE  p[j].n < r[k].n
    BY DEF Before, r
  <1>3. CASE k \in DOMAIN q
    BY <1>1, <1>3 DEF Before
  <1>4. CASE k \notin DOMAIN q
    <2>1. r[k] = m
      BY <1>1, <1>4
    <2> QED BY <2>1, <1>2 DEF UpTo
  <1> QED BY <1>3, <1>4

\* A token is answered with a token, a key sent back with a SYNC_REPLY.
LEMMA AnswerKinds ==
    ASSUME NEW m, IsAnswered(m), NEW k, k = AnswerTo(m)
    PROVE  /\ k \in ClientMsg /\ ~IsKey(k)
           /\ k.t # "DIAL"
           /\ k.t \in UpToken <=> m.t \in DownToken
           /\ m.t = "FORWARD" => k.t = "SYNC_REPLY"
  <1>1. ASSUME NEW x \in {"CONNECT", "OPEN", "DISCONNECT", "SYNC_REPLY"}
        PROVE  Request(x) \in ClientMsg /\ Request(x).t = x
    BY DEF Request, ClientMsg, UpMsg, UpKind, UpToken, AboutIc, Keys
  <1>2. CASE m.t = "ACCEPT"
    <2>1. k = Request("CONNECT")
      BY <1>2 DEF AnswerTo
    <2> QED BY <1>1, <1>2, <2>1 DEF IsKey, UpToken, DownToken
  <1>3. CASE m.t = "CONNECTED"
    <2>1. k = Request("OPEN")
      BY <1>3 DEF AnswerTo
    <2> QED BY <1>1, <1>3, <2>1 DEF IsKey, UpToken, DownToken
  <1>4. CASE m.t = "CLOSED"
    <2>1. k = Request("DISCONNECT")
      BY <1>4 DEF AnswerTo
    <2> QED BY <1>1, <1>4, <2>1 DEF IsKey, UpToken, DownToken
  <1>5. CASE m.t \in {"FORWARD", "COMMIT"}
    <2>1. k = Request("SYNC_REPLY")
      BY <1>5 DEF AnswerTo
    <2> QED BY <1>1, <1>5, <2>1 DEF IsKey, UpToken, DownToken
  <1> QED BY <1>2, <1>3, <1>4, <1>5 DEF IsAnswered

\* The client that reads: its token becomes a request or its turn to ask, its
\* debt an answer, and its mask the one it was told.
LEMMA ReadClient ==
    ASSUME NEW s, Good(s), NEW u \in Ups, NEW a \in [Client -> App], NEW r,
           NEW c \in Client, c \in r, ClientOK(s, u, a, r, c), MappedConn(s), s.down[c] # <<>>,
           NEW m, m = Head(s.down[c]),
           NEW t, t.icm = s.icm, t.conn = s.conn, t.done = s.done, t.down[c] = Tail(s.down[c]),
           NEW v, v[c] = IF IsAnswered(m) THEN Append(u[c], AnswerTo(m)) ELSE u[c],
           NEW b, b[c] = ReadState(a[c], m)
    PROVE  ClientOK(t, v, b, r, c)
  <1> DEFINE q == s.down[c]
             p == t.down[c]
             x == u[c]
             y == v[c]
             k == AnswerTo(m)
             yes == IsAnswered(m)
  <1>1. /\ q \in Seq(DownMsg) /\ q # <<>> /\ p = Tail(q) /\ m = Head(q) /\ a[c] \in App
        /\ s.done[c] \in Nat /\ a[c].n \in Nat
    BY DEF Good, Srv, App
  <1>2. x \in Seq(ClientMsg) /\ ClientMsg \in SUBSET UpMsg /\ x \in Seq(UpMsg)
    <2>1. x \in Seq(ClientMsg) /\ ClientMsg \subseteq UpMsg
      BY DEF Ups, ClientMsg
    <2> HIDE DEF x
    <2> QED BY <2>1
  <1>3. /\ yes => y = Append(x, k)
        /\ ~yes => y = x
    OBVIOUS
  <1>4. yes => /\ k \in ClientMsg /\ ~IsKey(k)
               /\ k.t # "DIAL"
               /\ k.t \in UpToken <=> m.t \in DownToken
               /\ m.t = "FORWARD" => k.t = "SYNC_REPLY"
    BY AnswerKinds
  <1>5. /\ yes => m.t \notin {"OPENED", "CREATED", "GOODBYE", "MASK_ON", "MASK_OFF"}
        /\ m.t = "FORWARD" => yes
    BY DEF IsAnswered
  <1>6. m \in DownMsg
    BY <1>1, TailAt
  <1>7. /\ b[c] \in App /\ b[c].n = a[c].n
        /\ b[c].st = IF m.t = "GOODBYE" THEN "idle"
                     ELSE IF m.t \in {"OPENED", "CREATED"} THEN "open" ELSE a[c].st
        /\ b[c].has = IF m.t = "GOODBYE" THEN {}
                      ELSE IF m.t = "CREATED" THEN a[c].has \cup {m.ic} ELSE a[c].has
        /\ b[c].mask = IF m.t = "GOODBYE" THEN {}
                       ELSE IF m.t = "MASK_ON" THEN a[c].mask \cup ({m.ic} \cap a[c].has)
                       ELSE IF m.t \in {"CREATED", "MASK_OFF"} THEN a[c].mask \ {m.ic} ELSE a[c].mask
    BY <1>1, <1>6, ReadFields
  <1> HIDE DEF q, p, x, y, k, yes
  <1>8. ASSUME NEW K
        PROVE  /\ HasKind(q, K) <=> HasKind(p, K) \/ m.t \in K
               /\ AtMostOne(q, K) => /\ AtMostOne(p, K)
                                     /\ m.t \in K => ~HasKind(p, K)
    BY <1>1, KindTail
  <1>9. ASSUME NEW K
        PROVE  /\ HasKind(y, K) <=> HasKind(x, K) \/ (yes /\ k.t \in K)
               /\ AtMostOne(x, K) /\ (yes /\ k.t \in K => ~HasKind(x, K)) => AtMostOne(y, K)
    <2>1. CASE yes
      <3>1. k \in ClientMsg /\ y = Append(x, k) /\ x \in Seq(ClientMsg)
        BY <2>1, <1>2, <1>3, <1>4
      <3>2. /\ HasKind(y, K) <=> HasKind(x, K) \/ k.t \in K
            /\ AtMostOne(x, K) /\ (k.t \in K => ~HasKind(x, K)) => AtMostOne(y, K)
        BY <3>1, KindAppend
      <3> QED BY <2>1, <3>2
    <2>2. CASE ~yes
      BY <2>2, <1>3
    <2> QED BY <2>1, <2>2
  <1>10. TakesTurns(s, u, a, r, c) /\ Numbered(s, u, a, r, c) /\ QueuesNumbered(s, u, a, r, c)
         /\ AnswerOwed(s, u, r, c) /\ MasksTold(s, a, r, c)
    BY DEF ClientOK
  <1>11. TakesTurns(t, v, b, r, c)
    <2>1. /\ AtMostOne(x, UpToken) /\ AtMostOne(q, DownToken)
          /\ ~(HasKind(x, UpToken) /\ HasKind(q, DownToken))
          /\ \A id, e \in ConnId: t.conn[id].owner = c /\ t.conn[e].owner = c => id = e
          /\ HasKind(x, {"DIAL"}) \/ HasKind(q, {"GOODBYE"}) => NoConn(t, c)
          /\ a[c].st = "idle" => NoConn(t, c)
          /\ a[c].st # "waiting" => ~HasKind(x, UpToken) /\ ~HasKind(q, DownToken)
          /\ HasKind(x, {"DIAL"}) \/ a[c].st = "idle" => a[c].has = {}
      BY <1>10 DEF TakesTurns, NoToken, NoConn, x, q
    <2>2. HasKind(x, {"DIAL"}) => HasKind(x, UpToken)
      BY DEF HasKind, UpToken
    <2>3. HasKind(p, {"GOODBYE"}) => HasKind(p, DownToken)
      BY DEF HasKind, DownToken
    <2>4. {"OPENED", "CREATED", "GOODBYE"} \subseteq DownToken
      BY DEF DownToken
    <2>5. HasKind(y, {"DIAL"}) => HasKind(x, {"DIAL"})
      BY <1>4, <1>9
    <2>6. CASE m.t \in DownToken
      <3>1. HasKind(q, DownToken) /\ ~HasKind(p, DownToken) /\ ~HasKind(x, UpToken) /\ a[c].st = "waiting"
        BY <2>1, <2>6, <1>8
      <3>2. AtMostOne(y, UpToken) /\ AtMostOne(p, DownToken)
        BY <2>1, <3>1, <1>8, <1>9
      <3>3. b[c].st # "waiting" => ~yes /\ m.t \in {"OPENED", "CREATED", "GOODBYE"}
        BY <3>1, <1>5, <1>7
      <3>4. b[c].st = "idle" => NoConn(t, c) /\ b[c].has = {}
        <4>1. m.t = "GOODBYE" => HasKind(q, {"GOODBYE"})
          BY <1>8
        <4> QED BY <4>1, <3>1, <1>7, <2>1
      <3>5. b[c].st # "waiting" => ~HasKind(y, UpToken) /\ ~HasKind(p, DownToken)
        BY <3>1, <3>3, <1>9
      <3> QED BY <2>1, <2>2, <2>3, <2>5, <3>1, <3>2, <3>4, <3>5 DEF TakesTurns, NoToken, y, p
    <2>7. CASE m.t \notin DownToken
      <3>1. b[c].st = a[c].st /\ b[c].has = a[c].has
        BY <2>4, <2>7, <1>7
      <3>2. HasKind(y, UpToken) => HasKind(x, UpToken)
        BY <2>7, <1>4, <1>9
      <3>3. AtMostOne(y, UpToken) /\ AtMostOne(p, DownToken)
        BY <2>1, <2>7, <1>4, <1>8, <1>9
      <3>4. /\ HasKind(p, DownToken) => HasKind(q, DownToken)
            /\ HasKind(p, {"GOODBYE"}) => HasKind(q, {"GOODBYE"})
        BY <1>8
      <3> QED BY <2>1, <2>5, <3>1, <3>2, <3>3, <3>4 DEF TakesTurns, NoToken, y, p
    <2> QED BY <2>6, <2>7
  <1>12. Numbered(t, v, b, r, c)
    <2>1. Increasing(x) /\ Beyond(x, s.done[c]) /\ UpTo(x, a[c].n) /\ s.done[c] <= a[c].n
      BY <1>10 DEF Numbered, x
    <2>2. yes => Increasing(y) /\ Beyond(y, s.done[c]) /\ UpTo(y, a[c].n)
      <3> SUFFICES ASSUME yes PROVE Increasing(y) /\ Beyond(y, s.done[c]) /\ UpTo(y, a[c].n)
        OBVIOUS
      <3>1. k \in ClientMsg /\ ~IsKey(k) /\ y = Append(x, k)
        BY <1>3, <1>4
      <3>2. Increasing(y) /\ UpTo(y, a[c].n)
        BY <1>1, <1>2, <2>1, <3>1, NumbersAppend
      <3>3. Beyond(y, s.done[c])
        BY <1>1, <1>2, <2>1, <3>1, NumbersAppend
      <3> QED BY <3>2, <3>3
    <2>3. Increasing(y) /\ Beyond(y, s.done[c]) /\ UpTo(y, a[c].n)
      BY <2>1, <2>2, <1>3
    <2> QED BY <2>1, <2>3, <1>7 DEF Numbered, y
  <1>13. QueuesNumbered(t, v, b, r, c)
    <2> SUFFICES ASSUME NEW id \in ConnId, s.conn[id].owner = c
                 PROVE  QueueNumbered(t, v, b, r, c, s.conn[id].pending)
      BY DEF QueuesNumbered
    <2> DEFINE e == s.conn[id].pending
    <2>1. QueueNumbered(s, u, a, r, c, e)
      BY <1>10 DEF QueuesNumbered
    <2>2. e \in Seq(KeyMsg)
      BY DEF Good, Srv, Conn
    <2> HIDE DEF e
    <2>3. e \in Seq(UpMsg)
      BY <2>2 DEF KeyMsg
    <2>4. Before(e, y)
      <3>1. Before(e, x)
        BY <2>1 DEF QueueNumbered, x
      <3>2. ASSUME yes PROVE Before(e, y)
        <4>1. k \in UpMsg /\ ~IsKey(k) /\ y = Append(x, k)
          BY <1>2, <1>3, <1>4, <3>2
        <4> QED BY <1>1, <1>2, <2>3, <3>1, <4>1, BeforeAppend
      <3> QED BY <3>1, <3>2, <1>3
    <2> QED BY <2>1, <2>4, <1>7 DEF QueueNumbered, y, e
  <1>14. AnswerOwed(t, v, r, c)
    <2>1. HasKind(x, {"SYNC_REPLY"}) => HasKind(y, {"SYNC_REPLY"})
      BY <1>9
    <2>2. HasKind(q, {"FORWARD"}) => HasKind(p, {"FORWARD"}) \/ HasKind(y, {"SYNC_REPLY"})
      <3>1. HasKind(q, {"FORWARD"}) => HasKind(p, {"FORWARD"}) \/ m.t = "FORWARD"
        BY <1>8
      <3>2. m.t = "FORWARD" => HasKind(y, {"SYNC_REPLY"})
        BY <1>4, <1>5, <1>9
      <3> QED BY <3>1, <3>2
    <2> QED BY <2>1, <2>2, <1>10 DEF AnswerOwed, x, y, p, q
  <1>15. MasksTold(t, b, r, c)
    <2> SUFFICES ASSUME NEW i \in IcId, KnowsOf(t, b, c, i), s.icm.map[i],
                        s.conn[s.icm.ic[i].conn].owner = c
                 PROVE  s.icm.ic[i].enabled = Masked(p, i, i \in b[c].mask)
      BY DEF MasksTold, p
    <2> DEFINE told == m.ic = i /\ m.t \in Mark
               old == i \in a[c].mask
               mid == IF told THEN m.t = "MASK_ON" ELSE old
               new == i \in b[c].mask
    <2>0. Reply("CREATED", i).t = "CREATED" /\ Reply("CREATED", i).ic = i /\ "CREATED" \in DownToken
      BY DEF Reply, DownToken
    <2>1. i \in b[c].has \/ \E j \in DOMAIN p: p[j] = Reply("CREATED", i)
      BY DEF KnowsOf, p
    <2>2. \A j \in DOMAIN p: \E l \in DOMAIN q: q[l] = p[j]
      <3>1. /\ DOMAIN q = 1 .. Len(q) /\ DOMAIN p = 1 .. Len(q) - 1 /\ Len(q) \in Nat \ {0}
            /\ \A l \in 1 .. Len(q) - 1: p[l] = q[l + 1]
        BY <1>1, TailAt
      <3> SUFFICES ASSUME NEW j \in DOMAIN p PROVE \E l \in DOMAIN q: q[l] = p[j]
        OBVIOUS
      <3>2. j + 1 \in DOMAIN q /\ q[j + 1] = p[j]
        BY <3>1
      <3> QED BY <3>2
    <2>3. m.t # "GOODBYE"
      <3> SUFFICES ASSUME m.t = "GOODBYE" PROVE FALSE
        OBVIOUS
      <3>1. m.t \in DownToken /\ AtMostOne(q, DownToken)
        BY <1>10 DEF DownToken, TakesTurns, q
      <3>2. ~HasKind(p, DownToken) /\ b[c].has = {}
        BY <3>1, <1>7, <1>8
      <3> QED BY <2>0, <2>1, <3>2 DEF HasKind
    <2>4. KnowsOf(s, a, c, i)
      <3>1. CASE \E j \in DOMAIN p: p[j] = Reply("CREATED", i)
        BY <3>1, <2>2 DEF KnowsOf, q
      <3>2. CASE i \in a[c].has
        BY <3>2 DEF KnowsOf
      <3>3. CASE m.t = "CREATED" /\ m.ic = i
        <4>1. m = Reply("CREATED", i)
          BY <3>3, <1>6 DEF DownMsg, Reply
        <4>2. 1 \in DOMAIN q /\ q[1] = m
          BY <1>1, TailAt
        <4> QED BY <4>1, <4>2 DEF KnowsOf, q
      <3> QED BY <2>1, <2>3, <3>1, <3>2, <3>3, <1>7
    <2>5. s.icm.ic[i].enabled = Masked(q, i, old)
      BY <2>4, <1>10 DEF MasksTold, q
    <2>6. old \in BOOLEAN /\ mid \in BOOLEAN /\ new \in BOOLEAN
      <3>1. old \in BOOLEAN
        OBVIOUS
      <3>2. new \in BOOLEAN
        OBVIOUS
      <3> HIDE DEF old, new
      <3>3. mid \in BOOLEAN
        <4>1. CASE told
          BY <4>1
        <4>2. CASE ~told
          BY <4>2, <3>1
        <4> QED BY <4>1, <4>2
      <3> QED BY <3>1, <3>2, <3>3
    <2>7. /\ m.t = "MASK_ON" => new = (old \/ (m.ic = i /\ i \in a[c].has)) 
          /\ m.t \in {"CREATED", "MASK_OFF"} => new = (old /\ m.ic # i)
          /\ m.t \notin Mark => new = old
      BY <2>3, <1>7 DEF Mark
    <2>8. mid = IF told THEN m.t = "MASK_ON" ELSE old
      OBVIOUS
    <2> HIDE DEF old, mid, new
    <2>9. Masked(q, i, old) = Masked(p, i, mid)
      BY <1>1, <2>6, <2>8, MaskedTail
    <2>10. mid = new \/ Told(p, i) # {}
      <3>1. CASE ~told
        BY <3>1, <2>6, <2>7, <2>8 DEF Mark
      <3>2. CASE told /\ m.t # "MASK_ON"
        BY <3>2, <2>6, <2>7, <2>8 DEF Mark
      <3>3. CASE told /\ m.t = "MASK_ON" /\ i \in a[c].has
        BY <3>3, <2>6, <2>7, <2>8
      <3>4. CASE told /\ m.t = "MASK_ON" /\ i \notin a[c].has
        <4>1. PICK j \in DOMAIN p: p[j] = Reply("CREATED", i)
          BY <3>4, <2>1, <1>7
        <4>2. j \in Told(p, i)
          BY <4>1, <2>0 DEF Told
        <4> QED BY <4>2
      <3> QED BY <3>1, <3>2, <3>3, <3>4
    <2>11. Told(p, i) # {} => Masked(p, i, mid) = Masked(p, i, new)
      BY DEF Masked
    <2> QED BY <2>5, <2>9, <2>10, <2>11 DEF new
  <1> QED BY <1>11, <1>12, <1>13, <1>14, <1>15 DEF ClientOK

\* The queue of one client, and nothing else of the server, changes.
WithDown(s, c, q) == [s EXCEPT !.down[c] = q]

\* What else is as before.
LEMMA DownSet ==
    ASSUME NEW s, Good(s), NEW c \in Client, NEW q \in Seq(DownMsg),
           NEW t, t = WithDown(s, c, q)
    PROVE  /\ Good(t) /\ t.icm = s.icm /\ t.conn = s.conn /\ t.done = s.done /\ t.alive = s.alive
           /\ t.down[c] = q /\ \A d \in Client \ {c}: t.down[d] = s.down[d]
           /\ Waits(s) => Waits(t)
  <1> DEFINE k == [s.down EXCEPT ![c] = q]
  <1>1. s \in Srv /\ s.down \in [Client -> Seq(DownMsg)]
    BY DEF Good, Srv
  <1>2. /\ k \in [Client -> Seq(DownMsg)] /\ k[c] = q
        /\ \A d \in Client \ {c}: k[d] = s.down[d]
    BY <1>1
  <1>3. t = [s EXCEPT !.down = k]
    BY <1>1 DEF WithDown
  <1> HIDE DEF k
  <1>4. /\ t \in Srv /\ t.icm = s.icm /\ t.conn = s.conn /\ t.done = s.done /\ t.alive = s.alive
        /\ t.down = k /\ SameView(s, t)
    BY <1>1, <1>2, <1>3 DEF Srv, SameView
  <1> QED BY <1>2, <1>4 DEF Good, Visible, SameView, Waits

\* A client reads: of the server only its queue changes.
LEMMA ReadKeeps ==
    ASSUME XimInv, NEW c \in Client, Read(c)
    PROVE  XimInv' /\ Moves /\ running' = running
  <1> DEFINE s == srv
             t == srv'
             q == s.down[c]
             m == Head(q)
             b == ReadState(app[c], m)
  <1>1. /\ Good(s) /\ up \in Ups /\ app \in [Client -> App] /\ running \subseteq Client
        /\ Proto(s, up, app, running) /\ Waits(s) /\ s.alive
        /\ c \in running /\ q # <<>> /\ running' = running
        /\ t = [s EXCEPT !.down[c] = Tail(q)]
        /\ Receive(c, app[c], m)
    BY DEF XimInv, TypeOK, Read
  <1>2. q \in Seq(DownMsg) /\ app[c] \in App
    BY <1>1 DEF Good, Srv
  <1> HIDE DEF s, t, q
  <1>3. Tail(q) \in Seq(DownMsg) /\ m \in DownMsg
    BY <1>1, <1>2, TailAt
  <1> HIDE DEF m
  <1>4. /\ app' = [app EXCEPT ![c] = b]
        /\ up' = IF IsAnswered(m) THEN [up EXCEPT ![c] = Append(@, AnswerTo(m))] ELSE up
    BY <1>1, <1>2, <1>3, Received
  <1> HIDE DEF b
  <1>5. b \in App
    BY <1>2, <1>3, ReadFields DEF b
  <1>6. /\ app' \in [Client -> App] /\ app'[c] = b
        /\ \A d \in Client \ {c}: app'[d] = app[d]
    BY <1>1, <1>4, <1>5
  <1>7. /\ up' \in Ups
        /\ up'[c] = IF IsAnswered(m) THEN Append(up[c], AnswerTo(m)) ELSE up[c]
        /\ \A d \in Client \ {c}: up'[d] = up[d]
    <2>1. CASE IsAnswered(m)
      <3> DEFINE k == AnswerTo(m)
      <3>1. k \in ClientMsg
        BY <2>1, AnswerKinds
      <3> HIDE DEF k
      <3>2. up' = [up EXCEPT ![c] = Append(@, k)]
        BY <1>4, <2>1 DEF k
      <3>3. up' \in Ups /\ up'[c] = Append(up[c], k) /\ \A d \in Client \ {c}: up'[d] = up[d]
        BY <1>1, <3>1, <3>2 DEF Ups
      <3> QED BY <2>1, <3>3 DEF k
    <2>2. CASE ~IsAnswered(m)
      BY <1>1, <1>4, <2>2
    <2> QED BY <2>1, <2>2
  <1>8. /\ Good(t) /\ t.icm = s.icm /\ t.conn = s.conn /\ t.done = s.done /\ t.alive = s.alive
        /\ t.down[c] = Tail(q) /\ \A d \in Client \ {c}: t.down[d] = s.down[d]
        /\ Waits(t)
    <2> DEFINE p == Tail(q)
    <2>1. p \in Seq(DownMsg) /\ t = WithDown(s, c, p)
      BY <1>1, <1>3 DEF WithDown
    <2> HIDE DEF p
    <2>2. /\ Good(t) /\ t.icm = s.icm /\ t.conn = s.conn /\ t.done = s.done /\ t.alive = s.alive
          /\ t.down[c] = p /\ \A d \in Client \ {c}: t.down[d] = s.down[d]
          /\ Waits(s) => Waits(t)
      BY <1>1, <2>1, DownSet
    <2> QED BY <1>1, <2>2 DEF p
  <1>9. MappedConn(s) /\ \A d \in Client: ClientOK(s, up, app, running, d)
    BY <1>1 DEF Proto
  <1> DEFINE v == up'
             a == app'
  <1>10. /\ v[c] = IF IsAnswered(m) THEN Append(up[c], AnswerTo(m)) ELSE up[c]
         /\ a[c] = ReadState(app[c], m)
         /\ \A d \in Client \ {c}: v[d] = up[d] /\ a[d] = app[d]
    BY <1>6, <1>7 DEF b
  <1> HIDE DEF v, a
  <1>11. ClientOK(t, v, a, running, c)
    <2>1. s.down[c] # <<>> /\ m = Head(s.down[c]) /\ t.down[c] = Tail(s.down[c])
      BY <1>1, <1>8 DEF q, m
    <2>2. /\ Good(s) /\ up \in Ups /\ app \in [Client -> App] /\ c \in running
          /\ ClientOK(s, up, app, running, c) /\ MappedConn(s)
          /\ t.icm = s.icm /\ t.conn = s.conn /\ t.done = s.done
      BY <1>1, <1>8, <1>9
    <2>3. /\ v[c] = IF IsAnswered(m) THEN Append(up[c], AnswerTo(m)) ELSE up[c]
          /\ a[c] = ReadState(app[c], m)
      BY <1>10
    <2> QED BY <2>1, <2>2, <2>3, ReadClient
  <1>12. ASSUME NEW d \in Client \ {c} PROVE ClientOK(t, v, a, running, d)
    BY <1>8, <1>9, <1>10, <1>12, OthersStill
  <1>13. Proto(t, v, a, running)
    BY <1>8, <1>9, <1>11, <1>12 DEF Proto, MappedConn
  <1>14. Proto(srv', up', app', running') /\ Waits(srv')
    BY <1>1, <1>8, <1>13 DEF v, a, t
  <1>15. TypeOK'
    BY <1>1, <1>6, <1>7, <1>8 DEF TypeOK, t
  <1>16. Moves
    BY <1>8 DEF Moves, PoolMoves, Stays, InUse, Windows, s, t
  <1> QED BY <1>1, <1>14, <1>15, <1>16 DEF XimInv

---------------------------------------------------------------------------
(* What a client asks of its own accord. *)

\* A client that waits for no answer may ask: k is its request, b what it
\* is afterwards.
MayAsk(x, k, b) ==
    /\ x.st # "waiting"
    /\ k \in ClientMsg /\ k.n = x.n + 1
    /\ k.t \in UpToken => b.st = "waiting"
    /\ k.t = "DIAL" => x.st = "idle"
    /\ b \in App /\ b.n = x.n + 1 /\ b.st \in {x.st, "waiting"}
    /\ b.has \subseteq x.has
    /\ \A i \in b.has: i \in b.mask <=> i \in x.mask

\* The request goes behind those under way, none of which is a token, and
\* its number is beyond theirs and beyond those of the queued keys.
LEMMA AskClient ==
    ASSUME NEW s, Good(s), NEW u \in Ups, NEW a \in [Client -> App], NEW r,
           NEW c \in Client, c \in r, ClientOK(s, u, a, r, c),
           NEW k, NEW b, MayAsk(a[c], k, b),
           NEW v, v[c] = Append(u[c], k), NEW e, e[c] = b
    PROVE  ClientOK(s, v, e, r, c)
  <1> DEFINE x == u[c]
             y == v[c]
             q == s.down[c]
             n == a[c].n
  <1>1. /\ TakesTurns(s, u, a, r, c) /\ Numbered(s, u, a, r, c) /\ QueuesNumbered(s, u, a, r, c)
        /\ AnswerOwed(s, u, r, c) /\ MasksTold(s, a, r, c)
    BY DEF ClientOK
  <1>2. /\ k \in ClientMsg /\ k.n = n + 1 /\ b.n = n + 1 /\ n \in Nat
        /\ a[c].st # "waiting" /\ b.st \in {a[c].st, "waiting"}
        /\ k.t \in UpToken => b.st = "waiting"
        /\ k.t = "DIAL" => a[c].st = "idle"
        /\ b.has \subseteq a[c].has /\ \A i \in b.has: i \in b.mask <=> i \in a[c].mask
    BY DEF MayAsk, App
  <1>3. /\ x \in Seq(ClientMsg) /\ ClientMsg \in SUBSET UpMsg /\ y = Append(x, k)
        /\ s.done[c] \in Nat
    BY DEF Ups, ClientMsg, Good, Srv
  <1>4. ~HasKind(x, UpToken) /\ ~HasKind(q, DownToken)
    BY <1>1, <1>2 DEF TakesTurns, NoToken
  <1> HIDE DEF x, y, q, n
  <1>5. ASSUME NEW K
        PROVE  /\ HasKind(y, K) <=> HasKind(x, K) \/ k.t \in K
               /\ AtMostOne(x, K) /\ (k.t \in K => ~HasKind(x, K)) => AtMostOne(y, K)
    BY <1>2, <1>3, KindAppend
  <1>6. TakesTurns(s, v, e, r, c)
    <2>1. /\ AtMostOne(x, UpToken) /\ AtMostOne(q, DownToken)
          /\ \A f, g \in ConnId: s.conn[f].owner = c /\ s.conn[g].owner = c => f = g
          /\ a[c].st = "idle" => NoConn(s, c) /\ a[c].has = {}
      BY <1>1 DEF TakesTurns, x, q
    <2>2. AtMostOne(y, UpToken)
      BY <2>1, <1>4, <1>5
    <2>3. HasKind(x, {"DIAL"}) => HasKind(x, UpToken)
      BY DEF HasKind, UpToken
    <2>4. HasKind(q, {"GOODBYE"}) => HasKind(q, DownToken)
      BY DEF HasKind, DownToken
    <2>5. HasKind(y, {"DIAL"}) => a[c].st = "idle"
      BY <2>3, <1>2, <1>4, <1>5
    <2>6. b.st = "idle" => a[c].st = "idle"
      BY <1>2
    <2>7. b.st # "waiting" => ~HasKind(y, UpToken)
      BY <1>2, <1>4, <1>5
    <2> QED BY <2>1, <2>2, <2>4, <2>5, <2>6, <2>7, <1>2, <1>4 DEF TakesTurns, NoToken, y, q
  <1>7. Numbered(s, v, e, r, c)
    <2>1. Increasing(x) /\ Beyond(x, s.done[c]) /\ UpTo(x, n) /\ s.done[c] <= n
      BY <1>1 DEF Numbered, x, n
    <2>2. Increasing(y)
      BY <2>1, <1>2, <1>3, NumbersAppend
    <2>3. UpTo(y, n + 1)
      BY <2>1, <1>2, <1>3, NumbersAppend
    <2>4. Beyond(y, s.done[c])
      BY <2>1, <1>2, <1>3, NumbersAppend
    <2> QED BY <2>1, <2>2, <2>3, <2>4, <1>2, <1>3 DEF Numbered, y
  <1>8. QueuesNumbered(s, v, e, r, c)
    <2> SUFFICES ASSUME NEW id \in ConnId, s.conn[id].owner = c
                 PROVE  QueueNumbered(s, v, e, r, c, s.conn[id].pending)
      BY DEF QueuesNumbered
    <2> DEFINE p == s.conn[id].pending
    <2>1. QueueNumbered(s, u, a, r, c, p)
      BY <1>1 DEF QueuesNumbered
    <2>2. p \in Seq(KeyMsg)
      BY DEF Good, Srv, Conn
    <2> HIDE DEF p
    <2>3. p \in Seq(UpMsg) /\ x \in Seq(UpMsg)
      BY <1>3, <2>2 DEF KeyMsg
    <2>4. Increasing(p) /\ Beyond(p, s.done[c]) /\ UpTo(p, n) /\ Before(p, x)
      BY <2>1 DEF QueueNumbered, x, n
    <2>5. Before(p, y)
      BY <2>3, <2>4, <1>2, <1>3, BeforeAppend
    <2>6. UpTo(p, n + 1)
      <3>1. \A j \in DOMAIN p: p[j].n \in Nat
        <4>1. \A j \in DOMAIN p: p[j] \in UpMsg
          BY <2>3
        <4> QED BY <4>1 DEF UpMsg
      <3> QED BY <3>1, <2>4, <1>2 DEF UpTo
    <2> QED BY <2>4, <2>5, <2>6, <1>2 DEF QueueNumbered, y, p
  <1>9. AnswerOwed(s, v, r, c)
    BY <1>1, <1>5 DEF AnswerOwed, x, y
  <1>10. MasksTold(s, e, r, c)
    <2> SUFFICES ASSUME NEW i \in IcId, KnowsOf(s, e, c, i), s.icm.map[i],
                        s.conn[s.icm.ic[i].conn].owner = c
                 PROVE  s.icm.ic[i].enabled = Masked(q, i, i \in b.mask)
      BY DEF MasksTold, q
    <2>1. ~\E j \in DOMAIN q: q[j] = Reply("CREATED", i)
      <3>1. Reply("CREATED", i).t \in DownToken
        BY DEF Reply, DownToken
      <3> QED BY <3>1, <1>4 DEF HasKind
    <2>2. i \in b.has
      BY <2>1 DEF KnowsOf, q
    <2>3. KnowsOf(s, a, c, i) /\ (i \in b.mask) = (i \in a[c].mask)
      BY <2>2, <1>2 DEF KnowsOf
    <2>4. s.icm.ic[i].enabled = Masked(q, i, i \in a[c].mask)
      BY <2>3, <1>1 DEF MasksTold, q
    <2> QED BY <2>3, <2>4
  <1> QED BY <1>6, <1>7, <1>8, <1>9, <1>10 DEF ClientOK

\* Whatever a client asks, the server has not moved.
LEMMA AskKeeps ==
    ASSUME XimInv, NEW c \in Client, c \in running, srv.alive,
           NEW k, NEW b, MayAsk(app[c], k, b),
           Says(c, k), app' = [app EXCEPT ![c] = b], UNCHANGED <<srv, running>>
    PROVE  XimInv' /\ Moves /\ running' = running
  <1> DEFINE v == up'
             a == app'
  <1>1. /\ Good(srv) /\ up \in Ups /\ app \in [Client -> App] /\ running \subseteq Client
        /\ MappedConn(srv) /\ \A d \in Client: ClientOK(srv, up, app, running, d)
        /\ Waits(srv)
    BY DEF XimInv, TypeOK, Proto
  <1>2. k \in ClientMsg /\ b \in App
    BY DEF MayAsk
  <1>3. v \in Ups /\ v[c] = Append(up[c], k) /\ \A d \in Client \ {c}: v[d] = up[d]
    BY <1>1, <1>2 DEF Says, Ups
  <1>4. a \in [Client -> App] /\ a[c] = b /\ \A d \in Client \ {c}: a[d] = app[d]
    BY <1>1, <1>2
  <1> HIDE DEF v, a
  <1>5. ClientOK(srv, v, a, running, c)
    BY <1>1, <1>3, <1>4, AskClient
  <1>6. ASSUME NEW d \in Client \ {c} PROVE ClientOK(srv, v, a, running, d)
    BY <1>1, <1>3, <1>4, <1>6, OthersStill
  <1>7. Proto(srv', up', app', running') /\ Waits(srv')
    BY <1>1, <1>5, <1>6 DEF Proto, v, a
  <1>8. TypeOK'
    BY <1>1, <1>3, <1>4 DEF TypeOK, v, a
  <1>9. Moves
    BY DEF Moves, PoolMoves, Stays
  <1> QED BY <1>7, <1>8, <1>9 DEF XimInv

\* A request of the application, its number left aside.
LEMMA NumberedAsk ==
    ASSUME NEW x \in App, x.st # "waiting",
           NEW m \in ClientMsg, NEW y \in App, y.n = x.n, y.st \in {x.st, "waiting"},
           m.t \in UpToken => y.st = "waiting",
           m.t = "DIAL" => x.st = "idle",
           y.has \subseteq x.has, \A i \in y.has: i \in y.mask <=> i \in x.mask
    PROVE  MayAsk(x, [m EXCEPT !.n = x.n + 1], [y EXCEPT !.n = @ + 1])
  <1> DEFINE k == [m EXCEPT !.n = x.n + 1]
             b == [y EXCEPT !.n = @ + 1]
  <1>1. x.n \in Nat /\ x.n + 1 \in Nat
    BY DEF App
  <1>2. k \in UpMsg /\ k.n = x.n + 1 /\ k.t = m.t /\ k.ic = m.ic
    BY <1>1 DEF ClientMsg, UpMsg
  <1>3. k \in ClientMsg
    BY <1>2 DEF ClientMsg
  <1>4. b \in App /\ b.n = x.n + 1 /\ b.st = y.st /\ b.has = y.has /\ b.mask = y.mask
    BY <1>1 DEF App
  <1> HIDE DEF k, b
  <1>5. MayAsk(x, k, b)
    BY <1>2, <1>3, <1>4 DEF MayAsk
  <1> QED BY <1>5 DEF k, b

\* What Asks makes of a request.
LEMMA AsksKeeps ==
    ASSUME XimInv, NEW c \in Client, NEW from \in {"idle", "open"}, NEW m, NEW y,
           Asks(c, from, m, y),
           m \in ClientMsg, m.t = "DIAL" => from = "idle",
           y \in App, y.n = app[c].n, y.st \in {from, "waiting"},
           m.t \in UpToken => y.st = "waiting",
           y.has \subseteq app[c].has, \A i \in y.has: i \in y.mask <=> i \in app[c].mask
    PROVE  XimInv' /\ Moves /\ running' = running
  <1> DEFINE k == [m EXCEPT !.n = app[c].n + 1]
             b == [y EXCEPT !.n = @ + 1]
  <1>1. /\ srv.alive /\ c \in running /\ app[c].st = from
        /\ Says(c, k) /\ app' = [app EXCEPT ![c] = b] /\ UNCHANGED <<srv, running>>
    BY DEF Asks
  <1>2. app[c] \in App
    BY DEF XimInv, TypeOK
  <1>3. MayAsk(app[c], k, b)
    BY <1>1, <1>2, NumberedAsk
  <1> HIDE DEF k, b
  <1> QED BY <1>1, <1>3, AskKeeps

\* What the requests look like.
Asking(t, w) == [Request(t) EXCEPT !.win = w]
Pressing(i, k) == [About("KEY", i) EXCEPT !.key = k]

\* Requests about no context.
LEMMA PlainRequest ==
    ASSUME NEW t \in {"DIAL", "CREATE", "VALUES", "CLOSE"}, NEW w \in Client \cup {NoClient}
    PROVE  /\ Request(t) \in ClientMsg /\ Request(t).t = t
           /\ Asking(t, w) \in ClientMsg /\ Asking(t, w).t = t
  <1>1. t \in UpKind /\ t \notin AboutIc
    BY DEF UpKind, UpToken, AboutIc
  <1>2. /\ Request(t) \in UpMsg /\ Request(t).t = t
        /\ Asking(t, w) \in UpMsg /\ Asking(t, w).t = t
    BY <1>1 DEF Asking, Request, UpMsg, Keys
  <1> QED BY <1>1, <1>2 DEF ClientMsg

\* Requests about a context, keys among them.
LEMMA ContextRequest ==
    ASSUME NEW t \in AboutIc, NEW i \in IcId
    PROVE  /\ About(t, i) \in ClientMsg /\ About(t, i).t = t
           /\ \A k \in Keys: Pressing(i, k) \in ClientMsg /\ Pressing(i, k).t = "KEY"
  <1>1. t \in UpKind /\ "KEY" \in UpKind
    BY DEF UpKind, AboutIc
  <1>2. About(t, i) \in UpMsg /\ About(t, i).t = t /\ About(t, i).ic = i
    BY <1>1 DEF About, Request, UpMsg, Keys
  <1>3. ASSUME NEW k \in Keys
        PROVE  Pressing(i, k) \in UpMsg /\ Pressing(i, k).t = "KEY" /\ Pressing(i, k).ic = i
    BY <1>1 DEF Pressing, About, Request, UpMsg
  <1> QED BY <1>2, <1>3 DEF ClientMsg

\* Every request an application makes of its own accord.
LEMMA ClientKeeps ==
    ASSUME XimInv, NEW c \in Client,
           \/ Dial(c) \/ AskForIc(c) \/ SetValues(c) \/ DropIc(c) \/ MoveFocus(c)
           \/ PressTrigger(c) \/ PressKey(c) \/ HangUp(c)
    PROVE  XimInv' /\ Moves /\ running' = running
  <1> DEFINE x == app[c]
             y == Waiting(c)
  <1>1. /\ x \in App /\ x.has \subseteq IcId /\ x.mask \subseteq IcId
        /\ y \in App /\ y.n = x.n /\ y.st = "waiting" /\ y.has = x.has /\ y.mask = x.mask
    BY DEF XimInv, TypeOK, App, Waiting
  <1>2. \A from: \A m, z: Asks(c, from, m, z) => x.st = from
    BY DEF Asks
  <1> HIDE DEF x, y
  <1>3. CASE Dial(c)
    <2>1. Asks(c, "idle", Request("DIAL"), y)
      BY <1>3 DEF Dial, y
    <2>2. Request("DIAL") \in ClientMsg /\ Request("DIAL").t = "DIAL"
      BY PlainRequest
    <2> QED BY <2>1, <2>2, <1>1, AsksKeeps DEF x
  <1>4. CASE AskForIc(c)
    <2> DEFINE w == IF c \in Late THEN NoClient ELSE c
               m == Asking("CREATE", w)
    <2>1. Asks(c, "open", m, y)
      BY <1>4 DEF AskForIc, Asking, y
    <2>2. m \in ClientMsg /\ m.t = "CREATE"
      BY PlainRequest
    <2> HIDE DEF m
    <2> QED BY <2>1, <2>2, <1>1, AsksKeeps DEF x
  <1>5. CASE SetValues(c)
    <2> DEFINE m == Asking("VALUES", c)
    <2>1. Asks(c, "open", m, x)
      BY <1>5 DEF SetValues, Asking, x
    <2>2. m \in ClientMsg /\ m.t = "VALUES" /\ "VALUES" \notin UpToken
      BY PlainRequest DEF UpToken
    <2> HIDE DEF m
    <2> QED BY <2>1, <2>2, <1>1, <1>2, AsksKeeps DEF x
  <1>6. CASE DropIc(c)
    <2>1. PICK i \in x.has: Asks(c, "open", About("DESTROY", i), Without(c, i))
      BY <1>6 DEF DropIc, x
    <2> DEFINE z == Without(c, i)
               m == About("DESTROY", i)
    <2>2. m \in ClientMsg /\ m.t = "DESTROY" /\ "DESTROY" \notin UpToken
      BY <1>1, ContextRequest DEF UpToken, AboutIc
    <2>3. z \in App /\ z.n = x.n /\ z.st = x.st /\ z.has = x.has \ {i} /\ z.mask = x.mask \ {i}
      BY <1>1 DEF App, Without, x
    <2>4. Asks(c, "open", m, z)
      BY <2>1
    <2> HIDE DEF m, z
    <2> QED BY <2>2, <2>3, <2>4, <1>1, <1>2, AsksKeeps DEF x
  <1>7. CASE MoveFocus(c) \/ PressTrigger(c)
    <2>1. PICK i \in x.has, t \in {"FOCUS", "UNFOCUS", "TRIGGER"}: Asks(c, "open", About(t, i), x)
      BY <1>7 DEF MoveFocus, PressTrigger, x
    <2> DEFINE m == About(t, i)
    <2>2. m \in ClientMsg /\ m.t = t /\ t \notin UpToken
      <3>1. t \in AboutIc /\ i \in IcId
        BY <1>1 DEF AboutIc
      <3> QED BY <3>1, ContextRequest DEF UpToken
    <2>3. Asks(c, "open", m, x)
      BY <2>1
    <2> HIDE DEF m
    <2> QED BY <2>2, <2>3, <1>1, <1>2, AsksKeeps DEF x, UpToken
  <1>8. CASE PressKey(c)
    <2>1. PICK i \in x.mask, k \in Keys: Asks(c, "open", Pressing(i, k), x)
      BY <1>8 DEF PressKey, Pressing, x
    <2> DEFINE m == Pressing(i, k)
    <2>2. m \in ClientMsg /\ m.t = "KEY" /\ "KEY" \notin UpToken
      BY <1>1, ContextRequest DEF UpToken, AboutIc
    <2>3. Asks(c, "open", m, x)
      BY <2>1
    <2> HIDE DEF m
    <2> QED BY <2>2, <2>3, <1>1, <1>2, AsksKeeps DEF x
  <1>9. CASE HangUp(c)
    <2>1. Asks(c, "open", Request("CLOSE"), y)
      BY <1>9 DEF HangUp, y
    <2>2. Request("CLOSE") \in ClientMsg /\ Request("CLOSE").t = "CLOSE"
      BY PlainRequest
    <2> QED BY <2>1, <2>2, <1>1, AsksKeeps DEF x
  <1> QED BY <1>3, <1>4, <1>5, <1>6, <1>7, <1>8, <1>9

---------------------------------------------------------------------------
(* The other steps, and the invariant.                                     *)

\* Of a process that has gone nothing is asked any more, and nothing it was
\* sent arrives.
LEMMA DieKeeps ==
    ASSUME XimInv, NEW c \in Client, Die(c)
    PROVE  /\ XimInv' /\ Stays(srv.icm, srv'.icm) /\ srv'.icm = srv.icm
           /\ srv'.done = srv.done /\ c \in running /\ running' = running \ {c}
  <1> DEFINE s == srv
             t == srv'
             a == app'
             r == running'
  <1>1. /\ Good(s) /\ up \in Ups /\ app \in [Client -> App] /\ running \subseteq Client
        /\ MappedConn(s) /\ \A d \in Client: ClientOK(s, up, app, running, d)
        /\ Waits(s) /\ c \in running /\ up' = up
        /\ r = running \ {c} /\ a = [app EXCEPT ![c] = ClientInit]
        /\ t = WithDown(s, c, <<>>)
    BY DEF XimInv, TypeOK, Proto, Die, WithDown
  <1> HIDE DEF s, t, a, r
  <1>2. /\ Good(t) /\ t.icm = s.icm /\ t.conn = s.conn /\ t.done = s.done /\ t.alive = s.alive
        /\ t.down[c] = <<>> /\ \A d \in Client \ {c}: t.down[d] = s.down[d]
        /\ Waits(t)
    <2> DEFINE q == <<>>
    <2>1. q \in Seq(DownMsg) /\ t = WithDown(s, c, q)
      BY <1>1
    <2> HIDE DEF q
    <2>2. /\ Good(t) /\ t.icm = s.icm /\ t.conn = s.conn /\ t.done = s.done /\ t.alive = s.alive
          /\ t.down[c] = q /\ \A d \in Client \ {c}: t.down[d] = s.down[d]
          /\ Waits(s) => Waits(t)
      BY <1>1, <2>1, DownSet
    <2> QED BY <1>1, <2>2 DEF q
  <1>3. a \in [Client -> App] /\ \A d \in Client \ {c}: a[d] = app[d]
    <2>1. ClientInit \in App
      BY DEF ClientInit, App
    <2> QED BY <1>1, <2>1
  <1>4. ClientOK(t, up, a, r, c)
    <2>1. c \notin r /\ ClientOK(s, up, app, running, c)
      BY <1>1
    <2>2. TakesTurns(t, up, a, r, c)
      BY <2>1, <1>2 DEF ClientOK, TakesTurns, AtMostOne, HasKind, NoConn
    <2>3. Numbered(t, up, a, r, c) /\ QueuesNumbered(t, up, a, r, c)
      BY <2>1, <1>2 DEF ClientOK, Numbered, QueuesNumbered, QueueNumbered
    <2>4. AnswerOwed(t, up, r, c) /\ MasksTold(t, a, r, c)
      BY <2>1 DEF AnswerOwed, MasksTold
    <2> QED BY <2>2, <2>3, <2>4 DEF ClientOK
  <1>5. ASSUME NEW d \in Client \ {c} PROVE ClientOK(t, up, a, r, d)
    <2>1. d \in r => d \in running
      BY <1>1
    <2>2. ClientOK(s, up, app, running, d) /\ MappedConn(s)
      BY <1>1, <1>5
    <2>3. t.icm = s.icm /\ t.conn = s.conn /\ t.done = s.done /\ t.down[d] = s.down[d]
      BY <1>2, <1>5
    <2>4. a[d] = app[d]
      BY <1>3, <1>5
    <2> QED BY <2>1, <2>2, <2>3, <2>4, OthersStill
  <1>6. Proto(srv', up', app', running') /\ Waits(srv')
    BY <1>1, <1>2, <1>4, <1>5 DEF Proto, MappedConn, t, a, r
  <1>7. TypeOK'
    BY <1>1, <1>2, <1>3 DEF TypeOK, t, a, r
  <1> QED BY <1>1, <1>2, <1>6, <1>7 DEF XimInv, Stays, s, t, r

\* A click changes neither the pool nor what anybody was told.
LEMMA ClickKeeps ==
    ASSUME XimInv, ClickEnglish
    PROVE  XimInv' /\ Moves /\ running' = running
  <1> DEFINE s == srv
             y == [s EXCEPT !.icm = ToggleEnglish(@)]
             t == srv'
  <1>1. /\ Good(s) /\ app \in [Client -> App] /\ Proto(s, up, app, running) /\ Waits(s)
        /\ t = Refresh(y) /\ up' = up /\ app' = app /\ running' = running
    BY DEF XimInv, TypeOK, ClickEnglish
  <1>2. Follows(s, y)
    BY <1>1, EnglishToggled
  <1> HIDE DEF s, t, y
  <1>3. Good(y)
    BY <1>2 DEF Follows, FollowsIn
  <1>4. Follows(y, t)
    BY <1>1, <1>3, Refreshed
  <1>5. Follows(s, t)
    BY <1>1, <1>2, <1>4, FollowsOn
  <1>6. t.alive => Proto(t, up, app, running) /\ Waits(t)
    BY <1>1, <1>5, Followed, WaitsFollowed
  <1>7. Good(t) /\ SamePool(s.icm, t.icm) /\ t.done = s.done
    BY <1>5 DEF Follows, FollowsIn
  <1>8. TypeOK' /\ (srv'.alive => Proto(srv', up', app', running') /\ Waits(srv'))
    BY <1>1, <1>6, <1>7 DEF XimInv, TypeOK, t
  <1>9. Moves
    BY <1>7, PoolStays DEF Moves, PoolMoves, s, t
  <1> QED BY <1>1, <1>8, <1>9 DEF XimInv

\* An X error ends the server and changes nothing else.
LEMMA ErrorKeeps ==
    ASSUME XimInv, XError
    PROVE  XimInv' /\ Moves /\ running' = running
  <1>1. /\ Good(srv) /\ srv' = [srv EXCEPT !.alive = FALSE]
        /\ up' = up /\ app' = app /\ running' = running
    BY DEF XimInv, TypeOK, XError
  <1>2. /\ srv'.alive = FALSE /\ srv' \in Srv /\ srv'.icm = srv.icm /\ srv'.done = srv.done
        /\ srv'.text = srv.text /\ srv'.shown = srv.shown /\ srv'.paused = srv.paused
    BY <1>1 DEF Good, Srv
  <1>3. Good(srv')
    BY <1>1, <1>2 DEF Good, Visible
  <1>4. XimInv'
    BY <1>1, <1>2, <1>3 DEF XimInv, TypeOK
  <1>5. Moves
    BY <1>1, <1>2, PoolStays DEF Moves, PoolMoves, SamePool
  <1> QED BY <1>1, <1>4, <1>5

\* The server before the first request.
LEMMA Initially == Init => XimInv
  <1> SUFFICES ASSUME Init PROVE XimInv
    OBVIOUS
  <1>1. /\ srv.icm = IcmgrInit /\ srv.alive = TRUE
        /\ srv.conn = [id \in ConnId |-> FreeConn]
        /\ srv.down = [c \in Client |-> <<>>] /\ srv.done = [c \in Client |-> 0]
        /\ srv.text = FALSE /\ srv.shown = FALSE /\ srv.paused = FALSE
    BY DEF Init
  <1>2. PoolOK(IcmgrInit)
    BY InitialPool
  <1>3. FreeConn \in Conn /\ FreeConn.owner = NoClient /\ FreeConn.pending = <<>>
    BY DEF FreeConn, Conn
  <1>4. srv \in Srv
    <2>1. srv.icm \in Icm
      BY <1>1, <1>2 DEF PoolOK
    <2>2. srv.conn \in [ConnId -> Conn]
      BY <1>1, <1>3
    <2>3. srv.down \in [Client -> Seq(DownMsg)] /\ srv.done \in [Client -> Nat]
      BY <1>1
    <2> HIDE DEF Icm, Conn, IcmgrInit, FreeConn, DownMsg, ConnId
    <2> QED BY <2>1, <2>2, <2>3 DEF Init, Srv
  <1>5. Good(srv)
    BY <1>1, <1>2, <1>4 DEF Good, Visible
  <1>6. up \in Ups /\ up = [c \in Client |-> <<>>]
    BY DEF Init, Ups
  <1>7. app \in [Client -> App] /\ app = [c \in Client |-> ClientInit] /\ running = Client
    BY DEF Init, ClientInit, App
  <1>8. TypeOK
    BY <1>5, <1>6, <1>7 DEF TypeOK
  <1>9. MappedConn(srv) /\ Waits(srv)
    BY <1>1, <1>3 DEF MappedConn, Waits, IcmgrInit
  <1>10. ASSUME NEW c \in Client PROVE ClientOK(srv, up, app, running, c)
    <2>1. /\ up[c] = <<>> /\ srv.down[c] = <<>> /\ srv.done[c] = 0
          /\ app[c].st = "idle" /\ app[c].n = 0 /\ app[c].has = {}
      BY <1>1, <1>6, <1>7 DEF ClientInit
    <2>2. \A id \in ConnId: srv.conn[id].owner # c
      BY <1>1, <1>3, IcAssumption
    <2>3. TakesTurns(srv, up, app, running, c)
      BY <2>1, <2>2 DEF TakesTurns, AtMostOne, HasKind, NoConn, NoToken
    <2>4. Numbered(srv, up, app, running, c)
      BY <2>1 DEF Numbered, Increasing, Beyond, UpTo
    <2>5. QueuesNumbered(srv, up, app, running, c) /\ AnswerOwed(srv, up, running, c)
      BY <2>2 DEF QueuesNumbered, AnswerOwed
    <2>6. MasksTold(srv, app, running, c)
      BY <1>1 DEF MasksTold, IcmgrInit
    <2> QED BY <2>3, <2>4, <2>5, <2>6 DEF ClientOK
  <1> QED BY <1>8, <1>9, <1>10 DEF XimInv, Proto

\* Every step of the system, and what it does to the pool and to the keys.
LEMMA Steps ==
    ASSUME XimInv, Next
    PROVE  /\ XimInv'
           /\ \/ Moves /\ running' = running
              \/ /\ srv'.icm = srv.icm /\ srv'.done = srv.done
                 /\ \E c \in running: running' = running \ {c}
  <1>1. CASE ClickEnglish
    BY <1>1, ClickKeeps
  <1>2. ASSUME NEW c \in Client, Serve(c) PROVE XimInv' /\ Moves /\ running' = running
    BY <1>2, ServeKeeps
  <1>3. ASSUME NEW c \in Client, Read(c) PROVE XimInv' /\ Moves /\ running' = running
    BY <1>3, ReadKeeps
  <1>4. ASSUME NEW c \in Client, Die(c)
        PROVE  /\ XimInv' /\ srv'.icm = srv.icm /\ srv'.done = srv.done
               /\ c \in running /\ running' = running \ {c}
    BY <1>4, DieKeeps
  <1>5. ASSUME NEW c \in Client,
               \/ Dial(c) \/ AskForIc(c) \/ SetValues(c) \/ DropIc(c) \/ MoveFocus(c)
               \/ PressTrigger(c) \/ PressKey(c) \/ HangUp(c)
        PROVE  XimInv' /\ Moves /\ running' = running
    BY <1>5, ClientKeeps
  <1>6. CASE XError
    BY <1>6, ErrorKeeps
  <1> QED BY <1>1, <1>2, <1>3, <1>4, <1>5, <1>6 DEF Next

\* Steps of nobody.
LEMMA Stutters == ASSUME XimInv, UNCHANGED vars PROVE XimInv'
  BY DEF vars, XimInv, TypeOK

---------------------------------------------------------------------------
(* What holds of the server.                                               *)

\* The invariant: the types, the pool, the text that can be seen, the turns
\* clients and server take, the numbers of the keys, the answers owed and
\* the masks told, after any number of requests of any number of clients,
\* whenever their processes end.
THEOREM XimInvariant == Spec => []XimInv
  <1>1. XimInv /\ [Next]_vars => XimInv'
    BY Steps, Stutters
  <1> QED BY <1>1, Initially, PTL DEF Spec

\* Every context is mapped or on the free stack, once, and the current one
\* is mapped, through every order of creations, destructions and
\* collections (ic.c:174-221).
THEOREM ContextsStayAccountedFor == Spec => []ContextsAccountedFor
  <1>1. XimInv => ContextsAccountedFor
    BY DEF XimInv, TypeOK, Good, PoolOK, ContextsAccountedFor
  <1> QED BY <1>1, XimInvariant, PTL

\* The typed text is on the screen or will be shown again
\* (sunpinyin_preedit.cc:127-177).
THEOREM TextStaysVisible == Spec => []TextCanBeSeen
  <1>1. XimInv => TextCanBeSeen
    BY DEF XimInv, TypeOK, Good, Visible, TextCanBeSeen
  <1> QED BY <1>1, XimInvariant, PTL

\* A key waits in the queue of a connection only while its client owes the
\* answer that starts the queue again (i18nPtHdr.c:1600-1658, 1742).
THEOREM NoKeyWaitsForNothing == Spec => []WaitingKeysAreOwed
  <1>1. XimInv => WaitingKeysAreOwed
    <2> SUFFICES ASSUME XimInv, NEW id \in ConnId, NEW c \in running,
                        srv.alive, srv.conn[id].owner = c
                 PROVE  /\ srv.conn[id].pending # <<>> => srv.conn[id].sync
                        /\ srv.conn[id].sync =>
                             \/ \E k \in DOMAIN srv.down[c]: srv.down[c][k].t = "FORWARD"
                             \/ \E k \in DOMAIN up[c]: up[c][k].t = "SYNC_REPLY"
      BY DEF WaitingKeysAreOwed
    <2>1. Waits(srv) /\ AnswerOwed(srv, up, running, c)
      BY DEF XimInv, TypeOK, Proto, ClientOK
    <2> QED BY <2>1 DEF Waits, AnswerOwed, HasKind
  <1> QED BY <1>1, XimInvariant, PTL

\* A client gets all keys of a context exactly while the context is
\* enabled, once it has read what it was told (xim.c:186,
\* xim_trigger.c:66).
THEOREM MasksFollow == Spec => []MaskFollowsEnabled
  <1>1. XimInv => MaskFollowsEnabled
    <2> SUFFICES ASSUME XimInv, NEW c \in running, srv.alive, NEW i \in app[c].has,
                        srv.icm.map[i], srv.icm.ic[i].conn = ConnOf(c)
                 PROVE  srv.icm.ic[i].enabled = LastMask(c, i)
      BY DEF MaskFollowsEnabled
    <2>1. /\ c \in Client /\ i \in IcId /\ MappedConn(srv)
          /\ MasksTold(srv, app, running, c)
      BY DEF XimInv, TypeOK, App, Proto, ClientOK
    <2>2. ConnOf(c) \in ConnId
      BY <2>1 DEF MappedConn
    <2>3. srv.conn[srv.icm.ic[i].conn].owner = c
      <3>1. ConnOf(c) # 0
        BY <2>2 DEF ConnId
      <3> QED BY <3>1, ConnOfClient
    <2>4. KnowsOf(srv, app, c, i)
      BY DEF KnowsOf
    <2>5. srv.icm.ic[i].enabled = Masked(srv.down[c], i, i \in app[c].mask)
      BY <2>1, <2>3, <2>4 DEF MasksTold
    <2> QED BY <2>5 DEF Masked, LastMask
  <1> QED BY <1>1, XimInvariant, PTL

\* The keys of a client are handled in the order they were pressed, none
\* twice, whichever of them had to wait (i18nPtHdr.c:1600-1658).
THEOREM KeysStayInOrder == Spec => KeysInOrder
  <1>1. ASSUME XimInv, [Next]_vars
        PROVE  [\A c \in Client: srv'.done[c] # srv.done[c] => srv'.done[c] > srv.done[c]]_vars
    BY <1>1, Steps DEF Moves, vars
  <1>2. XimInv /\ [Next]_vars
          => [\A c \in Client: srv'.done[c] # srv.done[c] => srv'.done[c] > srv.done[c]]_vars
    BY <1>1
  <1> QED BY <1>2, XimInvariant, PTL DEF Spec, KeysInOrder

\* The pool of the server implements IcPool: no identity is handed out
\* twice, no context recorded for the window of a running process whose pid
\* has 16 bits is collected, and the focus is a context in use.
THEOREM PoolImplemented == Spec => ImplementsPool
  <1>1. Init => Pool!Init
    BY DEF Init, Pool!Init, IcmgrInit, ResetIc
  <1>2. ASSUME XimInv, XimInv', Next PROVE [Pool!Next]_(Pool!vars)
    <2> DEFINE m == srv.icm
               n == srv'.icm
    <2>0. n.cur \in {i \in IcId: n.map[i]} \cup {NoIc}
      BY <1>2 DEF XimInv, TypeOK, Good, PoolOK, Icm
    <2>1. ASSUME Stays(m, n), running' = running PROVE Pool!Focus
      BY <2>0, <2>1 DEF Pool!Focus, Stays, InUse, Windows
    <2>2. ASSUME Destroys(m, n), running' = running PROVE Pool!Destroy
      BY <2>2 DEF Pool!Destroy, Destroys, InUse, Windows
    <2>3. ASSUME Creates(m, n, running), running' = running PROVE Pool!Create
      <3>1. PICK R \in SUBSET Unsure(m, running), w \in Client \cup {NoClient}, i \in IcId:
              /\ n.cur = IF R = {} THEN m.cur ELSE NoIc
              /\ i \notin InUse(m) \ R
              /\ InUse(n) = (InUse(m) \ R) \cup {i}
              /\ Windows(n) = [j \in IcId |-> IF j = i THEN w
                                              ELSE IF j \in R THEN NoClient ELSE Windows(m)[j]]
        BY <2>3 DEF Creates
      <3>2. Unsure(m, running) = Pool!Unsure
        BY DEF Unsure, Pool!Unsure, InUse, Windows
      <3>3. R \in SUBSET Pool!Unsure /\ Pool!Reclaimed(R)
        <4>1. R \in SUBSET Pool!Unsure
          BY <3>1, <3>2
        <4>2. srv'.icm.cur = IF R = {} THEN srv.icm.cur ELSE NoIc
          BY <3>1
        <4> QED BY <4>1, <4>2 DEF Pool!Reclaimed
      <3> DEFINE P == [j \in IcId |-> IF j = i THEN w
                                      ELSE IF j \in R THEN NoClient
                                      ELSE [l \in IcId |-> srv.icm.ic[l].win][j]]
      <3>4. /\ i \notin {l \in IcId: srv.icm.map[l]} \ R
            /\ {l \in IcId: srv'.icm.map[l]} = ({l \in IcId: srv.icm.map[l]} \ R) \cup {i}
            /\ [l \in IcId |-> srv'.icm.ic[l].win] = P
        BY <3>1 DEF InUse, Windows
      <3> QED BY <2>3, <3>3, <3>4 DEF Pool!Create
    <2>4. ASSUME srv'.icm = srv.icm, NEW c \in running, running' = running \ {c}
          PROVE  Pool!Leave
      BY <2>4 DEF Pool!Leave
    <2>5. Pool!Next
      BY <1>2, <2>1, <2>2, <2>3, <2>4, Steps DEF Pool!Next, Moves, PoolMoves
    <2> QED BY <2>5
  <1>3. UNCHANGED vars => UNCHANGED Pool!vars
    BY DEF vars, Pool!vars
  <1>4. XimInv /\ XimInv' /\ [Next]_vars => [Pool!Next]_(Pool!vars)
    BY <1>2, <1>3
  <1> QED BY <1>1, <1>4, XimInvariant, PTL DEF Spec, ImplementsPool, Pool!Spec
=============================================================================
