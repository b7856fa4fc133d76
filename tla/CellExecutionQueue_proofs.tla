---------------------- MODULE CellExecutionQueue_proofs ----------------------
(***************************************************************************)
(* Theorems about CellExecutionQueue, for every number of cells, pieces of *)
(* code, queues and disruptions, after the facts about sequences they rest *)
(* on.  The last of them, that no execution is lost, that a queue that can *)
(* be added to is served, and that a stopped queue starts no more cells,   *)
(* hold because of one another and are proved together.                    *)
(***************************************************************************)
EXTENDS CellExecutionQueue, FiniteSetTheorems, WellFoundedInduction, TLAPS

-----------------------------------------------------------------------------
(* What the operators on sequences return.                                  *)

(* Every non-empty set of naturals has a least element: the form in which   *)
(* induction is used below.                                                 *)
LEMMA LeastNat ==
    ASSUME NEW T \in SUBSET Nat, T # {}
    PROVE  \E x \in T : \A y \in T : x <= y
<1> DEFINE R == OpToRel(<, Nat)
<1>1. \A x, y \in Nat : <<y, x>> \in R <=> y < x
  BY DEF OpToRel
<1>2. IsWellFoundedOn(R, Nat)
  BY NatLessThanWellFounded
<1> HIDE DEF R
<1>3. PICK x \in T : \A y \in T : ~ (<<y, x>> \in R)
  BY <1>2, WFMin
<1>4. \A y \in T : ~ (y < x)
  BY <1>1, <1>3
<1>5. \A y \in T : x <= y
  BY <1>4
<1> QED BY <1>5

(* What RemoveAt leaves at each position.                                   *)
LEMMA RemoveAtItems ==
    ASSUME NEW S, NEW s \in Seq(S), NEW m \in 1..Len(s)
    PROVE  /\ RemoveAt(s, m) \in Seq(S)
           /\ Len(RemoveAt(s, m)) = Len(s) - 1
           /\ \A k \in 1..(Len(s) - 1) :
                RemoveAt(s, m)[k] = IF k < m THEN s[k] ELSE s[k+1]
<1> DEFINE a == SubSeq(s, 1, m-1)
           b == SubSeq(s, m+1, Len(s))
           t == a \o b
<1>1. a \in Seq(S) /\ Len(a) = m-1 /\ \A k \in 1..(m-1) : a[k] = s[k]
  OBVIOUS
<1>2. b \in Seq(S) /\ Len(b) = Len(s)-m /\ \A k \in 1..(Len(s)-m) : b[k] = s[k+m]
  OBVIOUS
<1> HIDE DEF a, b
<1>3. t \in Seq(S) /\ Len(t) = Len(s) - 1
  <2>1. a \in Seq(S) /\ b \in Seq(S)
    BY <1>1, <1>2
  <2>2. t \in Seq(S) /\ Len(t) = Len(a) + Len(b)
    BY <2>1
  <2> HIDE DEF t
  <2> QED BY <1>1, <1>2, <2>2
<1>4. ASSUME NEW k \in 1..Len(t) PROVE t[k] = IF k < m THEN s[k] ELSE s[k+1]
  <2>1. CASE k < m
    BY <1>1, <1>2, <1>3, <2>1
  <2>2. CASE k >= m
    <3>1. t[k] = b[k - (m-1)] /\ k - (m-1) \in 1..(Len(s)-m)
      BY <1>1, <1>2, <1>3, <2>2
    <3> QED BY <3>1, <1>2, <2>2
  <2> QED BY <2>1, <2>2
<1> HIDE DEF t
<1>5. RemoveAt(s, m) = t
  BY DEF RemoveAt, t, a, b
<1> QED BY <1>3, <1>4, <1>5

(* RemoveFirst removes at a position, unless there is nothing to remove.    *)
LEMMA RemoveFirstIsAt ==
    ASSUME NEW S, NEW s \in Seq(S), NEW e
    PROVE  \/ RemoveFirst(s, e) = s
           \/ \E m \in 1..Len(s) : s[m] = e /\ RemoveFirst(s, e) = RemoveAt(s, m)
<1> DEFINE I == {i \in 1..Len(s) : s[i] = e}
<1>1. CASE I = {}
  <2>1. RemoveFirst(s, e) = s
    BY <1>1 DEF RemoveFirst
  <2> QED BY <2>1
<1>2. CASE I # {}
  <2>1. PICK i \in I : \A j \in I : i <= j
    <3>1. I \in SUBSET Nat
      OBVIOUS
    <3> HIDE DEF I
    <3> QED BY <1>2, <3>1, LeastNat
  <2>2. Min(I) \in I
    BY <2>1 DEF Min
  <2>3. SelectInSeq(s, LAMBDA v : v = e) = Min(I)
    BY <1>2 DEF SelectInSeq
  <2>4. RemoveFirst(s, e) = RemoveAt(s, Min(I))
    BY <1>2, <2>3 DEF RemoveFirst
  <2>5. Min(I) \in 1..Len(s) /\ s[Min(I)] = e
    BY <2>2
  <2> HIDE DEF I
  <2> QED BY <2>4, <2>5
<1> QED BY <1>1, <1>2

\* The item of t at j is in s, and what is before it there, but for e, is before
\* it in t.
KeepsBefore(t, j, s, e) ==
    \E k \in 1..Len(s) :
        /\ t[j] = s[k]
        /\ \A i \in 1..(k-1) : s[i] # e => \E h \in 1..(j-1) : t[h] = s[i]

(* indexOf and splice: what is left was there, with everything that was     *)
(* before it but the item removed still before it.                          *)
LEMMA RemoveFirstOrder ==
    ASSUME NEW S, NEW s \in Seq(S), NEW e, NEW j \in 1..Len(RemoveFirst(s, e))
    PROVE  KeepsBefore(RemoveFirst(s, e), j, s, e)
<1>1. CASE RemoveFirst(s, e) = s
  BY <1>1 DEF KeepsBefore
<1>2. ASSUME NEW m \in 1..Len(s), s[m] = e, RemoveFirst(s, e) = RemoveAt(s, m)
      PROVE  KeepsBefore(RemoveFirst(s, e), j, s, e)
  <2> DEFINE t == RemoveAt(s, m)
  <2>1. /\ Len(t) = Len(s) - 1 /\ RemoveFirst(s, e) = t
        /\ \A k \in 1..(Len(s) - 1) : t[k] = IF k < m THEN s[k] ELSE s[k+1]
    BY <1>2, RemoveAtItems
  <2> HIDE DEF t
  <2>2. j \in 1..(Len(s) - 1) /\ Len(s) \in Nat
    BY <2>1
  <2>3. CASE j < m
    <3>1. t[j] = s[j] /\ j \in 1..Len(s)
      BY <2>1, <2>2, <2>3
    <3>2. ASSUME NEW i \in 1..(j-1) PROVE t[i] = s[i]
      BY <2>1, <2>2, <2>3
    <3> QED BY <2>1, <3>1, <3>2 DEF KeepsBefore
  <2>4. CASE j >= m
    <3>1. t[j] = s[j+1] /\ j+1 \in 1..Len(s)
      BY <2>1, <2>2, <2>4
    <3>2. ASSUME NEW i \in 1..((j+1)-1), s[i] # e
          PROVE  \E h \in 1..(j-1) : t[h] = s[i]
      <4>1. CASE i < m
        <5>1. i \in 1..(j-1) /\ i \in 1..(Len(s) - 1)
          BY <2>2, <2>4, <4>1
        <5>2. t[i] = s[i]
          BY <2>1, <4>1, <5>1
        <5> QED BY <5>1, <5>2
      <4>2. CASE i > m
        <5>1. i-1 \in 1..(j-1) /\ t[i-1] = s[i]
          BY <2>1, <2>2, <2>4, <4>2
        <5> QED BY <5>1
      <4>3. i # m
        BY <1>2, <3>2
      <4> QED BY <4>1, <4>2, <4>3
    <3> QED BY <2>1, <3>1, <3>2 DEF KeepsBefore
  <2> QED BY <2>2, <2>3, <2>4
<1> QED BY <1>1, <1>2, RemoveFirstIsAt

(* indexOf and splice: removing an item keeps all the others.               *)
LEMMA RemoveFirstType ==
    ASSUME NEW S, NEW s \in Seq(S), NEW e
    PROVE  /\ RemoveFirst(s, e) \in Seq(S)
           /\ ToSet(RemoveFirst(s, e)) \subseteq ToSet(s)
           /\ ToSet(s) \subseteq ToSet(RemoveFirst(s, e)) \cup {e}
<1>1. CASE RemoveFirst(s, e) = s
  BY <1>1
<1>2. ASSUME NEW m \in 1..Len(s), s[m] = e, RemoveFirst(s, e) = RemoveAt(s, m)
      PROVE  /\ RemoveFirst(s, e) \in Seq(S)
             /\ ToSet(RemoveFirst(s, e)) \subseteq ToSet(s)
             /\ ToSet(s) \subseteq ToSet(RemoveFirst(s, e)) \cup {e}
  <2> DEFINE t == RemoveAt(s, m)
  <2>1. /\ t \in Seq(S) /\ Len(t) = Len(s) - 1 /\ RemoveFirst(s, e) = t
        /\ \A k \in 1..(Len(s) - 1) : t[k] = IF k < m THEN s[k] ELSE s[k+1]
    BY <1>2, RemoveAtItems
  <2> HIDE DEF t
  <2>2. ASSUME NEW k \in 1..Len(s), s[k] # e
        PROVE  \E j \in 1..Len(t) : t[j] = s[k]
    <3>1. CASE k < m
      <4>1. k \in 1..Len(t) /\ t[k] = s[k]
        BY <2>1, <3>1
      <4> QED BY <4>1
    <3>2. CASE k > m
      <4>1. k-1 \in 1..Len(t) /\ t[k-1] = s[k]
        BY <2>1, <3>2
      <4> QED BY <4>1
    <3> QED BY <1>2, <2>2, <3>1, <3>2
  <2>3. ToSet(t) \subseteq ToSet(s)
    BY <2>1 DEF ToSet
  <2>4. ToSet(s) \subseteq ToSet(t) \cup {e}
    BY <2>2 DEF ToSet
  <2> QED BY <2>1, <2>3, <2>4
<1> QED BY <1>1, <1>2, RemoveFirstIsAt

(* The items of a sequence, of one that was added to, of its tail.          *)
LEMMA ToSetType ==
    ASSUME NEW S, NEW s \in Seq(S)
    PROVE  /\ ToSet(s) \subseteq S
           /\ s # <<>> => Head(s) \in ToSet(s) /\ Tail(s) \in Seq(S) /\ Len(s) > 0
           /\ s \in Seq(ToSet(s))
  BY DEF ToSet

(* push: the item added joins the others.                                   *)
LEMMA ToSetAppend ==
    ASSUME NEW S, NEW s \in Seq(S), NEW e \in S
    PROVE  /\ Append(s, e) \in Seq(S)
           /\ ToSet(Append(s, e)) = ToSet(s) \cup {e}
<1> DEFINE t == Append(s, e)
<1>1. t \in Seq(S) /\ Len(t) = Len(s) + 1 /\ t[Len(s) + 1] = e
      /\ \A i \in 1..Len(s) : t[i] = s[i]
  OBVIOUS
<1> HIDE DEF t
<1>2. ToSet(t) \subseteq ToSet(s) \cup {e}
  BY <1>1 DEF ToSet
<1>3. ToSet(s) \subseteq ToSet(t)
  BY <1>1 DEF ToSet
<1>4. e \in ToSet(t)
  BY <1>1 DEF ToSet
<1> QED BY <1>1, <1>2, <1>3, <1>4 DEF t

(* push of several: the items of both.                                      *)
LEMMA ToSetConcat ==
    ASSUME NEW S, NEW s \in Seq(S), NEW t \in Seq(S)
    PROVE  /\ s \o t \in Seq(S)
           /\ ToSet(s \o t) = ToSet(s) \cup ToSet(t)
<1> DEFINE u == s \o t
<1>1. u \in Seq(S) /\ Len(u) = Len(s) + Len(t)
  OBVIOUS
<1>2. \A i \in 1..Len(s) : u[i] = s[i]
  OBVIOUS
<1>3. \A i \in 1..Len(t) : u[i + Len(s)] = t[i]
  OBVIOUS
<1> HIDE DEF u
<1>4. ToSet(u) \subseteq ToSet(s) \cup ToSet(t)
  <2> SUFFICES ASSUME NEW i \in 1..Len(u) PROVE u[i] \in ToSet(s) \cup ToSet(t)
    BY <1>1 DEF ToSet
  <2>1. CASE i <= Len(s)
    BY <1>2, <2>1 DEF ToSet
  <2>2. CASE i > Len(s)
    <3>1. i - Len(s) \in 1..Len(t) /\ u[i] = t[i - Len(s)]
      BY <1>1, <1>3, <2>2
    <3> QED BY <3>1 DEF ToSet
  <2> QED BY <2>1, <2>2
<1>5. ToSet(s) \subseteq ToSet(u)
  BY <1>1, <1>2 DEF ToSet
<1>6. ToSet(t) \subseteq ToSet(u)
  <2> SUFFICES ASSUME NEW i \in 1..Len(t) PROVE t[i] \in ToSet(u)
    BY DEF ToSet
  <2>1. i + Len(s) \in 1..Len(u)
    BY <1>1
  <2>2. u[i + Len(s)] = t[i] /\ i + Len(s) \in DOMAIN u
    BY <2>1, <1>1, <1>3
  <2> QED BY <2>2 DEF ToSet
<1> QED BY <1>1, <1>4, <1>5, <1>6 DEF u

(* A sequence over a set is one over every larger set.                      *)
LEMMA SeqWiden ==
    ASSUME NEW S, NEW T, S \subseteq T, NEW s \in Seq(S)
    PROVE  s \in Seq(T)
  OBVIOUS

-----------------------------------------------------------------------------
(* The helpers the actions are built from.                                  *)

(* The code items of a queue are some of its items, and code.               *)
LEMMA CodeItemsType ==
    ASSUME NEW s \in Seq(Execs)
    PROVE  CodeItems(s) \in Seq(ToSet(s) \cap CodeExecs)
<1> DEFINE C == ToSet(s) \cap CodeExecs
           N == Len(s)
           Step(f, n) == IF n = 0 THEN <<>>
                         ELSE IF IsCode(s[n]) THEN Append(f[n-1], s[n])
                         ELSE f[n-1]
           Upto(n) == \E f \in [0..n -> Seq(C)] : \A i \in 0..n : f[i] = Step(f, i)
           F == CHOOSE f : f = [n \in 0..N |-> Step(f, n)]
<1>0. N \in Nat /\ \A n \in 1..N : IsCode(s[n]) => s[n] \in C
  BY DEF ToSet, IsCode
<1>1. Upto(N)
  <2> DEFINE B == {n \in 0..N : ~Upto(n)}
  <2>1. CASE B = {}
    <3> HIDE DEF Upto
    <3> QED BY <2>1, <1>0
  <2>2. CASE B # {}
    <3>1. PICK b \in B : \A n \in B : b <= n
      <4>1. B \in SUBSET Nat
        BY <1>0
      <4> HIDE DEF B
      <4> QED BY <2>2, <4>1, LeastNat
    <3>2. CASE b = 0
      <4> DEFINE g == [i \in 0..0 |-> <<>>]
      <4>1. g \in [0..0 -> Seq(C)] /\ \A i \in 0..0 : g[i] = Step(g, i)
        OBVIOUS
      <4> QED BY <4>1, <3>1, <3>2
    <3>3. CASE b # 0
      <4>1. b \in 1..N /\ b-1 \in 0..N /\ b-1 \notin B
        <5> HIDE DEF Upto
        <5> QED BY <3>1, <3>3, <1>0
      <4>2. PICK f \in [0..(b-1) -> Seq(C)] : \A i \in 0..(b-1) : f[i] = Step(f, i)
        BY <4>1
      <4> DEFINE g == [i \in 0..b |-> IF i < b THEN f[i] ELSE Step(f, b)]
      <4>3. Step(f, b) \in Seq(C)
        <5>1. f[b-1] \in Seq(C)
          BY <4>1, <4>2
        <5> HIDE DEF C
        <5> QED BY <5>1, <4>1, <1>0, <3>3
      <4>4. g \in [0..b -> Seq(C)]
        <5> HIDE DEF C, Step
        <5> QED BY <4>1, <4>2, <4>3
      <4>5. ASSUME NEW i \in 0..b PROVE g[i] = Step(g, i)
        <5>1. CASE i = b
          <6>1. g[b-1] = f[b-1]
            BY <4>1
          <6> QED BY <5>1, <6>1, <4>1, <3>3
        <5>2. CASE i < b
          <6>1. g[i] = f[i] /\ f[i] = Step(f, i)
            <7> HIDE DEF Step, C
            <7> QED BY <4>1, <4>2, <5>2
          <6>2. i # 0 => g[i-1] = f[i-1]
            BY <4>1, <5>2
          <6> HIDE DEF g
          <6> QED BY <6>1, <6>2
        <5> QED BY <5>1, <5>2, <4>1
      <4>6. Upto(b)
        BY <4>4, <4>5
      <4> QED BY <4>6, <3>1
    <3> QED BY <3>2, <3>3
  <2> QED BY <2>1, <2>2
<1>2. F = [n \in 0..N |-> Step(F, n)]
  <2>1. PICK f \in [0..N -> Seq(C)] : \A i \in 0..N : f[i] = Step(f, i)
    BY <1>1
  <2>2. f = [n \in 0..N |-> Step(f, n)]
    BY <2>1
  <2> QED BY <2>2
<1>3. \A n \in 0..N : F[n] \in Seq(C)
  <2> HIDE DEF F
  <2> DEFINE B == {n \in 0..N : F[n] \notin Seq(C)}
  <2>1. CASE B = {}
    BY <2>1
  <2>2. CASE B # {}
    <3>1. PICK b \in B : \A n \in B : b <= n
      <4>1. B \in SUBSET Nat
        BY <1>0
      <4> HIDE DEF B
      <4> QED BY <2>2, <4>1, LeastNat
    <3>2. F[b] = Step(F, b)
      BY <1>2, <3>1
    <3>3. b # 0
      <4>1. <<>> \in Seq(C)
        OBVIOUS
      <4> HIDE DEF C
      <4> QED BY <4>1, <3>1, <3>2
    <3>4. b \in 1..N /\ F[b-1] \in Seq(C)
      BY <3>1, <3>3, <1>0
    <3> HIDE DEF C
    <3>5. Step(F, b) \in Seq(C)
      BY <3>3, <3>4, <1>0
    <3> QED BY <3>1, <3>2, <3>5
  <2> QED BY <2>1, <2>2
<1>4. CodeItems(s) = F[N]
  BY DEF CodeItems
<1> QED BY <1>0, <1>3, <1>4

-----------------------------------------------------------------------------
(* Types.  First the effects several actions share, then the actions.       *)

(* Settling executions (the completions of cellExecution.ts) keeps the types. *)
LEMMA SettleType ==
    ASSUME TypeOK, NEW S, NEW outcome \in {"resolved", "rejected"}, Settle(S, outcome)
    PROVE  /\ status' \in [Execs -> Statuses]
           /\ shown' \in [CellExecs -> {"none", "pending", "running", "ended"}]
<1>1. status' \in [Execs -> Statuses]
  BY DEF Settle, TypeOK, Statuses
<1>2. shown' \in [CellExecs -> {"none", "pending", "running", "ended"}]
  BY DEF Settle, Ended, TypeOK
<1> QED BY <1>1, <1>2

(* cancel() up to its await keeps the types of all it assigns.              *)
LEMMA CancelItemsType ==
    ASSUME TypeOK, NEW T, \A q \in DOMAIN T : T[q] \subseteq Execs,
           NEW caller \in Callers, NEW forced \in BOOLEAN,
           CancelItems(T, caller, forced)
    PROVE  /\ failed' \in [QueueIds -> BOOLEAN]
           /\ cancels' \in [QueueIds -> [Callers -> [call : BOOLEAN, awaits : SUBSET Execs]]]
           /\ status' \in [Execs -> Statuses]
           /\ shown' \in [CellExecs -> {"none", "pending", "running", "ended"}]
           /\ started' \subseteq Execs
           /\ cancelled' \subseteq Execs
           /\ interrupting' \subseteq CodeExecs
<1> DEFINE all  == UNION {T[q] : q \in DOMAIN T}
           wait == {e \in all : MustWait(e, forced)}
           now  == {e \in all : ~Settled(e)} \ wait
<1>1. /\ failed' = Stopped(DOMAIN T)
      /\ Settle(now, "resolved")
      /\ cancelled' = cancelled \cup now
      /\ interrupting' = interrupting \cup (wait \cap CodeExecs)
      /\ cancels' = [q \in QueueIds |->
                       IF q \in DOMAIN T
                       THEN [cancels[q] EXCEPT ![caller] = Awaiting(T[q] \cap wait)]
                       ELSE cancels[q]]
      /\ UNCHANGED started
  BY DEF CancelItems
<1>2. all \subseteq Execs
  OBVIOUS
<1>3. now \subseteq Execs /\ wait \subseteq Execs
  BY <1>2
<1> HIDE DEF all, wait, now
<1>4. failed' \in [QueueIds -> BOOLEAN]
  BY <1>1 DEF Stopped, TypeOK
<1>5. cancels' \in [QueueIds -> [Callers -> [call : BOOLEAN, awaits : SUBSET Execs]]]
  BY <1>1 DEF TypeOK, Awaiting
<1>6. /\ status' \in [Execs -> Statuses]
      /\ shown' \in [CellExecs -> {"none", "pending", "running", "ended"}]
  BY <1>1, SettleType
<1> QED BY <1>1, <1>3, <1>4, <1>5, <1>6 DEF TypeOK

(* What a queue holds are executions.                                       *)
LEMMA ItemsType ==
    ASSUME TypeOK, NEW q \in QueueIds
    PROVE  /\ ToSet(items[q]) \subseteq Execs
           /\ CellsIn(items[q]) \subseteq Execs
           /\ items[q] # <<>> => Head(items[q]) \in Execs
<1>1. items[q] \in Seq(Execs)
  BY DEF TypeOK
<1> QED BY <1>1, ToSetType DEF CellsIn

(* enqueue() keeps the types, whatever the wrapper of the cell.             *)
LEMMA PushType ==
    ASSUME TypeOK, NEW e \in Execs, NEW q \in QueueIds, Push(e, q),
           wrapper' \in [CellExecs -> CellExecs],
           shown' \in [CellExecs -> {"none", "pending", "running", "ended"}]
    PROVE  TypeOK'
<1>1. {f \in Execs : home[f] = q} \in SUBSET Execs /\ IsFiniteSet(Execs)
  BY ConstantsAssumption, FS_Union DEF Execs
<1>2. Cardinality({f \in Execs : home[f] = q}) \in Nat
  BY <1>1, FS_Subset, FS_CardinalityType
<1>3. ticket' \in [Execs -> Nat]
  BY <1>2 DEF Push, TypeOK
<1>4. items' \in [QueueIds -> Seq(Execs)]
  BY DEF Push, TypeOK
<1>5. pc' \in [QueueIds -> PCs] /\ (\A r \in QueueIds : pc'[r] \in {"skip", "run"} => cur'[r] \in Execs)
  BY DEF Push, TypeOK, PCs
<1>6. status' \in [Execs -> Statuses] /\ home' \in [Execs -> QueueIds \cup {None}]
  BY DEF Push, TypeOK, Statuses
<1>7. /\ docQueue' \in QueueIds \cup {None}
      /\ UNCHANGED <<restart, restartQueue, failed, cur, sawClosed, cancels, started,
                     cancelled, interrupting, deleted, closed, disruptions,
                     requests, busy, dead>>
  BY DEF Push, docVars, kernelVars
<1> QED BY <1>3, <1>4, <1>5, <1>6, <1>7 DEF TypeOK

(* cancel() called by the loop, at which it is then suspended.              *)
LEMMA LoopCancelsType ==
    ASSUME TypeOK, NEW q \in QueueIds, NEW S \in SUBSET Execs, NEW l \in PCs \ {"skip", "run"},
           LoopCancels(q, S, l)
    PROVE  /\ failed' \in [QueueIds -> BOOLEAN]
           /\ cancels' \in [QueueIds -> [Callers -> [call : BOOLEAN, awaits : SUBSET Execs]]]
           /\ status' \in [Execs -> Statuses]
           /\ shown' \in [CellExecs -> {"none", "pending", "running", "ended"}]
           /\ started' \subseteq Execs
           /\ cancelled' \subseteq Execs
           /\ interrupting' \subseteq CodeExecs
           /\ pc' \in [QueueIds -> PCs]
           /\ \A r \in QueueIds : pc'[r] \in {"skip", "run"} => pc[r] \in {"skip", "run"}
<1> DEFINE T == [r \in {q} |-> S]
<1>1. CancelItems(T, "loop", FALSE) /\ pc' = [pc EXCEPT ![q] = l]
  BY DEF LoopCancels
<1>2. \A r \in DOMAIN T : T[r] \subseteq Execs
  OBVIOUS
<1> HIDE DEF T
<1>3. "loop" \in Callers /\ FALSE \in BOOLEAN
  BY DEF Callers
<1> QED BY <1>1, <1>2, <1>3, CancelItemsType DEF TypeOK

(* cancel(true) of several queues.                                          *)
LEMMA ForceCancelType ==
    ASSUME TypeOK, NEW Q \in SUBSET QueueIds, ForceCancel(Q)
    PROVE  /\ failed' \in [QueueIds -> BOOLEAN]
           /\ cancels' \in [QueueIds -> [Callers -> [call : BOOLEAN, awaits : SUBSET Execs]]]
           /\ status' \in [Execs -> Statuses]
           /\ shown' \in [CellExecs -> {"none", "pending", "running", "ended"}]
           /\ started' \subseteq Execs
           /\ cancelled' \subseteq Execs
           /\ interrupting' \subseteq CodeExecs
<1> DEFINE R == {q \in Q : ~cancels[q]["forced"].call}
           T == [q \in R |-> ToSet(items[q])]
<1>1. CancelItems(T, "forced", TRUE)
  BY DEF ForceCancel
<1>2. \A q \in DOMAIN T : T[q] \subseteq Execs
  BY ItemsType
<1> HIDE DEF T
<1> QED BY <1>1, <1>2, CancelItemsType DEF Callers

(* The end of the loop's body.                                              *)
LEMMA NextOrDeadType ==
    ASSUME TypeOK, NEW q \in QueueIds, NEW s \in Seq(Execs), NextOrDead(q, s)
    PROVE  /\ failed' \in [QueueIds -> BOOLEAN]
           /\ cancels' \in [QueueIds -> [Callers -> [call : BOOLEAN, awaits : SUBSET Execs]]]
           /\ status' \in [Execs -> Statuses]
           /\ shown' \in [CellExecs -> {"none", "pending", "running", "ended"}]
           /\ started' \subseteq Execs
           /\ cancelled' \subseteq Execs
           /\ interrupting' \subseteq CodeExecs
           /\ pc' \in [QueueIds -> PCs]
           /\ \A r \in QueueIds : pc'[r] \in {"skip", "run"} => pc[r] \in {"skip", "run"}
<1>1. CASE q \in dead
  <2>1. LoopCancels(q, ToSet(s), "cancelAll")
    BY <1>1 DEF NextOrDead
  <2>2. ToSet(s) \in SUBSET Execs
    BY ToSetType
  <2> QED BY <2>1, <2>2, LoopCancelsType DEF PCs
<1>2. CASE q \notin dead
  <2>1. /\ pc' = [pc EXCEPT ![q] = "next"]
        /\ failed' = [failed EXCEPT ![q] = @ \/ BailOut(q)]
        /\ cancels' = [cancels EXCEPT ![q]["loop"] = Idle]
        /\ UNCHANGED execVars
    BY <1>2 DEF NextOrDead
  <2>2. failed' \in [QueueIds -> BOOLEAN]
    BY <2>1 DEF TypeOK, BailOut
  <2>3. cancels' \in [QueueIds -> [Callers -> [call : BOOLEAN, awaits : SUBSET Execs]]]
    BY <2>1 DEF TypeOK, Idle
  <2> QED BY <2>1, <2>2, <2>3 DEF TypeOK, execVars, PCs
<1> QED BY <1>1, <1>2

(* The loop starts an item, in any of the ways start() can go.              *)
LEMMA StartItemType ==
    ASSUME TypeOK, NEW q \in QueueIds, StartItem(q)
    PROVE  TypeOK'
<1> DEFINE e == Head(items[q])
<1>1. e \in Execs
  BY ItemsType DEF StartItem
<1> HIDE DEF e
<1>2. /\ cur' = [cur EXCEPT ![q] = e]
      /\ pc' = [pc EXCEPT ![q] = "run"]
      /\ \/ StartNothing(e) \/ StartResumed(e)
         \/ StartAtOnce(e, "rejected") \/ StartAtOnce(e, "resolved")
         \/ StartRequest(e)
      /\ UNCHANGED <<ownerVars, items, failed, sawClosed, cancels, cancelled,
                     interrupting, birthVars, docVars, busy, dead>>
  BY DEF StartItem, e
<1>3. /\ cur' \in [QueueIds -> Execs \cup {None}]
      /\ pc' \in [QueueIds -> PCs]
      /\ \A r \in QueueIds : pc'[r] \in {"skip", "run"} => cur'[r] \in Execs
  BY <1>1, <1>2 DEF TypeOK, PCs
<1>4. /\ status' \in [Execs -> Statuses]
      /\ shown' \in [CellExecs -> {"none", "pending", "running", "ended"}]
      /\ started' \subseteq Execs
      /\ requests' \in Seq(Execs)
      /\ busy => requests' # <<>>
  <2>1. CASE StartNothing(e)
    <3>1. UNCHANGED <<status, shown>> \/ Settle({e}, "resolved")
      BY <2>1 DEF StartNothing
    <3>2. UNCHANGED <<started, requests>>
      BY <2>1 DEF StartNothing
    <3> QED BY <3>1, <3>2, SettleType DEF TypeOK
  <2>2. CASE StartResumed(e)
    BY <1>1, <2>2 DEF StartResumed, TypeOK, Statuses
  <2>3. CASE StartAtOnce(e, "rejected") \/ StartAtOnce(e, "resolved")
    <3>1. /\ Settle({e}, "rejected") \/ Settle({e}, "resolved")
          /\ UNCHANGED requests /\ started' \subseteq started \cup {e}
      BY <2>3 DEF StartAtOnce
    <3> QED BY <1>1, <3>1, SettleType DEF TypeOK
  <2>4. CASE StartRequest(e)
    <3>1. /\ status' = [status EXCEPT ![e] = "sent"]
          /\ started' = started \cup {e} /\ UNCHANGED shown
      BY <2>4 DEF StartRequest
    <3>2. status' \in [Execs -> Statuses] /\ started' \subseteq Execs
      BY <1>1, <3>1 DEF TypeOK, Statuses
    <3>3. requests' = Append(requests, e) /\ requests \in Seq(Execs)
      BY <2>4 DEF StartRequest, TypeOK
    <3>4. requests' \in Seq(Execs) /\ requests' # <<>>
      BY <1>1, <3>3
    <3> QED BY <3>1, <3>2, <3>4 DEF TypeOK
  <2> QED BY <1>2, <2>1, <2>2, <2>3, <2>4
<1> QED BY <1>2, <1>3, <1>4
       DEF TypeOK, ownerVars, birthVars, docVars

(* The loop goes on after an item, or after a cancel it awaited.            *)
LEMMA FinishType ==
    ASSUME TypeOK, NEW q \in QueueIds,
           FinishAndStop(q) \/ FinishAndKeepCode(q) \/ FinishAndContinue(q)
           \/ CellsCancelled(q) \/ LoopCancelled(q)
    PROVE  TypeOK'
<1>1. items[q] \in Seq(Execs) /\ Rest(q) \in Seq(Execs)
  BY RemoveFirstType DEF TypeOK, Rest
<1>2. ToSet(Rest(q)) \in SUBSET Execs /\ CellsIn(Rest(q)) \in SUBSET Execs
  BY <1>1, ToSetType DEF CellsIn
<1>3. CodeItems(items[q]) \in Seq(Execs) /\ items[q] \o CodeItems(items[q]) \in Seq(Execs)
  <2>1. CodeItems(items[q]) \in Seq(ToSet(items[q]) \cap CodeExecs)
    BY <1>1, CodeItemsType
  <2>2. ToSet(items[q]) \cap CodeExecs \subseteq Execs
    BY DEF Execs
  <2> HIDE DEF CodeItems
  <2>3. CodeItems(items[q]) \in Seq(Execs)
    BY <2>1, <2>2, SeqWiden
  <2> QED BY <1>1, <2>3
<1>4. CASE FinishAndStop(q)
  <2>1. LoopCancels(q, ToSet(Rest(q)), "cancelAll") /\ items' = [items EXCEPT ![q] = Rest(q)]
        /\ UNCHANGED <<ownerVars, cur, sawClosed, birthVars, docVars, kernelVars>>
    BY <1>4 DEF FinishAndStop
  <2> QED BY <1>1, <1>2, <2>1, LoopCancelsType
          DEF TypeOK, PCs, ownerVars, birthVars, docVars, kernelVars
<1>5. CASE FinishAndKeepCode(q)
  <2>1. LoopCancels(q, CellsIn(Rest(q)), "cancelCells") /\ items' = [items EXCEPT ![q] = Rest(q)]
        /\ UNCHANGED <<ownerVars, cur, sawClosed, birthVars, docVars, kernelVars>>
    BY <1>5 DEF FinishAndKeepCode
  <2> QED BY <1>1, <1>2, <2>1, LoopCancelsType
          DEF TypeOK, PCs, ownerVars, birthVars, docVars, kernelVars
<1>6. CASE FinishAndContinue(q)
  <2>1. NextOrDead(q, Rest(q)) /\ items' = [items EXCEPT ![q] = Rest(q)]
        /\ UNCHANGED <<ownerVars, cur, sawClosed, birthVars, docVars, kernelVars>>
    BY <1>6 DEF FinishAndContinue
  <2> QED BY <1>1, <2>1, NextOrDeadType
          DEF TypeOK, ownerVars, birthVars, docVars, kernelVars
<1>7. CASE CellsCancelled(q)
  <2> DEFINE s == items[q] \o CodeItems(items[q])
  <2>1. NextOrDead(q, s) /\ items' = [items EXCEPT ![q] = s]
        /\ UNCHANGED <<ownerVars, cur, sawClosed, birthVars, docVars, kernelVars>>
    BY <1>7 DEF CellsCancelled
  <2>2. s \in Seq(Execs)
    BY <1>3
  <2> HIDE DEF s
  <2> QED BY <2>1, <2>2, NextOrDeadType
          DEF TypeOK, ownerVars, birthVars, docVars, kernelVars
<1>8. CASE LoopCancelled(q)
  <2> DEFINE s == IF pc[q] = "cancelAll" THEN <<>> ELSE items[q] \o CodeItems(items[q])
  <2>1. /\ items' = [items EXCEPT ![q] = s]
        /\ pc' = [pc EXCEPT ![q] = "done"]
        /\ cancels' = [cancels EXCEPT ![q]["loop"] = Idle]
        /\ UNCHANGED <<ownerVars, failed, cur, sawClosed, execVars, birthVars, docVars, kernelVars>>
    BY <1>8 DEF LoopCancelled, TypeOK
  <2>2. s \in Seq(Execs)
    BY <1>3
  <2> HIDE DEF s
  <2>3. /\ items' \in [QueueIds -> Seq(Execs)] /\ pc' \in [QueueIds -> PCs]
        /\ \A r \in QueueIds : pc'[r] \in {"skip", "run"} => pc[r] \in {"skip", "run"}
    BY <2>1, <2>2 DEF TypeOK, PCs
  <2>4. cancels' \in [QueueIds -> [Callers -> [call : BOOLEAN, awaits : SUBSET Execs]]]
    BY <2>1 DEF TypeOK, Idle
  <2> QED BY <2>1, <2>3, <2>4
          DEF TypeOK, ownerVars, execVars, birthVars, docVars, kernelVars
<1> QED BY <1>4, <1>5, <1>6, <1>7, <1>8

(* The kernel died or restarted.                                            *)
LEMMA FuturesRejectedType ==
    ASSUME TypeOK, FuturesRejected,
           docQueue' \in QueueIds \cup {None},
           restart' \in {"no", "waiting", "cancelled"},
           restartQueue' \in QueueIds \cup {None},
           restart' = "waiting" => restartQueue' \in QueueIds,
           dead' \subseteq QueueIds, disruptions' \in 0..MaxDisruptions
    PROVE  TypeOK'
<1>1. /\ requests' = <<>> /\ busy' = FALSE
      /\ Settle(Outstanding, "rejected")
      /\ UNCHANGED <<queueVars, started, cancelled, interrupting, birthVars, deleted, closed>>
  BY DEF FuturesRejected
<1>2. requests' \in Seq(Execs) /\ busy' \in BOOLEAN /\ (busy' => requests' # <<>>)
  <2>1. \A x : x = <<>> => x \in Seq(Execs)
    OBVIOUS
  <2>2. requests' = <<>> /\ busy' = FALSE
    BY <1>1
  <2> QED BY <2>1, <2>2
<1>3. /\ status' \in [Execs -> Statuses]
      /\ shown' \in [CellExecs -> {"none", "pending", "running", "ended"}]
  BY <1>1, SettleType
<1>4. UNCHANGED <<items, failed, pc, cur, sawClosed, cancels, started, cancelled,
                  interrupting, home, ticket, wrapper, deleted, closed>>
  BY <1>1 DEF queueVars, birthVars
<1>5. /\ items' \in [QueueIds -> Seq(Execs)]
      /\ pc' \in [QueueIds -> PCs]
      /\ cur' \in [QueueIds -> Execs \cup {None}]
      /\ \A q \in QueueIds : pc'[q] \in {"skip", "run"} => cur'[q] \in Execs
  BY <1>4 DEF TypeOK
<1>6. /\ failed' \in [QueueIds -> BOOLEAN]
      /\ sawClosed' \subseteq QueueIds
      /\ cancels' \in [QueueIds -> [Callers -> [call : BOOLEAN, awaits : SUBSET Execs]]]
      /\ started' \subseteq Execs
      /\ cancelled' \subseteq Execs
      /\ interrupting' \subseteq CodeExecs
  BY <1>4 DEF TypeOK
<1>7. /\ home' \in [Execs -> QueueIds \cup {None}]
      /\ ticket' \in [Execs -> Nat]
      /\ wrapper' \in [CellExecs -> CellExecs]
      /\ deleted' \subseteq Cells /\ closed' \in BOOLEAN
  BY <1>4 DEF TypeOK
<1> QED BY <1>2, <1>3, <1>5, <1>6, <1>7 DEF TypeOK

-----------------------------------------------------------------------------
(* The initial state is of the type.                                        *)
LEMMA InitType == Init => TypeOK
<1> SUFFICES ASSUME Init PROVE TypeOK
  OBVIOUS
<1>1. items \in [QueueIds -> Seq(Execs)] /\ requests \in Seq(Execs)
  BY DEF Init
<1>2. cancels \in [QueueIds -> [Callers -> [call : BOOLEAN, awaits : SUBSET Execs]]]
  BY DEF Init, Idle
<1>3. disruptions \in 0..MaxDisruptions
  BY ConstantsAssumption DEF Init
<1>4. /\ status \in [Execs -> Statuses]
      /\ home \in [Execs -> QueueIds \cup {None}]
      /\ ticket \in [Execs -> Nat]
      /\ wrapper \in [CellExecs -> CellExecs]
      /\ shown \in [CellExecs -> {"none", "pending", "running", "ended"}]
  BY DEF Init, Statuses
<1>5. /\ pc \in [QueueIds -> PCs] /\ failed \in [QueueIds -> BOOLEAN]
      /\ cur \in [QueueIds -> Execs \cup {None}]
      /\ \A q \in QueueIds : pc[q] \in {"skip", "run"} => cur[q] \in Execs
  BY DEF Init, PCs
<1> QED BY <1>1, <1>2, <1>3, <1>4, <1>5 DEF Init, TypeOK

(* An element chosen from a set is in it.                                   *)
LEMMA ChosenIsIn == \A S : S # {} => (CHOOSE x \in S : TRUE) \in S
<1> TAKE S
<1>1. CASE \E x : x \in S
  BY <1>1, Zenon
<1>2. CASE ~ \E x : x \in S
  BY <1>2
<1> QED BY <1>1, <1>2

(* Adding work.                                                             *)
LEMMA AddingType ==
    ASSUME TypeOK, NEW q \in QueueIds, NEW e \in Execs, QueueCell(e, q) \/ QueueCode(e, q)
    PROVE  TypeOK'
<1>1. Push(e, q)
  BY DEF QueueCell, QueueCode
<1>2. /\ wrapper' \in [CellExecs -> CellExecs]
      /\ shown' \in [CellExecs -> {"none", "pending", "running", "ended"}]
  <2>1. CASE QueueCode(e, q)
    BY <2>1 DEF QueueCode, TypeOK
  <2>2. CASE QueueCell(e, q)
    <3> DEFINE live == LiveWrappers(CellOf[e])
               w == CHOOSE x \in live : TRUE
    <3>1. \/ /\ shown' = [shown EXCEPT ![e] = "pending"]
             /\ UNCHANGED wrapper
          \/ /\ live # {}
             /\ wrapper' = [wrapper EXCEPT ![e] = w]
             /\ UNCHANGED shown
      BY <2>2 DEF QueueCell, UseWrapper
    <3>2. live \subseteq CellExecs
      BY DEF LiveWrappers, TypeOK
    <3> HIDE DEF live
    <3>3. live # {} => w \in CellExecs
      BY <3>2, ChosenIsIn
    <3> HIDE DEF w
    <3>4. /\ wrapper \in [CellExecs -> CellExecs]
          /\ shown \in [CellExecs -> {"none", "pending", "running", "ended"}]
      BY DEF TypeOK
    <3>5. [shown EXCEPT ![e] = "pending"] \in
            [CellExecs -> {"none", "pending", "running", "ended"}]
      BY <3>4
    <3>6. w \in CellExecs => [wrapper EXCEPT ![e] = w] \in [CellExecs -> CellExecs]
      BY <3>4
    <3> QED BY <3>1, <3>3, <3>4, <3>5, <3>6
  <2> QED BY <2>1, <2>2
<1> QED BY <1>1, <1>2, PushType

(* Everything that cancels whole queues.                                    *)
LEMMA CancellingType ==
    ASSUME TypeOK, Interrupt \/ WillCancel \/ CloseNotebook \/ RestartCancels
    PROVE  TypeOK'
<1>1. CASE Interrupt
  <2> DEFINE T == [q \in {docQueue} |-> ToSet(items[q])]
  <2>1. /\ CancelItems(T, "interrupt", FALSE)
        /\ UNCHANGED <<ownerVars, items, pc, cur, sawClosed, birthVars, deleted, closed, kernelVars>>
        /\ disruptions' = disruptions + 1 /\ disruptions < MaxDisruptions
        /\ docQueue \in QueueIds
    BY <1>1 DEF Interrupt, Disrupt
  <2>2. \A q \in DOMAIN T : T[q] \subseteq Execs
    BY <2>1, ItemsType
  <2> HIDE DEF T
  <2>3. "interrupt" \in Callers /\ FALSE \in BOOLEAN
    BY DEF Callers
  <2>4. disruptions' \in 0..MaxDisruptions
    BY <2>1, ConstantsAssumption DEF TypeOK
  <2> QED BY <2>1, <2>2, <2>3, <2>4, CancelItemsType
          DEF TypeOK, ownerVars, birthVars, kernelVars
<1>2. ASSUME NEW Q \in SUBSET QueueIds, ForceCancel(Q),
             UNCHANGED <<docQueue, items, pc, cur, sawClosed, birthVars, deleted, kernelVars>>,
             closed' \in BOOLEAN, disruptions' \in 0..MaxDisruptions,
             restart' \in {"no", "waiting", "cancelled"},
             restartQueue' \in QueueIds \cup {None},
             restart' = "waiting" => restartQueue' \in QueueIds
      PROVE  TypeOK'
  BY <1>2, ForceCancelType DEF TypeOK, birthVars, kernelVars
<1>3. CASE WillCancel
  <2>1. /\ ForceCancel({docQueue}) /\ docQueue \in QueueIds
        /\ UNCHANGED <<ownerVars, items, pc, cur, sawClosed, birthVars, deleted, closed, kernelVars>>
        /\ disruptions' = disruptions + 1 /\ disruptions < MaxDisruptions
    BY <1>3 DEF WillCancel, Disrupt
  <2>2. disruptions' \in 0..MaxDisruptions
    BY <2>1, ConstantsAssumption DEF TypeOK
  <2> QED BY <2>1, <2>2, <1>2 DEF TypeOK, ownerVars
<1>4. CASE CloseNotebook
  <2> DEFINE Q == {q \in QueueIds : pc[q] # "unused" /\ (~failed[q] \/ items[q] # <<>>)}
  <2>1. /\ ForceCancel(Q) /\ closed' = TRUE
        /\ UNCHANGED <<ownerVars, items, pc, cur, sawClosed, birthVars, deleted, kernelVars>>
        /\ disruptions' = disruptions + 1 /\ disruptions < MaxDisruptions
    BY <1>4 DEF CloseNotebook, Disrupt
  <2>2. disruptions' \in 0..MaxDisruptions /\ Q \in SUBSET QueueIds
    BY <2>1, ConstantsAssumption DEF TypeOK
  <2> HIDE DEF Q
  <2> QED BY <2>1, <2>2, <1>2 DEF TypeOK, ownerVars
<1>5. CASE RestartCancels
  <2>1. /\ ForceCancel({restartQueue}) /\ restart = "waiting" /\ restart' = "cancelled"
        /\ UNCHANGED <<docQueue, restartQueue, items, pc, cur, sawClosed, birthVars,
                       deleted, closed, disruptions, kernelVars>>
    BY <1>5 DEF RestartCancels, docVars
  <2>2. restartQueue \in QueueIds
    BY <2>1 DEF TypeOK
  <2> QED BY <2>1, <2>2, <1>2 DEF TypeOK
<1> QED BY <1>1, <1>3, <1>4, <1>5

(* The steps of a queue's loop that are not in FinishType.                  *)
LEMMA LoopType ==
    ASSUME TypeOK, NEW q \in QueueIds, LoopStep(q) \/ SessionStep(q)
    PROVE  TypeOK'
<1>1. CASE QueueReady(q)
  <2>1. /\ pc' = [pc EXCEPT ![q] = "next"] /\ dead' \subseteq QueueIds
        /\ UNCHANGED <<ownerVars, items, failed, cur, sawClosed, cancels, execVars,
                       birthVars, docVars, requests, busy>>
    BY <1>1 DEF QueueReady, TypeOK
  <2>2. /\ pc' \in [QueueIds -> PCs]
        /\ \A r \in QueueIds : pc'[r] \in {"skip", "run"} => cur'[r] \in Execs
    BY <2>1 DEF TypeOK, PCs
  <2> QED BY <2>1, <2>2 DEF TypeOK, ownerVars, execVars, birthVars, docVars
<1>2. CASE QueueSessionFails(q)
  <2>1. /\ LoopCancels(q, CellsIn(items[q]), "cancelFailed")
        /\ disruptions' = disruptions + 1 /\ disruptions < MaxDisruptions
        /\ UNCHANGED <<ownerVars, items, cur, sawClosed, birthVars, deleted, closed, kernelVars>>
    BY <1>2 DEF QueueSessionFails, Disrupt
  <2>2. CellsIn(items[q]) \in SUBSET Execs /\ "cancelFailed" \in PCs \ {"skip", "run"}
    BY ItemsType DEF PCs
  <2>3. disruptions' \in 0..MaxDisruptions
    BY <2>1, ConstantsAssumption DEF TypeOK
  <2> QED BY <2>1, <2>2, <2>3, LoopCancelsType DEF TypeOK, ownerVars, birthVars, kernelVars
<1>3. CASE QueueEnds(q)
  <2>1. /\ pc' = [pc EXCEPT ![q] = "done"]
        /\ UNCHANGED <<ownerVars, items, failed, cur, sawClosed, cancels, execVars,
                       birthVars, docVars, kernelVars>>
    BY <1>3 DEF QueueEnds
  <2>2. /\ pc' \in [QueueIds -> PCs]
        /\ \A r \in QueueIds : pc'[r] \in {"skip", "run"} => cur'[r] \in Execs
    BY <2>1 DEF TypeOK, PCs
  <2> QED BY <2>1, <2>2 DEF TypeOK, ownerVars, execVars, birthVars, docVars, kernelVars
<1>4. CASE SkipItem(q)
  <2>1. /\ cur' = [cur EXCEPT ![q] = Head(items[q])] /\ Head(items[q]) \in Execs
        /\ pc' = [pc EXCEPT ![q] = "skip"] /\ sawClosed' \subseteq sawClosed \cup {q}
        /\ UNCHANGED <<ownerVars, items, failed, cancels, execVars, birthVars, docVars, kernelVars>>
    BY <1>4, ItemsType DEF SkipItem
  <2>2. /\ cur' \in [QueueIds -> Execs \cup {None}]
        /\ pc' \in [QueueIds -> PCs]
        /\ \A r \in QueueIds : pc'[r] \in {"skip", "run"} => cur'[r] \in Execs
    BY <2>1 DEF TypeOK, PCs
  <2>3. sawClosed' \subseteq QueueIds
    BY <2>1 DEF TypeOK
  <2> QED BY <2>1, <2>2, <2>3 DEF TypeOK, ownerVars, execVars, birthVars, docVars, kernelVars
<1> QED BY <1>1, <1>2, <1>3, <1>4, StartItemType, FinishType DEF LoopStep, SessionStep

(* Cancels that return, and single executions that are cancelled.           *)
LEMMA SingleType ==
    ASSUME TypeOK,
           \/ \E q \in QueueIds : ReturnStep(q)
           \/ \E e \in CodeExecs : CodeInterrupted(e) \/ CancelCode(e)
           \/ \E c \in Cells : DeleteCell(c)
    PROVE  TypeOK'
<1>1. ASSUME NEW q \in QueueIds, NEW c \in Callers, CancelReturns(q, c) PROVE TypeOK'
  <2>1. /\ cancels' = [cancels EXCEPT ![q][c] = Idle] /\ items' = [items EXCEPT ![q] = <<>>]
        /\ UNCHANGED <<ownerVars, failed, pc, cur, sawClosed, execVars, birthVars, docVars, kernelVars>>
    BY <1>1 DEF CancelReturns
  <2>2. items' \in [QueueIds -> Seq(Execs)]
    BY <2>1 DEF TypeOK
  <2>3. cancels' \in [QueueIds -> [Callers -> [call : BOOLEAN, awaits : SUBSET Execs]]]
    BY <2>1 DEF TypeOK, Idle
  <2> QED BY <2>1, <2>2, <2>3 DEF TypeOK, ownerVars, execVars, birthVars, docVars, kernelVars
<1>2. ASSUME NEW S, NEW outcome \in {"resolved", "rejected"},
             Settle(S, outcome) \/ UNCHANGED <<status, shown>>,
             UNCHANGED <<ownerVars, queueVars, started, birthVars, closed, kernelVars>>,
             cancelled' \subseteq Execs, interrupting' \subseteq CodeExecs,
             deleted' \subseteq Cells, disruptions' \in 0..MaxDisruptions
      PROVE  TypeOK'
  <2>1. /\ status' \in [Execs -> Statuses]
        /\ shown' \in [CellExecs -> {"none", "pending", "running", "ended"}]
    BY <1>2, SettleType DEF TypeOK
  <2> QED BY <1>2, <2>1 DEF TypeOK, ownerVars, queueVars, birthVars, kernelVars
<1>3. ASSUME NEW e \in CodeExecs, CodeInterrupted(e) PROVE TypeOK'
  BY <1>2, <1>3 DEF CodeInterrupted, docVars, TypeOK
<1>4. ASSUME NEW e \in CodeExecs, CancelCode(e) PROVE TypeOK'
  <2>1. /\ Settle({e}, "resolved") \/ UNCHANGED <<status, shown>>
        /\ UNCHANGED <<ownerVars, queueVars, started, birthVars, deleted, closed, kernelVars>>
        /\ cancelled' \subseteq cancelled \cup {e} /\ interrupting' \subseteq interrupting \cup {e}
        /\ disruptions' = disruptions + 1 /\ disruptions < MaxDisruptions
    BY <1>4 DEF CancelCode, Disrupt
  <2>2. disruptions' \in 0..MaxDisruptions
    BY <2>1, ConstantsAssumption DEF TypeOK
  <2> QED BY <1>2, <2>1, <2>2 DEF TypeOK, Execs
<1>5. ASSUME NEW c \in Cells, DeleteCell(c) PROVE TypeOK'
  <2>1. /\ \E S : Settle(S, "resolved")
        /\ deleted' = deleted \cup {c}
        /\ UNCHANGED <<ownerVars, queueVars, started, cancelled, interrupting,
                       birthVars, closed, kernelVars>>
        /\ disruptions' = disruptions + 1 /\ disruptions < MaxDisruptions
    BY <1>5 DEF DeleteCell, Disrupt
  <2>2. disruptions' \in 0..MaxDisruptions
    BY <2>1, ConstantsAssumption DEF TypeOK
  <2> QED BY <1>2, <2>1, <2>2 DEF TypeOK
<1> QED BY <1>1, <1>3, <1>4, <1>5 DEF ReturnStep

(* The kernel and its restart.                                              *)
LEMMA KernelType ==
    ASSUME TypeOK,
           \/ KernelStep \/ Acknowledge \/ KernelDies \/ AutoRestarts
           \/ RestartAsked \/ Restarted
           \/ \E e \in Resumed, o \in {"resolved", "rejected"} : ResumedEnds(e, o)
    PROVE  TypeOK'
<1>1. CASE Begin
  BY <1>1 DEF Begin, TypeOK, ownerVars, queueVars, execVars, birthVars, docVars
<1>2. CASE Acknowledge
  <2>1. /\ UNCHANGED <<ownerVars, queueVars, status, started, cancelled, interrupting,
                       birthVars, docVars, kernelVars>>
        /\ shown' = [shown EXCEPT ![wrapper[Head(requests)]] = "running"]
    BY <1>2 DEF Acknowledge
  <2>2. shown' \in [CellExecs -> {"none", "pending", "running", "ended"}]
    BY <2>1 DEF TypeOK
  <2> QED BY <2>1, <2>2
          DEF TypeOK, ownerVars, queueVars, birthVars, docVars, kernelVars
<1>3. ASSUME NEW o \in {"resolved", "rejected"}, Reply(o) PROVE TypeOK'
  <2>1. /\ busy' = FALSE /\ requests' = Tail(requests) /\ busy
        /\ \E S : Settle(S, o)
        /\ UNCHANGED <<ownerVars, queueVars, started, cancelled, interrupting,
                       birthVars, docVars, dead>>
    BY <1>3 DEF Reply
  <2>2. requests \in Seq(Execs) /\ requests # <<>>
    BY <2>1 DEF TypeOK
  <2>3. requests' \in Seq(Execs)
    BY <2>1, <2>2
  <2>4. /\ status' \in [Execs -> Statuses]
        /\ shown' \in [CellExecs -> {"none", "pending", "running", "ended"}]
    BY <2>1, SettleType
  <2> QED BY <2>1, <2>3, <2>4 DEF TypeOK, ownerVars, queueVars, birthVars, docVars
<1>4. ASSUME NEW e \in Resumed, NEW o \in {"resolved", "rejected"}, ResumedEnds(e, o)
      PROVE  TypeOK'
  <2>1. /\ Settle({e}, o)
        /\ UNCHANGED <<ownerVars, queueVars, started, cancelled, interrupting,
                       birthVars, docVars, kernelVars>>
    BY <1>4 DEF ResumedEnds
  <2>2. /\ status' \in [Execs -> Statuses]
        /\ shown' \in [CellExecs -> {"none", "pending", "running", "ended"}]
    BY <2>1, SettleType
  <2> QED BY <2>1, <2>2 DEF TypeOK, ownerVars, queueVars, birthVars, docVars, kernelVars
<1>5. Disrupt => disruptions' \in 0..MaxDisruptions
  BY ConstantsAssumption DEF Disrupt, TypeOK
<1>6. CASE KernelDies
  <2>1. /\ FuturesRejected /\ UNCHANGED ownerVars /\ Disrupt
        /\ dead' \subseteq QueueIds
    BY <1>6 DEF KernelDies
  <2> QED BY <2>1, <1>5, FuturesRejectedType DEF ownerVars, TypeOK
<1>7. CASE AutoRestarts
  <2>1. FuturesRejected /\ UNCHANGED <<ownerVars, dead>> /\ Disrupt
    BY <1>7 DEF AutoRestarts
  <2> QED BY <2>1, <1>5, FuturesRejectedType DEF ownerVars, TypeOK
<1>8. CASE RestartAsked
  <2>1. /\ docQueue \in QueueIds /\ Disrupt
        /\ restart' = "waiting" /\ restartQueue' = docQueue
        /\ UNCHANGED <<docQueue, queueVars, execVars, birthVars, deleted, closed, kernelVars>>
    BY <1>8 DEF RestartAsked
  <2> QED BY <2>1, <1>5 DEF TypeOK, queueVars, execVars, birthVars, kernelVars
<1>9. CASE Restarted
  <2>1. /\ restart' = "no" /\ restartQueue' = None
        /\ FuturesRejected /\ dead' \subseteq dead
        /\ UNCHANGED <<docQueue, disruptions>>
    BY <1>9 DEF Restarted
  <2> QED BY <2>1, FuturesRejectedType DEF TypeOK
<1> QED BY <1>1, <1>2, <1>3, <1>4, <1>6, <1>7, <1>8, <1>9 DEF KernelStep

(* Every variable keeps its type: the session, the loop, the cancels, the   *)
(* kernel and whoever asks for an execution agree on what they share.       *)
THEOREM TypeCorrect == Spec => []TypeOK
<1>1. TypeOK /\ [Next]_vars => TypeOK'
  <2> SUFFICES ASSUME TypeOK, [Next]_vars PROVE TypeOK'
    OBVIOUS
  <2>1. CASE UNCHANGED vars
    <3>1. UNCHANGED <<docQueue, restart, restartQueue, items, failed, pc, cur, sawClosed,
                      cancels, status, started, cancelled, interrupting, shown, home,
                      ticket, wrapper, deleted, closed, disruptions, requests, busy, dead>>
      BY <2>1 DEF vars, ownerVars, queueVars, execVars, birthVars, docVars, kernelVars
    <3> QED BY <3>1 DEF TypeOK
  <2>2. CASE Next
    <3>1. ASSUME NEW q \in QueueIds, NEW e \in Execs, QueueCell(e, q) \/ QueueCode(e, q)
          PROVE  TypeOK'
      BY <3>1, AddingType
    <3>2. CellExecs \subseteq Execs /\ CodeExecs \subseteq Execs
      BY DEF Execs
    <3>3. CASE Requests
      BY <3>1, <3>2, <3>3, CancellingType, SingleType, KernelType DEF Requests
    <3> QED BY <2>2, <3>3, LoopType, SingleType, KernelType DEF Next, QueueStep
  <2> QED BY <2>1, <2>2
<1> QED BY <1>1, InitType, PTL DEF Spec

-----------------------------------------------------------------------------
(* Nothing is lost: the inductive invariant.  Its parts say, in turn, why a *)
(* pending execution is in its queue and why that queue gets to it.         *)

\* A queue nobody made is empty, and nobody refers to it.
OnlyUsedQueues ==
    /\ \A q \in QueueIds : pc[q] = "unused" => items[q] = <<>> /\ ~failed[q]
    /\ docQueue \in QueueIds => pc[docQueue] # "unused"
    /\ restart = "waiting" => pc[restartQueue] # "unused"

\* What a queue holds was added to it.
ItemsAreAtHome ==
    \A q \in QueueIds : \A e \in ToSet(items[q]) : home[e] = q /\ Created(e)

\* A queue is cancelled only when it is stopped, and it is stopped when its
\* loop ends with items left.
Cancelling == {"cancelAll", "cancelCells", "cancelFailed"}
CancelsStop ==
    \A q \in QueueIds :
        /\ \A c \in Callers : cancels[q][c].call => failed[q]
        /\ pc[q] \in Cancelling => failed[q]
        /\ pc[q] = "done" => items[q] = <<>> \/ failed[q]

\* Closing the notebook stops every queue.
ClosingStops ==
    closed => \A q \in QueueIds : pc[q] # "unused" => failed[q]

\* Only the current item of a loop is running.
OnlyCurrentRuns ==
    \A e \in Execs : e \in started =>
        /\ Created(e)
        /\ \A q \in QueueIds : Pending(e) /\ home[e] = q => pc[q] = "run" /\ cur[q] = e

\* A cancel() awaits what it did not settle; what is skipped is settled.
CancelsAwaitTheRest ==
    \A q \in QueueIds :
        /\ pc[q] = "skip" => Settled(cur[q])
        /\ \A e \in ToSet(items[q]) :
            /\ \A c \in {"interrupt", "forced"} :
                cancels[q][c].call => Settled(e) \/ e \in cancels[q][c].awaits
            /\ pc[q] = "cancelAll" => Settled(e) \/ e \in cancels[q]["loop"].awaits
            /\ pc[q] = "cancelFailed" /\ e \in CellExecs =>
                Settled(e) \/ e \in cancels[q]["loop"].awaits

IInv ==
    /\ OnlyUsedQueues /\ ItemsAreAtHome /\ CancelsStop /\ ClosingStops
    /\ OnlyCurrentRuns /\ CancelsAwaitTheRest
    /\ StoppedCellsStayStopped /\ NothingLost

-----------------------------------------------------------------------------
(* What cancelling does to the executions.                                  *)

\* The step settles executions, and does nothing else to them.
OnlySettles ==
    \A e \in Execs : status'[e] = status[e] \/ status'[e] \in {"resolved", "rejected"}

(* What was settled stays so, and what is pending was.                      *)
LEMMA OnlySettlesFacts ==
    ASSUME OnlySettles, NEW e \in Execs
    PROVE  /\ Settled(e) => Settled(e)'
           /\ Pending(e)' => Pending(e)
           /\ Created(e) => Created(e)'
  BY DEF OnlySettles, Settled, Pending, Created

(* Settling is what it says.                                                *)
LEMMA SettleOnlySettles ==
    ASSUME NEW S, NEW outcome \in {"resolved", "rejected"}, Settle(S, outcome)
    PROVE  OnlySettles
  BY DEF Settle, OnlySettles

(* cancel() stops the queues, settles what it does not await, and settles   *)
(* everything that was not started.                                         *)
LEMMA CancelItemsEffect ==
    ASSUME TypeOK, NEW T, DOMAIN T \subseteq QueueIds, \A q \in DOMAIN T : T[q] \subseteq Execs,
           NEW caller \in Callers, NEW forced \in BOOLEAN,
           CancelItems(T, caller, forced)
    PROVE  /\ failed' = [q \in QueueIds |-> failed[q] \/ q \in DOMAIN T]
           /\ OnlySettles
           /\ UNCHANGED started
           /\ \A q \in DOMAIN T : cancels'[q][caller].call
           /\ \A q \in DOMAIN T : \A e \in T[q] :
                /\ Settled(e)' \/ e \in cancels'[q][caller].awaits
                /\ e \notin started => Settled(e)'
           /\ \A q \in QueueIds : \A c \in Callers :
                q \notin DOMAIN T \/ c # caller => cancels'[q][c] = cancels[q][c]
<1> DEFINE all  == UNION {T[q] : q \in DOMAIN T}
           wait == {e \in all : MustWait(e, forced)}
           now  == {e \in all : ~Settled(e)} \ wait
<1>1. /\ failed' = Stopped(DOMAIN T)
      /\ Settle(now, "resolved")
      /\ cancels' = [q \in QueueIds |->
                       IF q \in DOMAIN T
                       THEN [cancels[q] EXCEPT ![caller] = Awaiting(T[q] \cap wait)]
                       ELSE cancels[q]]
      /\ UNCHANGED started
  BY DEF CancelItems
<1>2. ASSUME NEW q \in DOMAIN T, NEW e \in T[q]
      PROVE  e \in Execs /\ e \in all
  BY <1>2
<1>3. \A e \in wait : e \in started
  BY DEF MustWait
<1>4. \A e \in all : e \in Execs /\ e \notin wait => Settled(e)'
  <2>1. \A e \in Execs : e \in now => status'[e] = "resolved"
    <3> HIDE DEF now
    <3> QED BY <1>1 DEF Settle
  <2>2. \A e \in Execs : e \notin now => status'[e] = status[e]
    <3> HIDE DEF now
    <3> QED BY <1>1 DEF Settle
  <2>3. \A e \in all : e \notin wait => e \in now \/ Settled(e)
    OBVIOUS
  <2> HIDE DEF all, now, wait
  <2> QED BY <2>1, <2>2, <2>3 DEF Settled
<1> HIDE DEF all, now, wait
<1>5. /\ failed' = [q \in QueueIds |-> failed[q] \/ q \in DOMAIN T]
      /\ OnlySettles
      /\ UNCHANGED started
  BY <1>1, SettleOnlySettles DEF Stopped
<1>6. cancels \in [QueueIds -> [Callers -> [call : BOOLEAN, awaits : SUBSET Execs]]]
  BY DEF TypeOK
<1>7. \A q \in DOMAIN T : cancels'[q][caller] = Awaiting(T[q] \cap wait)
  BY <1>1, <1>6
<1>8. \A q \in QueueIds : \A c \in Callers :
         q \notin DOMAIN T \/ c # caller => cancels'[q][c] = cancels[q][c]
  BY <1>1, <1>6
<1>9. ASSUME NEW q \in DOMAIN T
      PROVE  cancels'[q][caller].call /\ cancels'[q][caller].awaits = T[q] \cap wait
  <2>1. \A S : Awaiting(S).call /\ Awaiting(S).awaits = S
    BY DEF Awaiting
  <2>2. cancels'[q][caller] = Awaiting(T[q] \cap wait)
    BY <1>7
  <2> QED BY <2>1, <2>2
<1>10. ASSUME NEW q \in DOMAIN T, NEW e \in T[q]
       PROVE  /\ Settled(e)' \/ e \in cancels'[q][caller].awaits
              /\ e \notin started => Settled(e)'
  BY <1>2, <1>3, <1>4, <1>9
<1> QED BY <1>5, <1>8, <1>9, <1>10

-----------------------------------------------------------------------------
(* Steps that leave the queues alone.                                       *)
(* Executions are settled, and no queue changes.                            *)
LEMMA SideStep ==
    ASSUME TypeOK, IInv, OnlySettles,
           UNCHANGED <<docQueue, items, failed, pc, cur, cancels, started, home, closed>>,
           restart' = "waiting" => pc[restartQueue'] # "unused"
    PROVE  IInv'
<1>1. \A q \in QueueIds : ToSet(items[q]) \subseteq Execs
  BY ItemsType
<1>2. OnlyUsedQueues' /\ CancelsStop' /\ ClosingStops'
  BY DEF IInv, OnlyUsedQueues, CancelsStop, ClosingStops
<1>3. ItemsAreAtHome'
  BY <1>1, OnlySettlesFacts DEF IInv, ItemsAreAtHome
<1>4. OnlyCurrentRuns'
  BY OnlySettlesFacts DEF IInv, OnlyCurrentRuns
<1>5. CancelsAwaitTheRest'
  <2>1. ASSUME NEW q \in QueueIds, pc[q] = "skip" PROVE Settled(cur[q])'
    <3>1. cur[q] \in Execs /\ Settled(cur[q])
      BY <2>1 DEF TypeOK, IInv, CancelsAwaitTheRest
    <3> QED BY <3>1, OnlySettlesFacts
  <2>2. ASSUME NEW q \in QueueIds, NEW e \in ToSet(items[q])
        PROVE  Settled(e) => Settled(e)'
    BY <1>1, OnlySettlesFacts
  <2> QED BY <2>1, <2>2 DEF IInv, CancelsAwaitTheRest
<1>6. StoppedCellsStayStopped' /\ NothingLost'
  <2>1. \A e \in Execs : Pending(e)' => Pending(e)
    BY OnlySettlesFacts
  <2> QED BY <2>1 DEF IInv, StoppedCellsStayStopped, NothingLost, Execs
<1> QED BY <1>2, <1>3, <1>4, <1>5, <1>6 DEF IInv

(* The queues D are cancelled from the side.                                *)
LEMMA CancelStep ==
    ASSUME TypeOK, IInv, NEW D \in SUBSET QueueIds, \A q \in D : pc[q] # "unused",
           NEW caller \in {"interrupt", "forced"}, NEW forced \in BOOLEAN,
           CancelItems([q \in D |-> ToSet(items[q])], caller, forced),
           UNCHANGED <<docQueue, items, pc, cur, home>>,
           closed' => closed \/ \A q \in QueueIds : pc[q] # "unused" => failed[q] \/ q \in D,
           restart' = "waiting" => restart = "waiting" /\ restartQueue' = restartQueue
    PROVE  IInv'
<1> DEFINE T == [q \in D |-> ToSet(items[q])]
<1>1. \A q \in QueueIds : ToSet(items[q]) \subseteq Execs
  BY ItemsType
<1>2. /\ failed' = [q \in QueueIds |-> failed[q] \/ q \in D]
      /\ OnlySettles
      /\ UNCHANGED started
      /\ \A q \in D : cancels'[q][caller].call
      /\ \A q \in D : \A e \in ToSet(items[q]) :
           /\ Settled(e)' \/ e \in cancels'[q][caller].awaits
           /\ e \notin started => Settled(e)'
      /\ \A q \in QueueIds : \A c \in Callers :
           q \notin D \/ c # caller => cancels'[q][c] = cancels[q][c]
  <2>1. /\ DOMAIN T = D /\ DOMAIN T \subseteq QueueIds
        /\ \A q \in D : T[q] = ToSet(items[q])
        /\ \A q \in DOMAIN T : T[q] \subseteq Execs
        /\ caller \in Callers /\ CancelItems(T, caller, forced)
    BY <1>1 DEF Callers
  <2> HIDE DEF T
  <2> QED BY <2>1, CancelItemsEffect
<1>3. \A e \in Execs : /\ Settled(e) => Settled(e)'
                       /\ Pending(e)' => Pending(e)
                       /\ Created(e) => Created(e)'
  BY <1>2, OnlySettlesFacts
<1>4. \A q \in QueueIds : failed'[q] <=> failed[q] \/ q \in D
  BY <1>2
<1>5. OnlyUsedQueues'
  BY <1>4 DEF IInv, OnlyUsedQueues
<1>6. ItemsAreAtHome'
  BY <1>1, <1>3 DEF IInv, ItemsAreAtHome
<1>7. CancelsStop'
  BY <1>2, <1>4 DEF IInv, CancelsStop, Callers
<1>8. ClosingStops'
  BY <1>4 DEF IInv, ClosingStops
<1>9. OnlyCurrentRuns'
  BY <1>2, <1>3 DEF IInv, OnlyCurrentRuns
<1>10. CancelsAwaitTheRest'
  <2>1. ASSUME NEW q \in QueueIds, pc[q] = "skip" PROVE Settled(cur[q])'
    BY <1>3, <2>1 DEF TypeOK, IInv, CancelsAwaitTheRest
  <2>2. ASSUME NEW q \in QueueIds, NEW e \in ToSet(items[q]), NEW c \in Callers,
               cancels'[q][c].call, c \in {"interrupt", "forced"}
        PROVE  Settled(e)' \/ e \in cancels'[q][c].awaits
    <3>1. CASE q \in D /\ c = caller
      BY <1>2, <3>1
    <3>2. CASE q \notin D \/ c # caller
      <4>1. cancels'[q][c] = cancels[q][c]
        BY <1>2, <3>2
      <4>2. Settled(e) \/ e \in cancels[q][c].awaits
        BY <2>2, <4>1 DEF IInv, CancelsAwaitTheRest
      <4> QED BY <1>1, <1>3, <4>1, <4>2
    <3> QED BY <3>1, <3>2
  <2>3. ASSUME NEW q \in QueueIds PROVE cancels'[q]["loop"] = cancels[q]["loop"]
    BY <1>2 DEF Callers
  <2>4. ASSUME NEW q \in QueueIds, NEW e \in ToSet(items[q]) PROVE Settled(e) => Settled(e)'
    BY <1>1, <1>3
  <2> QED BY <2>1, <2>2, <2>3, <2>4 DEF IInv, CancelsAwaitTheRest, Callers
<1>11. StoppedCellsStayStopped'
  <2>1. ASSUME NEW e \in CellExecs, Pending(e)', home[e] \in QueueIds, failed'[home[e]]
        PROVE  e \in started
    <3>1. e \in Execs /\ Pending(e)
      BY <1>3, <2>1 DEF Execs
    <3>2. CASE failed[home[e]]
      BY <2>1, <3>1, <3>2 DEF IInv, StoppedCellsStayStopped
    <3>3. CASE home[e] \in D
      <4>1. e \in ToSet(items[home[e]]) /\ ~Settled(e)'
        BY <2>1, <3>1 DEF IInv, NothingLost, Pending
      <4> QED BY <1>2, <3>3, <4>1
    <3> QED BY <1>4, <2>1, <3>2, <3>3
  <2> QED BY <1>2, <2>1 DEF StoppedCellsStayStopped
<1>12. NothingLost'
  BY <1>3 DEF IInv, NothingLost
<1> QED BY <1>5, <1>6, <1>7, <1>8, <1>9, <1>10, <1>11, <1>12 DEF IInv
-----------------------------------------------------------------------------
(* Steps of one queue.                                                      *)

\* Everything but the queue q and the executions' settling is left alone.
OnlyMoves(q) ==
    /\ UNCHANGED <<docQueue, restart, restartQueue, home, started, closed>>
    /\ \A r \in QueueIds \ {q} :
        /\ items'[r] = items[r] /\ pc'[r] = pc[r] /\ cur'[r] = cur[r]
        /\ failed'[r] = failed[r] /\ cancels'[r] = cancels[r]

(* A step of the queue q keeps the invariant if nothing of it runs, what it *)
(* drops is settled, and the queue's new state is stopped where it must be. *)
LEMMA MoveStep ==
    ASSUME TypeOK, IInv, OnlySettles, NEW q \in QueueIds, OnlyMoves(q),
           \A e \in started : home[e] = q => ~Pending(e),
           pc[q] # "unused" /\ pc'[q] # "unused",
           ToSet(items'[q]) \subseteq ToSet(items[q]),
           \A e \in ToSet(items[q]) : e \in ToSet(items'[q]) \/ Settled(e)',
           failed[q] => failed'[q],
           failed'[q] => failed[q] \/ \A e \in ToSet(items'[q]) \cap CellExecs : Settled(e)',
           \A c \in {"interrupt", "forced"} :
                cancels'[q][c].call => cancels'[q][c] = cancels[q][c],
           cancels'[q]["loop"].call => failed'[q],
           pc'[q] \in Cancelling => failed'[q],
           pc'[q] = "done" =>
                /\ items'[q] = <<>> \/ failed'[q]
                /\ \A e \in ToSet(items'[q]) \cap CellExecs : Settled(e)',
           \A e \in ToSet(items'[q]) :
                (pc'[q] = "cancelAll" \/ (pc'[q] = "cancelFailed" /\ e \in CellExecs)) =>
                    Settled(e)' \/ e \in cancels'[q]["loop"].awaits,
           pc'[q] = "skip" => Settled(cur[q])'
    PROVE  IInv'
<1>1. \A r \in QueueIds : ToSet(items[r]) \subseteq Execs
  BY ItemsType
<1>2. \A e \in Execs : /\ Settled(e) => Settled(e)'
                       /\ Pending(e)' => Pending(e)
                       /\ Created(e) => Created(e)'
  BY OnlySettlesFacts
<1>3. OnlyUsedQueues'
  BY DEF OnlyMoves, IInv, OnlyUsedQueues, TypeOK
<1>4. ItemsAreAtHome'
  BY <1>1, <1>2 DEF OnlyMoves, IInv, ItemsAreAtHome
<1>5. CancelsStop'
  BY DEF OnlyMoves, IInv, CancelsStop, Callers
<1>6. ClosingStops'
  BY DEF OnlyMoves, IInv, ClosingStops
<1>7. OnlyCurrentRuns'
  BY <1>2 DEF OnlyMoves, IInv, OnlyCurrentRuns
<1>8. CancelsAwaitTheRest'
  <2>1. ASSUME NEW r \in QueueIds, pc'[r] = "skip" PROVE Settled(cur[r])'
    <3>1. CASE r = q
      BY <2>1, <3>1
    <3>2. CASE r # q
      <4>1. pc[r] = "skip" /\ cur'[r] = cur[r]
        BY <2>1, <3>2 DEF OnlyMoves
      <4>2. cur[r] \in Execs /\ Settled(cur[r])
        BY <4>1 DEF TypeOK, IInv, CancelsAwaitTheRest
      <4> QED BY <1>2, <4>1, <4>2
    <3> QED BY <3>1, <3>2
  <2>2. ASSUME NEW r \in QueueIds, NEW e \in ToSet(items'[r])
        PROVE  /\ \A c \in {"interrupt", "forced"} :
                    cancels'[r][c].call => Settled(e)' \/ e \in cancels'[r][c].awaits
               /\ pc'[r] = "cancelAll" => Settled(e)' \/ e \in cancels'[r]["loop"].awaits
               /\ pc'[r] = "cancelFailed" /\ e \in CellExecs =>
                    Settled(e)' \/ e \in cancels'[r]["loop"].awaits
    <3>1. e \in ToSet(items[r]) /\ (Settled(e) => Settled(e)')
      BY <1>1, <1>2 DEF OnlyMoves
    <3>2. CASE r = q
      BY <3>1, <3>2 DEF IInv, CancelsAwaitTheRest
    <3>3. CASE r # q
      BY <3>1, <3>3 DEF IInv, CancelsAwaitTheRest, OnlyMoves
    <3> QED BY <3>2, <3>3
  <2> QED BY <2>1, <2>2 DEF CancelsAwaitTheRest
<1>9. ASSUME NEW e \in Execs, Pending(e)'
      PROVE  /\ home[e] \in QueueIds
             /\ e \in ToSet(items'[home[e]])
             /\ IsCode(e) \/ pc'[home[e]] # "done"
             /\ e \in CellExecs /\ failed'[home[e]] => e \in started
  <2>1. Pending(e) /\ ~Settled(e)'
    BY <1>2, <1>9 DEF Pending
  <2>2. /\ home[e] \in QueueIds /\ e \in ToSet(items[home[e]])
        /\ IsCode(e) \/ pc[home[e]] # "done"
        /\ e \in CellExecs /\ failed[home[e]] => e \in started
    BY <2>1 DEF IInv, NothingLost, StoppedCellsStayStopped
  <2>3. CASE home[e] = q
    <3>1. e \in ToSet(items'[q])
      BY <2>1, <2>2, <2>3
    <3>2. e \in CellExecs => pc'[q] # "done"
      BY <2>1, <3>1
    <3>3. e \in CellExecs /\ failed'[q] => e \in started
      BY <2>1, <2>2, <2>3, <3>1
    <3> QED BY <2>2, <2>3, <3>1, <3>2, <3>3 DEF IsCode, Execs
  <2>4. CASE home[e] # q
    BY <2>2, <2>4 DEF OnlyMoves
  <2> QED BY <2>3, <2>4
<1>10. StoppedCellsStayStopped' /\ NothingLost'
  <2>1. UNCHANGED <<home, started>> /\ CellExecs \subseteq Execs
    BY DEF OnlyMoves, Execs
  <2> QED BY <1>9, <2>1 DEF StoppedCellsStayStopped, NothingLost
<1> QED BY <1>3, <1>4, <1>5, <1>6, <1>7, <1>8, <1>10 DEF IInv

(* The loop starts the first item.                                          *)
LEMMA StartStep ==
    ASSUME TypeOK, IInv, NEW q \in QueueIds, StartItem(q)
    PROVE  IInv'
<1>0. PICK e \in Execs : e = Head(items[q])
  BY ItemsType DEF StartItem
<1>1. /\ e \in Execs /\ home[e] = q /\ Created(e) /\ e \in ToSet(items[q])
      /\ pc[q] = "next" /\ MayStart(q, e)
      /\ cur' = [cur EXCEPT ![q] = e]
      /\ pc' = [pc EXCEPT ![q] = "run"]
      /\ UNCHANGED <<ownerVars, items, failed, cancels, birthVars, docVars>>
  <2>1. items[q] # <<>> /\ items[q] \in Seq(Execs)
    BY DEF StartItem, TypeOK
  <2>2. e \in ToSet(items[q])
    BY <1>0, <2>1, ToSetType
  <2>3. e \in Execs /\ home[e] = q /\ Created(e)
    BY <2>1, <2>2, ItemsType DEF IInv, ItemsAreAtHome
  <2> QED BY <1>0, <2>2, <2>3 DEF StartItem
<1>2. /\ started \subseteq started' /\ started' \subseteq started \cup {e}
      /\ \A f \in Execs : f # e => status'[f] = status[f]
      /\ Created(e)' /\ (Settled(e) => Settled(e)')
  <2>1. \/ StartNothing(e)
        \/ ~Settled(e) /\ StartResumed(e)
        \/ StartAtOnce(e, "rejected") \/ StartAtOnce(e, "resolved")
        \/ ~Settled(e) /\ StartRequest(e)
    BY <1>0 DEF StartItem
  <2>2. ASSUME NEW outcome \in {"resolved", "rejected"}, Settle({e}, outcome)
        PROVE  /\ \A f \in Execs : f # e => status'[f] = status[f]
               /\ Created(e)' /\ (Settled(e) => Settled(e)')
    BY <1>1, <2>2 DEF Settle, Created, Settled
  <2>3. CASE UNCHANGED status
    BY <1>1, <2>1, <2>3
       DEF StartNothing, StartResumed, StartAtOnce, StartRequest, Created, Settled
  <2>4. CASE ~Settled(e) /\ status' = [status EXCEPT ![e] = "sent"] /\ started' = started \cup {e}
    BY <1>1, <2>4 DEF TypeOK, Created
  <2>5. CASE StartNothing(e)
    BY <2>2, <2>3, <2>5 DEF StartNothing
  <2>6. CASE StartAtOnce(e, "rejected") \/ StartAtOnce(e, "resolved")
    BY <2>2, <2>6 DEF StartAtOnce
  <2> QED BY <2>1, <2>4, <2>5, <2>6 DEF StartResumed, StartRequest
<1>3. UNCHANGED <<docQueue, restart, restartQueue, items, failed, cancels, home, closed>>
  BY <1>1 DEF ownerVars, birthVars, docVars
<1>4. \A f \in Execs : /\ Settled(f) => Settled(f)'
                       /\ Pending(f)' => Pending(f)
                       /\ Created(f) => Created(f)'
  BY <1>1, <1>2 DEF Settled, Pending, Created
<1>5. \A r \in QueueIds : ToSet(items[r]) \subseteq Execs
  BY ItemsType
<1>6. /\ pc'[q] = "run" /\ cur'[q] = e
      /\ \A r \in QueueIds \ {q} : pc'[r] = pc[r] /\ cur'[r] = cur[r]
  BY <1>1 DEF TypeOK
<1>7. OnlyUsedQueues'
  BY <1>1, <1>3, <1>6 DEF IInv, OnlyUsedQueues, TypeOK
<1>8. ItemsAreAtHome'
  BY <1>3, <1>4, <1>5 DEF IInv, ItemsAreAtHome
<1>9. CancelsStop'
  BY <1>3, <1>6 DEF IInv, CancelsStop, Cancelling
<1>10. ClosingStops'
  BY <1>1, <1>3, <1>6 DEF IInv, ClosingStops
<1>11. OnlyCurrentRuns'
  <2>1. ASSUME NEW f \in Execs, f \in started' PROVE Created(f)'
    BY <1>2, <1>4, <2>1 DEF IInv, OnlyCurrentRuns
  <2>2. ASSUME NEW f \in Execs, f \in started', NEW r \in QueueIds, Pending(f)', home[f] = r
        PROVE  pc'[r] = "run" /\ cur'[r] = f
    <3>1. CASE f = e
      BY <1>1, <1>6, <2>2, <3>1
    <3>2. CASE f # e
      <4>1. f \in started /\ Pending(f)
        BY <1>2, <1>4, <2>2, <3>2
      <4>2. pc[r] = "run" /\ cur[r] = f
        BY <2>2, <4>1 DEF IInv, OnlyCurrentRuns
      <4>3. r # q
        BY <1>1, <4>2
      <4> QED BY <1>6, <4>2, <4>3
    <3> QED BY <3>1, <3>2
  <2> QED BY <1>3, <2>1, <2>2 DEF OnlyCurrentRuns
<1>12. CancelsAwaitTheRest'
  <2>1. ASSUME NEW r \in QueueIds, pc'[r] = "skip" PROVE Settled(cur[r])'
    <3>1. r # q
      BY <1>6, <2>1
    <3>2. pc[r] = "skip" /\ cur'[r] = cur[r] /\ cur[r] \in Execs /\ Settled(cur[r])
      BY <1>6, <2>1, <3>1 DEF TypeOK, IInv, CancelsAwaitTheRest
    <3> QED BY <1>4, <3>2
  <2>2. ASSUME NEW r \in QueueIds, NEW f \in ToSet(items[r])
        PROVE  Settled(f) => Settled(f)'
    BY <1>4, <1>5
  <2> QED BY <1>3, <1>6, <2>1, <2>2 DEF IInv, CancelsAwaitTheRest
<1>13. StoppedCellsStayStopped'
  BY <1>2, <1>3, <1>4 DEF IInv, StoppedCellsStayStopped, Execs
<1>14. NothingLost'
  BY <1>1, <1>3, <1>4, <1>6 DEF IInv, NothingLost
<1> QED BY <1>7, <1>8, <1>9, <1>10, <1>11, <1>12, <1>13, <1>14 DEF IInv

(* An execution is added to a queue, new or usable.                         *)
LEMMA AddStep ==
    ASSUME TypeOK, IInv, NEW q \in QueueIds, NEW e \in Execs,
           QueueCell(e, q) \/ QueueCode(e, q)
    PROVE  IInv'
<1>1. Push(e, q) /\ TargetQueue(q) /\ Quiet /\ ~closed /\ status[e] = "new"
  BY DEF QueueCell, QueueCode
<1>2. /\ docQueue' = q
      /\ items' = [items EXCEPT ![q] = Append(@, e)]
      /\ pc' = [pc EXCEPT ![q] = IF @ = "unused" THEN "session" ELSE @]
      /\ status' = [status EXCEPT ![e] = "queued"]
      /\ home' = [home EXCEPT ![e] = q]
      /\ UNCHANGED <<restart, restartQueue, failed, cur, cancels, started, closed>>
  BY <1>1 DEF Push, docVars
<1>3. ~failed[q] /\ (pc[q] = "unused" \/ items[q] # <<>>)
  BY <1>1 DEF TargetQueue, Reusable, IInv, OnlyUsedQueues
<1>4. \A r \in QueueIds : ToSet(items[r]) \subseteq Execs
  BY ItemsType
<1>5. /\ ToSet(items'[q]) = ToSet(items[q]) \cup {e}
      /\ items'[q] # <<>>
      /\ \A r \in QueueIds \ {q} : items'[r] = items[r]
  <2>1. items[q] \in Seq(Execs) /\ items'[q] = Append(items[q], e)
    BY <1>2 DEF TypeOK
  <2>2. ToSet(Append(items[q], e)) = ToSet(items[q]) \cup {e}
    BY <2>1, ToSetAppend
  <2>4. Append(items[q], e) # <<>>
    BY <2>1
  <2>3. \A r \in QueueIds \ {q} : items'[r] = items[r]
    BY <1>2 DEF TypeOK
  <2> QED BY <2>1, <2>2, <2>3, <2>4
<1>6. \A f \in Execs : f # e => status'[f] = status[f] /\ home'[f] = home[f]
  BY <1>2 DEF TypeOK
<1>7. status'[e] = "queued" /\ home'[e] = q /\ e \notin started /\ e \notin CellsIn(items[q])
  <2>1. status'[e] = "queued" /\ home'[e] = q
    BY <1>2 DEF TypeOK
  <2>2. ~Created(e)
    BY <1>1 DEF Created
  <2> QED BY <2>1, <2>2 DEF IInv, OnlyCurrentRuns, ItemsAreAtHome, CellsIn
<1>8. \A r \in QueueIds : /\ pc'[r] # "unused" => pc[r] # "unused" \/ r = q
                          /\ pc[r] # "unused" => pc'[r] = pc[r]
                          /\ r # q => pc'[r] = pc[r]
                          /\ pc'[q] \in {pc[q], "session"} /\ pc'[q] # "unused"
                          /\ cur'[r] = cur[r]
  BY <1>2 DEF TypeOK
<1>9. \A f \in Execs : f # e => /\ Settled(f)' <=> Settled(f)
                                /\ Pending(f)' <=> Pending(f)
                                /\ Created(f)' <=> Created(f)
  BY <1>6 DEF Settled, Pending, Created
<1>10. \A r \in QueueIds : e \notin ToSet(items[r])
  BY <1>1 DEF IInv, ItemsAreAtHome, Created
<1>11. OnlyUsedQueues'
  BY <1>2, <1>5, <1>8 DEF IInv, OnlyUsedQueues, TypeOK
<1>12. ItemsAreAtHome'
  <2>1. ASSUME NEW r \in QueueIds, NEW f \in ToSet(items'[r])
        PROVE  home'[f] = r /\ Created(f)'
    <3>1. CASE f = e
      <4>1. r = q
        BY <1>5, <1>10, <2>1, <3>1
      <4> QED BY <1>7, <3>1, <4>1 DEF Created
    <3>2. CASE f # e
      <4>1. f \in ToSet(items[r]) /\ f \in Execs
        BY <1>4, <1>5, <2>1, <3>2
      <4> QED BY <1>6, <1>9, <3>2, <4>1 DEF IInv, ItemsAreAtHome
    <3> QED BY <3>1, <3>2
  <2> QED BY <2>1 DEF ItemsAreAtHome
<1>13. CancelsStop'
  <2>1. pc'[q] \notin Cancelling /\ pc'[q] # "done"
    BY <1>3, <1>8 DEF IInv, CancelsStop, Cancelling
  <2> QED BY <1>2, <1>5, <1>8, <2>1 DEF IInv, CancelsStop
<1>14. ClosingStops'
  BY <1>1, <1>2 DEF ClosingStops
<1>15. OnlyCurrentRuns'
  <2>1. ASSUME NEW f \in Execs, f \in started PROVE f # e /\ Created(f)'
    BY <1>7, <1>9, <2>1 DEF IInv, OnlyCurrentRuns
  <2>2. ASSUME NEW f \in Execs, f \in started, NEW r \in QueueIds, Pending(f)', home'[f] = r
        PROVE  pc'[r] = "run" /\ cur'[r] = f
    <3>1. f # e /\ Pending(f) /\ home[f] = r
      BY <1>6, <1>9, <2>1, <2>2
    <3>2. pc[r] = "run" /\ cur[r] = f
      BY <2>2, <3>1 DEF IInv, OnlyCurrentRuns
    <3> QED BY <1>8, <3>2
  <2> QED BY <1>2, <2>1, <2>2 DEF OnlyCurrentRuns
<1>16. CancelsAwaitTheRest'
  <2>1. ASSUME NEW r \in QueueIds PROVE pc'[r] # "skip"
    BY <1>1, <1>8 DEF Quiet, Synchronous
  <2>2. CASE \A r \in QueueIds \ {q} : \A f \in ToSet(items[r]) : Settled(f)' <=> Settled(f)
    <3>1. ASSUME NEW r \in QueueIds \ {q}, NEW f \in ToSet(items'[r])
          PROVE  /\ \A c \in {"interrupt", "forced"} :
                      cancels'[r][c].call => Settled(f)' \/ f \in cancels'[r][c].awaits
                 /\ pc'[r] = "cancelAll" => Settled(f)' \/ f \in cancels'[r]["loop"].awaits
                 /\ pc'[r] = "cancelFailed" /\ f \in CellExecs =>
                      Settled(f)' \/ f \in cancels'[r]["loop"].awaits
      BY <1>2, <1>5, <1>8, <2>2 DEF IInv, CancelsAwaitTheRest
    <3>2. /\ \A c \in {"interrupt", "forced"} : ~cancels'[q][c].call
          /\ pc'[q] \notin {"cancelAll", "cancelFailed"}
      BY <1>2, <1>3, <1>8 DEF IInv, CancelsStop, Callers, Cancelling
    <3> QED BY <2>1, <3>1, <3>2 DEF CancelsAwaitTheRest
  <2> QED BY <1>4, <1>9, <1>10, <2>2
<1>17. StoppedCellsStayStopped' /\ NothingLost'
  <2>1. ASSUME NEW f \in Execs, Pending(f)'
        PROVE  /\ home'[f] \in QueueIds
               /\ f \in ToSet(items'[home'[f]])
               /\ IsCode(f) \/ pc'[home'[f]] # "done"
               /\ f \in CellExecs /\ failed[home'[f]] => f \in started
    <3>1. CASE f = e
      <4>1. pc'[q] # "done"
        BY <1>3, <1>8 DEF IInv, CancelsStop
      <4> QED BY <1>3, <1>5, <1>7, <3>1, <4>1
    <3>2. CASE f # e
      <4>1. Pending(f) /\ home'[f] = home[f]
        BY <1>6, <1>9, <2>1, <3>2
      <4>2. /\ home[f] \in QueueIds /\ f \in ToSet(items[home[f]])
            /\ IsCode(f) \/ pc[home[f]] # "done"
            /\ f \in CellExecs /\ failed[home[f]] => f \in started
        BY <4>1 DEF IInv, NothingLost, StoppedCellsStayStopped
      <4>3. pc'[home[f]] = "done" => pc[home[f]] = "done"
        BY <1>8, <4>2
      <4> QED BY <1>5, <4>1, <4>2, <4>3
    <3> QED BY <3>1, <3>2
  <2> QED BY <1>2, <2>1 DEF StoppedCellsStayStopped, NothingLost, Execs
<1> QED BY <1>11, <1>12, <1>13, <1>14, <1>15, <1>16, <1>17 DEF IInv

(* While a loop is not waiting for its item, nothing of its queue runs.     *)
LEMMA NothingRuns ==
    ASSUME TypeOK, IInv, NEW q \in QueueIds, pc[q] # "run" \/ Settled(cur[q])
    PROVE  /\ \A e \in started : home[e] = q => ~Pending(e)
           /\ \A e \in ToSet(items[q]) : e \in started => Settled(e)
<1>1. \A e \in started : home[e] = q => ~Pending(e)
  BY DEF TypeOK, IInv, OnlyCurrentRuns, Pending
<1>2. \A e \in ToSet(items[q]) : home[e] = q /\ Created(e)
  BY DEF IInv, ItemsAreAtHome
<1> QED BY <1>1, <1>2 DEF Pending

(* The loop cancels some of its queue and awaits that.                      *)
LEMMA LoopCancelsStep ==
    ASSUME TypeOK, IInv, NEW q \in QueueIds, NEW S \in SUBSET Execs, NEW l \in Cancelling,
           LoopCancels(q, S, l),
           pc[q] # "unused", pc[q] # "run" \/ Settled(cur[q]),
           UNCHANGED <<docQueue, restart, restartQueue, home, closed, cur>>,
           NEW s \in Seq(Execs), items' = [items EXCEPT ![q] = s],
           ToSet(s) \subseteq ToSet(items[q]),
           \A e \in ToSet(items[q]) : e \in ToSet(s) \/ Settled(e),
           ToSet(s) \cap CellExecs \subseteq S,
           l = "cancelAll" => ToSet(s) \subseteq S
    PROVE  IInv'
<1> DEFINE T == [r \in {q} |-> S]
<1>1. /\ failed' = [r \in QueueIds |-> failed[r] \/ r \in {q}]
      /\ OnlySettles
      /\ UNCHANGED started
      /\ \A e \in S : /\ Settled(e)' \/ e \in cancels'[q]["loop"].awaits
                      /\ e \notin started => Settled(e)'
      /\ \A r \in QueueIds : \A c \in Callers :
           r \notin {q} \/ c # "loop" => cancels'[r][c] = cancels[r][c]
      /\ pc' = [pc EXCEPT ![q] = l]
  <2>1. /\ DOMAIN T = {q} /\ T[q] = S /\ DOMAIN T \subseteq QueueIds
        /\ \A r \in DOMAIN T : T[r] \subseteq Execs
        /\ "loop" \in Callers /\ FALSE \in BOOLEAN
        /\ CancelItems(T, "loop", FALSE)
        /\ pc' = [pc EXCEPT ![q] = l]
    BY DEF LoopCancels, Callers
  <2> HIDE DEF T
  <2>2. /\ failed' = [r \in QueueIds |-> failed[r] \/ r \in DOMAIN T]
        /\ OnlySettles
        /\ UNCHANGED started
        /\ \A r \in DOMAIN T : \A e \in T[r] :
             /\ Settled(e)' \/ e \in cancels'[r]["loop"].awaits
             /\ e \notin started => Settled(e)'
        /\ \A r \in QueueIds : \A c \in Callers :
             r \notin DOMAIN T \/ c # "loop" => cancels'[r][c] = cancels[r][c]
    BY <2>1, CancelItemsEffect
  <2> QED BY <2>1, <2>2
<1>2. /\ items'[q] = s /\ pc'[q] = l /\ failed'[q]
      /\ \A r \in QueueIds \ {q} :
            items'[r] = items[r] /\ pc'[r] = pc[r] /\ (failed'[r] <=> failed[r])
  BY <1>1 DEF TypeOK
<1>3. \A r \in QueueIds \ {q} : cancels'[r] = cancels[r] /\ failed'[r] = failed[r]
  <2>1. \A r \in QueueIds \ {q} : cancels'[r] = cancels[r]
    BY DEF LoopCancels, CancelItems, TypeOK
  <2>2. \A r \in QueueIds \ {q} : failed'[r] = failed[r]
    BY <1>1 DEF TypeOK
  <2> QED BY <2>1, <2>2
<1>4. OnlyMoves(q)
  BY <1>1, <1>2, <1>3 DEF OnlyMoves
<1>5. \A c \in {"interrupt", "forced"} : cancels'[q][c] = cancels[q][c]
  BY <1>1 DEF Callers
<1>6. \A e \in ToSet(items[q]) : e \in Execs /\ (Settled(e) => Settled(e)')
  BY <1>1, ItemsType, OnlySettlesFacts
<1>7. \A e \in ToSet(s) \cap CellExecs : Settled(e)'
  BY <1>1, <1>6, NothingRuns
<1>8. \A e \in ToSet(items[q]) : e \in ToSet(s) \/ Settled(e)'
  BY <1>6
<1>9. \A e \in ToSet(s) : (l = "cancelAll" \/ (l = "cancelFailed" /\ e \in CellExecs)) =>
         Settled(e)' \/ e \in cancels'[q]["loop"].awaits
  BY <1>1
<1>10. \A e \in started : home[e] = q => ~Pending(e)
  BY NothingRuns
<1>11. l # "unused" /\ l # "done" /\ l # "skip"
  BY DEF Cancelling
<1> HIDE DEF T
<1> QED BY <1>1, <1>2, <1>4, <1>5, <1>7, <1>8, <1>9, <1>10, <1>11, MoveStep

(* The end of the loop's body, with s left in the queue.                    *)
LEMMA NextOrDeadStep ==
    ASSUME TypeOK, IInv, NEW q \in QueueIds, NEW s \in Seq(Execs), NextOrDead(q, s),
           pc[q] # "unused", pc[q] # "run" \/ Settled(cur[q]),
           UNCHANGED <<docQueue, restart, restartQueue, home, closed, cur>>,
           items' = [items EXCEPT ![q] = s],
           ToSet(s) \subseteq ToSet(items[q]),
           \A e \in ToSet(items[q]) : e \in ToSet(s) \/ Settled(e),
           BailOut(q) => failed[q] \/ ToSet(s) \cap CellExecs = {}
    PROVE  IInv'
<1>1. CASE q \in dead
  <2>1. LoopCancels(q, ToSet(s), "cancelAll")
    BY <1>1 DEF NextOrDead
  <2>2. ToSet(s) \in SUBSET Execs /\ "cancelAll" \in Cancelling
    BY ToSetType DEF Cancelling
  <2>3. ToSet(s) \cap CellExecs \subseteq ToSet(s)
    OBVIOUS
  <2> QED BY <2>1, <2>2, <2>3, LoopCancelsStep
<1>2. CASE q \notin dead
  <2>1. /\ pc' = [pc EXCEPT ![q] = "next"]
        /\ failed' = [failed EXCEPT ![q] = @ \/ BailOut(q)]
        /\ cancels' = [cancels EXCEPT ![q]["loop"] = Idle]
        /\ UNCHANGED <<status, started>>
    BY <1>2 DEF NextOrDead, execVars
  <2>2. OnlySettles
    BY <2>1 DEF OnlySettles
  <2>3. /\ pc'[q] = "next" /\ items'[q] = s /\ (failed'[q] <=> failed[q] \/ BailOut(q))
        /\ \A r \in QueueIds \ {q} :
              items'[r] = items[r] /\ pc'[r] = pc[r] /\ failed'[r] = failed[r]
    BY <2>1 DEF TypeOK
  <2>4. /\ \A r \in QueueIds \ {q} : cancels'[r] = cancels[r]
        /\ \A c \in {"interrupt", "forced"} : cancels'[q][c] = cancels[q][c]
        /\ ~cancels'[q]["loop"].call
    BY <2>1 DEF TypeOK, Callers, Idle
  <2>5. OnlyMoves(q)
    BY <2>1, <2>3, <2>4 DEF OnlyMoves
  <2>6. \A e \in Execs : Settled(e) => Settled(e)'
    BY <2>2, OnlySettlesFacts
  <2>7. \A e \in ToSet(items[q]) : e \in ToSet(s) \/ Settled(e)'
    BY <2>6, ItemsType
  <2>8. \A e \in started : home[e] = q => ~Pending(e)
    BY NothingRuns
  <2>9. "next" \notin Cancelling
    BY DEF Cancelling
  <2> QED BY <2>2, <2>3, <2>4, <2>5, <2>7, <2>8, <2>9, MoveStep
<1> QED BY <1>1, <1>2

(* What is left of the queue when its first item has been processed.        *)
LEMMA RestFacts ==
    ASSUME TypeOK, IInv, NEW q \in QueueIds, Processed(q)
    PROVE  /\ Rest(q) \in Seq(Execs)
           /\ ToSet(Rest(q)) \subseteq ToSet(items[q])
           /\ \A e \in ToSet(items[q]) : e \in ToSet(Rest(q)) \/ Settled(e)
           /\ pc[q] # "unused"
           /\ pc[q] # "run" \/ Settled(cur[q])
<1>1. items[q] \in Seq(Execs)
  BY DEF TypeOK
<1>2. /\ Rest(q) \in Seq(Execs)
      /\ ToSet(Rest(q)) \subseteq ToSet(items[q])
      /\ ToSet(items[q]) \subseteq ToSet(Rest(q)) \cup {cur[q]}
  BY <1>1, RemoveFirstType DEF Rest
<1>3. Settled(cur[q])
  BY DEF Processed, IInv, CancelsAwaitTheRest
<1> QED BY <1>2, <1>3 DEF Processed

(* The code that is kept is in the queue already.                           *)
LEMMA KeptCode ==
    ASSUME TypeOK, NEW q \in QueueIds
    PROVE  /\ items[q] \o CodeItems(items[q]) \in Seq(Execs)
           /\ ToSet(items[q] \o CodeItems(items[q])) = ToSet(items[q])
<1>1. items[q] \in Seq(Execs) /\ ToSet(items[q]) \subseteq Execs
  BY ItemsType DEF TypeOK
<1>2. CodeItems(items[q]) \in Seq(ToSet(items[q]) \cap CodeExecs)
  BY <1>1, CodeItemsType
<1> DEFINE k == CodeItems(items[q])
<1> HIDE DEF k
<1>3. k \in Seq(Execs) /\ ToSet(k) \subseteq ToSet(items[q])
  <2>1. ToSet(items[q]) \cap CodeExecs \subseteq Execs
    BY <1>1
  <2>2. k \in Seq(ToSet(items[q]) \cap CodeExecs)
    BY <1>2 DEF k
  <2>3. k \in Seq(Execs)
    BY <2>1, <2>2, SeqWiden
  <2>4. ToSet(k) \subseteq ToSet(items[q]) \cap CodeExecs
    BY <2>2, ToSetType
  <2> QED BY <2>3, <2>4
<1>4. /\ items[q] \o k \in Seq(Execs)
      /\ ToSet(items[q] \o k) = ToSet(items[q]) \cup ToSet(k)
  BY <1>1, <1>3, ToSetConcat
<1> QED BY <1>3, <1>4 DEF k

(* The steps of a queue keep the invariant.                                 *)
LEMMA QueueStepKeeps ==
    ASSUME TypeOK, IInv, NEW q \in QueueIds, QueueStep(q)
    PROVE  IInv'
<1> DEFINE same == UNCHANGED <<docQueue, restart, restartQueue, home, closed>>
<1>1. CASE QueueReady(q)
  <2>1. /\ pc[q] = "session" /\ pc' = [pc EXCEPT ![q] = "next"] /\ same
        /\ UNCHANGED <<items, failed, cur, cancels, status, started>>
    BY <1>1 DEF QueueReady, ownerVars, execVars, birthVars, docVars
  <2>2. OnlySettles /\ OnlyMoves(q) /\ pc'[q] = "next" /\ "next" \notin Cancelling
    BY <2>1 DEF OnlySettles, OnlyMoves, TypeOK, Cancelling
  <2>3. \A e \in started : home[e] = q => ~Pending(e)
    BY <2>1, NothingRuns
  <2>4. cancels'[q]["loop"].call => failed'[q]
    BY <2>1 DEF IInv, CancelsStop, Callers
  <2> QED BY <2>1, <2>2, <2>3, <2>4, MoveStep
<1>2. CASE QueueSessionFails(q)
  <2>1. /\ pc[q] = "session" /\ LoopCancels(q, CellsIn(items[q]), "cancelFailed") /\ same
        /\ UNCHANGED <<items, cur>>
    BY <1>2 DEF QueueSessionFails, ownerVars, birthVars
  <2>2. CellsIn(items[q]) \in SUBSET Execs /\ "cancelFailed" \in Cancelling
    BY ItemsType DEF Cancelling
  <2>3. items[q] \in Seq(Execs) /\ items' = [items EXCEPT ![q] = items[q]]
    BY <2>1 DEF TypeOK
  <2>4. ToSet(items[q]) \cap CellExecs \subseteq CellsIn(items[q])
    BY DEF CellsIn
  <2> QED BY <2>1, <2>2, <2>3, <2>4, LoopCancelsStep
<1>3. CASE QueueEnds(q)
  <2>1. /\ pc[q] = "next" /\ items[q] = <<>> /\ pc' = [pc EXCEPT ![q] = "done"] /\ same
        /\ UNCHANGED <<items, failed, cur, cancels, status, started>>
    BY <1>3 DEF QueueEnds, ownerVars, execVars, birthVars, docVars
  <2>2. OnlySettles /\ OnlyMoves(q) /\ pc'[q] = "done" /\ "done" \notin Cancelling
    BY <2>1 DEF OnlySettles, OnlyMoves, TypeOK, Cancelling
  <2>3. \A e \in started : home[e] = q => ~Pending(e)
    BY <2>1, NothingRuns
  <2>4. cancels'[q]["loop"].call => failed'[q]
    BY <2>1 DEF IInv, CancelsStop, Callers
  <2>5. ToSet(items'[q]) = {}
    BY <2>1 DEF ToSet
  <2>6. ToSet(items'[q]) = ToSet(items[q])
    BY <2>1
  <2> QED BY <2>1, <2>2, <2>3, <2>4, <2>5, <2>6, MoveStep
<1>4. CASE SkipItem(q)
  <2>0. PICK e \in Execs : e = Head(items[q])
    BY <1>4, ItemsType DEF SkipItem
  <2>1. /\ pc[q] = "next" /\ items[q] # <<>> /\ ~MayStart(q, e)
        /\ pc' = [pc EXCEPT ![q] = "skip"] /\ cur' = [cur EXCEPT ![q] = e] /\ same
        /\ UNCHANGED <<items, failed, cancels, status, started>>
    BY <1>4, <2>0 DEF SkipItem, ownerVars, execVars, birthVars, docVars
  <2>2. /\ OnlySettles /\ OnlyMoves(q) /\ pc'[q] = "skip" /\ "skip" \notin Cancelling
        /\ cur'[q] = e
    BY <2>1 DEF OnlySettles, OnlyMoves, TypeOK, Cancelling
  <2>3. \A f \in started : home[f] = q => ~Pending(f)
    BY <2>1, NothingRuns
  <2>4. cancels'[q]["loop"].call => failed'[q]
    BY <2>1 DEF IInv, CancelsStop, Callers
  <2>5. failed[q] /\ e \in CellExecs
    BY <2>1 DEF MayStart, IsCode, Execs, IInv, ClosingStops
  <2>6. e \in ToSet(items[q])
    BY <2>0, <2>1, ToSetType DEF TypeOK
  <2>7. Settled(e)
    <3>1. home[e] = q /\ Created(e)
      BY <2>6 DEF IInv, ItemsAreAtHome
    <3>2. Pending(e) => e \in started
      BY <2>5, <3>1 DEF IInv, StoppedCellsStayStopped
    <3> QED BY <2>3, <3>1, <3>2 DEF Pending
  <2>8. Settled(cur[q])'
    BY <2>1, <2>2, <2>7 DEF Settled
  <2> QED BY <2>1, <2>2, <2>3, <2>4, <2>8, MoveStep
<1>5. CASE FinishAndStop(q)
  <2>1. /\ Processed(q) /\ items' = [items EXCEPT ![q] = Rest(q)] /\ same
        /\ LoopCancels(q, ToSet(Rest(q)), "cancelAll") /\ UNCHANGED cur
    BY <1>5 DEF FinishAndStop, ownerVars, birthVars, docVars
  <2>2. ToSet(Rest(q)) \in SUBSET Execs /\ "cancelAll" \in Cancelling
        /\ ToSet(Rest(q)) \cap CellExecs \subseteq ToSet(Rest(q))
    BY <2>1, RestFacts, ItemsType DEF Cancelling
  <2> QED BY <2>1, <2>2, RestFacts, LoopCancelsStep
<1>6. CASE FinishAndKeepCode(q)
  <2>1. /\ Processed(q) /\ items' = [items EXCEPT ![q] = Rest(q)] /\ same
        /\ LoopCancels(q, CellsIn(Rest(q)), "cancelCells") /\ UNCHANGED cur
    BY <1>6 DEF FinishAndKeepCode, ownerVars, birthVars, docVars
  <2>2. CellsIn(Rest(q)) \in SUBSET Execs /\ "cancelCells" \in Cancelling
        /\ ToSet(Rest(q)) \cap CellExecs \subseteq CellsIn(Rest(q))
    BY <2>1, RestFacts, ItemsType DEF Cancelling, CellsIn
  <2> QED BY <2>1, <2>2, RestFacts, LoopCancelsStep
<1>7. CASE FinishAndContinue(q)
  <2>1. /\ Processed(q) /\ items' = [items EXCEPT ![q] = Rest(q)] /\ same
        /\ NextOrDead(q, Rest(q)) /\ UNCHANGED cur
        /\ BailOut(q) => ToSet(Rest(q)) \cap CellExecs = {}
    BY <1>7 DEF FinishAndContinue, ownerVars, birthVars, docVars, CellsIn
  <2> QED BY <2>1, RestFacts, NextOrDeadStep
<1>8. CASE CellsCancelled(q)
  <2> DEFINE s == items[q] \o CodeItems(items[q])
  <2>1. /\ pc[q] = "cancelCells" /\ items' = [items EXCEPT ![q] = s] /\ same
        /\ NextOrDead(q, s) /\ UNCHANGED cur
    BY <1>8 DEF CellsCancelled, ownerVars, birthVars, docVars
  <2>2. s \in Seq(Execs) /\ ToSet(s) = ToSet(items[q])
    BY KeptCode
  <2>3. failed[q]
    BY <2>1 DEF IInv, CancelsStop, Cancelling
  <2> HIDE DEF s
  <2> QED BY <2>1, <2>2, <2>3, NextOrDeadStep
<1>9. CASE LoopCancelled(q)
  <2> DEFINE s == IF pc[q] = "cancelAll" THEN <<>> ELSE items[q] \o CodeItems(items[q])
  <2>1. /\ pc[q] \in {"cancelAll", "cancelFailed"} /\ CanReturn(q, "loop")
        /\ items' = [items EXCEPT ![q] = s] /\ same
        /\ pc' = [pc EXCEPT ![q] = "done"]
        /\ cancels' = [cancels EXCEPT ![q]["loop"] = Idle]
        /\ UNCHANGED <<failed, cur, status, started>>
    BY <1>9 DEF LoopCancelled, ownerVars, execVars, birthVars, docVars, TypeOK
  <2>2. /\ ToSet(s) \subseteq ToSet(items[q])
        /\ pc[q] = "cancelAll" => s = <<>> /\ ToSet(s) = {}
        /\ pc[q] # "cancelAll" => ToSet(s) = ToSet(items[q])
    <3>1. \A x : x = <<>> => ToSet(x) = {}
      BY DEF ToSet
    <3>2. CASE pc[q] = "cancelAll"
      BY <3>1, <3>2
    <3>3. CASE pc[q] # "cancelAll"
      BY <3>3, KeptCode
    <3> QED BY <3>2, <3>3
  <2> HIDE DEF s
  <2>3. OnlySettles /\ pc'[q] = "done" /\ "done" \notin Cancelling /\ items'[q] = s
    BY <2>1 DEF OnlySettles, TypeOK, Cancelling
  <2>4. /\ \A r \in QueueIds \ {q} : cancels'[r] = cancels[r]
        /\ \A c \in {"interrupt", "forced"} : cancels'[q][c] = cancels[q][c]
        /\ ~cancels'[q]["loop"].call
    BY <2>1 DEF TypeOK, Callers, Idle
  <2>5. OnlyMoves(q)
    BY <2>1, <2>4 DEF OnlyMoves, TypeOK
  <2>6. \A e \in started : home[e] = q => ~Pending(e)
    BY <2>1, NothingRuns
  <2>7. failed[q]
    BY <2>1 DEF IInv, CancelsStop, Cancelling
  <2>8. ASSUME NEW e \in ToSet(items[q]), pc[q] = "cancelAll" \/ e \in CellExecs
        PROVE  Settled(e)'
    <3>1. Settled(e) \/ e \in cancels[q]["loop"].awaits
      BY <2>1, <2>8 DEF IInv, CancelsAwaitTheRest
    <3>2. Settled(e)
      BY <2>1, <3>1 DEF CanReturn
    <3> QED BY <2>1, <3>2 DEF Settled
  <2>9. \A e \in ToSet(items[q]) : e \in ToSet(items'[q]) \/ Settled(e)'
    BY <2>2, <2>3, <2>8
  <2>10. \A e \in ToSet(items'[q]) \cap CellExecs : Settled(e)'
    BY <2>2, <2>3, <2>8
  <2> QED BY <2>1, <2>2, <2>3, <2>4, <2>5, <2>6, <2>7, <2>9, <2>10, MoveStep
<1> QED BY <1>1, <1>2, <1>3, <1>4, <1>5, <1>6, <1>7, <1>8, <1>9, StartStep
        DEF QueueStep, SessionStep, LoopStep

(* Cancels of the side, and those that return.                              *)
LEMMA CancelsKeep ==
    ASSUME TypeOK, IInv,
           \/ Interrupt \/ WillCancel \/ CloseNotebook \/ RestartCancels
           \/ \E q \in QueueIds : ReturnStep(q)
    PROVE  IInv'
<1>1. CASE Interrupt
  <2>1. /\ docQueue \in QueueIds
        /\ CancelItems([q \in {docQueue} |-> ToSet(items[q])], "interrupt", FALSE)
        /\ UNCHANGED <<docQueue, restart, restartQueue, items, pc, cur, home, closed>>
    BY <1>1 DEF Interrupt, ownerVars, birthVars
  <2>2. {docQueue} \in SUBSET QueueIds /\ \A q \in {docQueue} : pc[q] # "unused"
    BY <2>1 DEF IInv, OnlyUsedQueues
  <2> QED BY <2>1, <2>2, CancelStep
<1>2. ASSUME NEW Q \in SUBSET QueueIds, ForceCancel(Q), \A q \in Q : pc[q] # "unused",
             UNCHANGED <<docQueue, items, pc, cur, home>>,
             closed' => closed \/ \A q \in QueueIds : pc[q] # "unused" => failed[q] \/ q \in Q,
             restart' = "waiting" => restart = "waiting" /\ restartQueue' = restartQueue
      PROVE  IInv'
  <2> DEFINE R == {q \in Q : ~cancels[q]["forced"].call}
  <2>1. CancelItems([q \in R |-> ToSet(items[q])], "forced", TRUE)
    BY <1>2 DEF ForceCancel
  <2>2. \A q \in Q : failed[q] \/ q \in R
    BY DEF IInv, CancelsStop, Callers
  <2>3. R \in SUBSET QueueIds /\ \A q \in R : pc[q] # "unused"
    BY <1>2
  <2> HIDE DEF R
  <2> QED BY <1>2, <2>1, <2>2, <2>3, CancelStep
<1>3. CASE WillCancel
  <2>1. /\ docQueue \in QueueIds /\ ForceCancel({docQueue})
        /\ UNCHANGED <<docQueue, restart, restartQueue, items, pc, cur, home, closed>>
    BY <1>3 DEF WillCancel, ownerVars, birthVars
  <2>2. {docQueue} \in SUBSET QueueIds /\ \A q \in {docQueue} : pc[q] # "unused"
    BY <2>1 DEF IInv, OnlyUsedQueues
  <2> QED BY <1>2, <2>1, <2>2
<1>4. CASE CloseNotebook
  <2> DEFINE Q == {q \in QueueIds : pc[q] # "unused" /\ (~failed[q] \/ items[q] # <<>>)}
  <2>1. /\ ForceCancel(Q)
        /\ UNCHANGED <<docQueue, restart, restartQueue, items, pc, cur, home>>
    BY <1>4 DEF CloseNotebook, ownerVars, birthVars
  <2>2. /\ Q \in SUBSET QueueIds /\ \A q \in Q : pc[q] # "unused"
        /\ \A q \in QueueIds : pc[q] # "unused" => failed[q] \/ q \in Q
    OBVIOUS
  <2> HIDE DEF Q
  <2> QED BY <1>2, <2>1, <2>2
<1>5. CASE RestartCancels
  <2>1. /\ restart = "waiting" /\ restart' = "cancelled" /\ ForceCancel({restartQueue})
        /\ UNCHANGED <<docQueue, items, pc, cur, home, closed>>
    BY <1>5 DEF RestartCancels, birthVars, docVars
  <2>2. {restartQueue} \in SUBSET QueueIds /\ \A q \in {restartQueue} : pc[q] # "unused"
    BY <2>1 DEF TypeOK, IInv, OnlyUsedQueues
  <2> QED BY <1>2, <2>1, <2>2
<1>6. ASSUME NEW q \in QueueIds, NEW c \in Callers, CancelReturns(q, c) PROVE IInv'
  <2>1. /\ c \in {"interrupt", "forced"} /\ CanReturn(q, c) /\ Quiet
        /\ cancels' = [cancels EXCEPT ![q][c] = Idle] /\ items' = [items EXCEPT ![q] = <<>>]
        /\ UNCHANGED <<docQueue, restart, restartQueue, home, closed, failed, pc, cur,
                       status, started>>
    BY <1>6 DEF CancelReturns, ownerVars, birthVars, docVars, execVars
  <2>2. \A e \in ToSet(items[q]) : Settled(e)
    BY <2>1 DEF IInv, CancelsAwaitTheRest, CanReturn
  <2>3. OnlySettles /\ items'[q] = <<>> /\ ToSet(items'[q]) = {}
    BY <2>1 DEF OnlySettles, TypeOK, ToSet
  <2>4. failed[q] /\ pc[q] # "unused" /\ pc[q] # "skip"
    BY <2>1 DEF CanReturn, IInv, CancelsStop, Callers, OnlyUsedQueues, Quiet, Synchronous
  <2>5. \A d \in {"interrupt", "forced"} :
           cancels'[q][d].call => cancels'[q][d] = cancels[q][d]
    <3>1. ~Idle.call
      BY DEF Idle
    <3> QED BY <2>1, <3>1 DEF TypeOK, Callers
  <2>6. OnlyMoves(q)
    BY <2>1 DEF OnlyMoves, TypeOK
  <2>7. \A e \in started : home[e] = q => ~Pending(e)
    BY <2>2 DEF IInv, NothingLost, Pending, TypeOK
  <2>8. \A e \in ToSet(items[q]) : Settled(e)'
    BY <2>1, <2>2 DEF Settled
  <2> QED BY <2>1, <2>3, <2>4, <2>5, <2>6, <2>7, <2>8, MoveStep
<1> QED BY <1>1, <1>3, <1>4, <1>5, <1>6 DEF ReturnStep

(* Executions settled from the side, the kernel and its restart.            *)
LEMMA SideKeeps ==
    ASSUME TypeOK, IInv,
           \/ \E e \in CodeExecs : CodeInterrupted(e) \/ CancelCode(e)
           \/ \E c \in Cells : DeleteCell(c)
           \/ KernelStep \/ Acknowledge \/ KernelDies \/ AutoRestarts
           \/ RestartAsked \/ Restarted
           \/ \E e \in Resumed, o \in {"resolved", "rejected"} : ResumedEnds(e, o)
    PROVE  IInv'
<1>1. ASSUME \/ UNCHANGED status
             \/ \E S : \E o \in {"resolved", "rejected"} : Settle(S, o),
             UNCHANGED <<docQueue, queueVars, started, birthVars, closed>>,
             restart' = "waiting" => pc[restartQueue'] # "unused"
      PROVE  IInv'
  <2>1. OnlySettles
    BY <1>1, SettleOnlySettles DEF OnlySettles
  <2> QED BY <1>1, <2>1, SideStep DEF queueVars, birthVars
<1>2. restart = "waiting" => pc[restartQueue] # "unused"
  BY DEF IInv, OnlyUsedQueues
<1>3. ASSUME NEW e \in CodeExecs, CodeInterrupted(e) PROVE IInv'
  BY <1>1, <1>2, <1>3 DEF CodeInterrupted, ownerVars, docVars
<1>4. ASSUME NEW e \in CodeExecs, CancelCode(e) PROVE IInv'
  BY <1>1, <1>2, <1>4 DEF CancelCode, ownerVars
<1>5. ASSUME NEW c \in Cells, DeleteCell(c) PROVE IInv'
  BY <1>1, <1>2, <1>5 DEF DeleteCell, ownerVars
<1>6. ASSUME NEW o \in {"resolved", "rejected"}, Reply(o) PROVE IInv'
  BY <1>1, <1>2, <1>6 DEF Reply, ownerVars, docVars
<1>7. CASE Begin
  BY <1>1, <1>2, <1>7 DEF Begin, ownerVars, docVars, execVars
<1>8. CASE Acknowledge
  BY <1>1, <1>2, <1>8 DEF Acknowledge, ownerVars, docVars
<1>9. ASSUME NEW e \in Resumed, NEW o \in {"resolved", "rejected"}, ResumedEnds(e, o) PROVE IInv'
  BY <1>1, <1>2, <1>9 DEF ResumedEnds, ownerVars, docVars
<1>10. CASE KernelDies \/ AutoRestarts
  BY <1>1, <1>2, <1>10 DEF KernelDies, AutoRestarts, FuturesRejected, ownerVars
<1>11. CASE RestartAsked
  <2>1. pc[docQueue] # "unused"
    BY <1>11 DEF RestartAsked, IInv, OnlyUsedQueues
  <2> QED BY <1>1, <1>11, <2>1 DEF RestartAsked, execVars
<1>12. CASE Restarted
  BY <1>1, <1>12 DEF Restarted, FuturesRejected
<1> QED BY <1>3, <1>4, <1>5, <1>6, <1>7, <1>8, <1>9, <1>10, <1>11, <1>12 DEF KernelStep

-----------------------------------------------------------------------------
(* The theorems.                                                            *)

(* In the initial state there is nothing to lose.                           *)
LEMMA InitKeeps == Init => IInv
<1> SUFFICES ASSUME Init PROVE IInv
  OBVIOUS
<1>1. /\ \A q \in QueueIds : items[q] = <<>> /\ ToSet(items[q]) = {}
      /\ \A q \in QueueIds : pc[q] = "unused" /\ ~failed[q]
      /\ \A q \in QueueIds : \A c \in Callers : ~cancels[q][c].call
      /\ started = {} /\ ~closed
      /\ \A e \in Execs : ~Pending(e)
      /\ docQueue \notin QueueIds /\ restart = "no"
  BY ConstantsAssumption DEF Init, Idle, ToSet, Pending, Created
<1> QED BY <1>1 DEF IInv, OnlyUsedQueues, ItemsAreAtHome, CancelsStop, Cancelling,
            ClosingStops, OnlyCurrentRuns, CancelsAwaitTheRest, Callers,
            StoppedCellsStayStopped, NothingLost, Execs

(* The invariant is inductive.                                              *)
LEMMA NextKeeps == TypeOK /\ IInv /\ [Next]_vars => IInv'
<1> SUFFICES ASSUME TypeOK, IInv, [Next]_vars PROVE IInv'
  OBVIOUS
<1>1. CASE UNCHANGED vars
  <2>1. UNCHANGED <<docQueue, restart, restartQueue, items, failed, pc, cur, cancels,
                    status, started, home, closed>>
    BY <1>1 DEF vars, ownerVars, queueVars, execVars, birthVars, docVars
  <2>2. OnlySettles
    BY <2>1 DEF OnlySettles
  <2>3. restart = "waiting" => pc[restartQueue] # "unused"
    BY DEF IInv, OnlyUsedQueues
  <2> QED BY <2>1, <2>2, <2>3, SideStep
<1>2. CASE Requests
  <2>1. CellExecs \subseteq Execs /\ CodeExecs \subseteq Execs
    BY DEF Execs
  <2>2. ASSUME NEW q \in QueueIds, NEW e \in Execs, QueueCell(e, q) \/ QueueCode(e, q)
        PROVE  IInv'
    BY <2>2, AddStep
  <2> QED BY <1>2, <2>1, <2>2, CancelsKeep, SideKeeps DEF Requests
<1>3. CASE \E q \in QueueIds : QueueStep(q) \/ ReturnStep(q)
  BY <1>3, QueueStepKeeps, CancelsKeep
<1> QED BY <1>1, <1>2, <1>3, SideKeeps DEF Next

(* The invariant, for every instance.                                       *)
THEOREM InvariantHolds == Spec => []IInv
<1>1. Init => IInv
  BY InitKeeps
<1>2. TypeOK /\ IInv /\ [Next]_vars => IInv'
  BY NextKeeps
<1> QED BY <1>1, <1>2, TypeCorrect, PTL DEF Spec

(* An execution whose result is awaited is in its queue, and no cell is     *)
(* pending in a queue whose loop is over, whatever cancels, closes, fails   *)
(* or restarts in between (CellExecutionQueue.cancel, executeQueuedCells).  *)
THEOREM NothingIsLost == Spec => []NothingLost
<1>1. IInv => NothingLost
  BY DEF IInv
<1> QED BY <1>1, InvariantHolds, PTL

(* Once a queue is stopped no cell of it waits to be started                *)
(* (CellExecutionQueue.cancel, onWillInterrupt, onWillRestart).             *)
THEOREM StoppedStayStopped == Spec => []StoppedCellsStayStopped
<1>1. IInv => StoppedCellsStayStopped
  BY DEF IInv
<1> QED BY <1>1, InvariantHolds, PTL

(* A queue that getOrCreateCellExecutionQueue would add to has a loop that  *)
(* will come to what is added.                                              *)
THEOREM UsableIsServed == Spec => []UsableQueueIsServed
<1>1. TypeOK /\ IInv => UsableQueueIsServed
  BY DEF TypeOK, PCs, IInv, OnlyUsedQueues, CancelsStop, Cancelling,
         UsableQueueIsServed, Reusable
<1> QED BY <1>1, TypeCorrect, InvariantHolds, PTL

(* Once made, an execution remains in the queue it was added to.            *)
LEMMA StaysHome ==
    ASSUME TypeOK, [Next]_vars, NEW e \in Execs, Created(e)
    PROVE  Created(e)' /\ home'[e] = home[e]
<1>1. ASSUME UNCHANGED home,
             \/ UNCHANGED status
             \/ \E S : \E o \in {"resolved", "rejected"} : Settle(S, o)
      PROVE  Created(e)' /\ home'[e] = home[e]
  <2>1. OnlySettles
    BY <1>1, SettleOnlySettles DEF OnlySettles
  <2> QED BY <1>1, <2>1, OnlySettlesFacts
<1>2. ASSUME NEW T, NEW c, NEW forced, CancelItems(T, c, forced)
      PROVE  \E S : Settle(S, "resolved")
  BY <1>2 DEF CancelItems
<1>3. ASSUME NEW q \in QueueIds, NEW s, NextOrDead(q, s)
      PROVE  UNCHANGED status \/ \E S : Settle(S, "resolved")
  <2>1. CASE q \in dead
    BY <1>2, <1>3, <2>1 DEF NextOrDead, LoopCancels
  <2>2. CASE q \notin dead
    BY <1>3, <2>2 DEF NextOrDead, execVars
  <2> QED BY <2>1, <2>2
<1>4. CASE UNCHANGED vars
  BY <1>1, <1>4 DEF vars, execVars, birthVars
<1>5. ASSUME NEW q \in QueueIds, NEW f \in Execs, QueueCell(f, q) \/ QueueCode(f, q)
      PROVE  Created(e)' /\ home'[e] = home[e]
  <2>1. status[f] = "new" /\ status' = [status EXCEPT ![f] = "queued"]
        /\ home' = [home EXCEPT ![f] = q]
    BY <1>5 DEF QueueCell, QueueCode, Push
  <2>2. f # e
    BY <2>1 DEF Created
  <2> QED BY <2>1, <2>2 DEF TypeOK, Created
<1>6. CASE Interrupt \/ WillCancel \/ CloseNotebook \/ RestartCancels
  <2>1. UNCHANGED home /\ \E S : Settle(S, "resolved")
    BY <1>2, <1>6 DEF Interrupt, WillCancel, CloseNotebook, RestartCancels, ForceCancel, birthVars
  <2> QED BY <1>1, <2>1
<1>7. ASSUME NEW f \in CodeExecs, CodeInterrupted(f) \/ CancelCode(f)
      PROVE  Created(e)' /\ home'[e] = home[e]
  BY <1>1, <1>7 DEF CodeInterrupted, CancelCode, birthVars
<1>8. CASE \E c \in Cells : DeleteCell(c)
  BY <1>1, <1>8 DEF DeleteCell, birthVars
<1>9. CASE RestartAsked \/ Restarted \/ KernelDies \/ AutoRestarts \/ Acknowledge
  BY <1>1, <1>9 DEF RestartAsked, Restarted, KernelDies, AutoRestarts, Acknowledge,
                    FuturesRejected, birthVars, execVars
<1>10. CASE KernelStep
  BY <1>1, <1>10 DEF KernelStep, Begin, Reply, birthVars, execVars
<1>11. CASE \E f \in Resumed, o \in {"resolved", "rejected"} : ResumedEnds(f, o)
  BY <1>1, <1>11 DEF ResumedEnds, birthVars
<1>12. ASSUME NEW q \in QueueIds, StartItem(q)
       PROVE  Created(e)' /\ home'[e] = home[e]
  <2>1. PICK f \in Execs : f = Head(items[q])
    BY <1>12, ItemsType DEF StartItem
  <2>2. UNCHANGED home
    BY <1>12 DEF StartItem, birthVars
  <2>3. \/ StartNothing(f) \/ StartResumed(f) \/ StartRequest(f)
        \/ StartAtOnce(f, "rejected") \/ StartAtOnce(f, "resolved")
    BY <1>12, <2>1 DEF StartItem
  <2>4. CASE status' = [status EXCEPT ![f] = "sent"]
    BY <2>2, <2>4 DEF TypeOK, Created
  <2> QED BY <1>1, <2>2, <2>3, <2>4
          DEF StartNothing, StartResumed, StartRequest, StartAtOnce
<1>13. ASSUME NEW q \in QueueIds, QueueStep(q) \/ ReturnStep(q)
       PROVE  Created(e)' /\ home'[e] = home[e]
  <2>1. CASE QueueReady(q) \/ QueueEnds(q) \/ SkipItem(q) \/ LoopCancelled(q) \/ ReturnStep(q)
    BY <1>1, <2>1 DEF QueueReady, QueueEnds, SkipItem, LoopCancelled, ReturnStep,
                      CancelReturns, birthVars, execVars
  <2>2. CASE QueueSessionFails(q) \/ FinishAndStop(q) \/ FinishAndKeepCode(q)
    BY <1>1, <1>2, <2>2 DEF QueueSessionFails, FinishAndStop, FinishAndKeepCode,
                            LoopCancels, birthVars
  <2>3. CASE FinishAndContinue(q) \/ CellsCancelled(q)
    BY <1>1, <1>3, <2>3 DEF FinishAndContinue, CellsCancelled, birthVars
  <2> QED BY <1>12, <1>13, <2>1, <2>2, <2>3 DEF QueueStep, SessionStep, LoopStep
<1>14. CellExecs \subseteq Execs /\ CodeExecs \subseteq Execs
  BY DEF Execs
<1> QED BY <1>4, <1>5, <1>6, <1>7, <1>8, <1>9, <1>10, <1>11, <1>13, <1>14
        DEF Next, Requests

(* No step drops an execution from a queue unless it is, or is then,        *)
(* settled (the splice of the whole queue at the end of cancel()).          *)
THEOREM DropsAreSettled == Spec => DropsOnlySettled
<1> DEFINE A == \A e \in Execs : Pending(e) =>
                  \A q \in QueueIds : e \in ToSet(items[q]) =>
                      (e \in ToSet(items'[q]) \/ status'[e] \in {"resolved", "rejected"})
<1>1. TypeOK /\ IInv /\ IInv' /\ [Next]_vars => A
  <2> SUFFICES ASSUME TypeOK, IInv, IInv', [Next]_vars,
                      NEW e \in Execs, Pending(e), NEW q \in QueueIds, e \in ToSet(items[q]),
                      status'[e] \notin {"resolved", "rejected"}
               PROVE  e \in ToSet(items'[q])
    OBVIOUS
  <2>1. Created(e)' /\ home'[e] = home[e] /\ home[e] = q
    BY StaysHome DEF Pending, IInv, ItemsAreAtHome
  <2>2. Pending(e)'
    BY <2>1 DEF Pending, Settled
  <2> QED BY <2>1, <2>2 DEF IInv, NothingLost
<1>2. TypeOK /\ IInv /\ IInv' /\ [Next]_vars => [A]_vars
  BY <1>1
<1> HIDE DEF A
<1>3. Spec => [][A]_vars
  BY <1>2, TypeCorrect, InvariantHolds, PTL DEF Spec
<1> QED BY <1>3 DEF A, DropsOnlySettled

=============================================================================
