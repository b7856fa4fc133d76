----------------------- MODULE NotebookKernels_proofs -----------------------
(***************************************************************************)
(* Theorems about NotebookKernels, for any controllers, callers and number *)
(* of troubles.                                                            *)
(***************************************************************************)
EXTENDS NotebookKernels, SequenceTheorems, TLAPS

Kernel == [of : Controllers, session : Sessions,
           down : {"no", "disposing", "disposed"}, forgotten : BOOLEAN]

Conn == [of : Controllers, ui : BOOLEAN, at : Stages, kernel : Nat, noRestart : BOOLEAN,
         again : BOOLEAN, asked : BOOLEAN, listens : BOOLEAN,
         command : Commands \cup {"none"}]

Call == [at : {"idle", "waiting", "got", "failed"}, conn : Nat, kernel : Nat,
         ui : BOOLEAN, own : BOOLEAN, target : Nat]

IsOver(con) == con.at \in {"done", "failed"}

(* Of the kernels ks, in use or able to be.                                 *)
Current(ks, k) == ks[k].down = "no" /\ ~ks[k].forgotten

(* The invariant, of the kernels ks with m in the map, and the connections  *)
(* cs with c in the cache: the values of an intermediate point of a step.   *)
KernelsGood(ks, m) ==
    /\ ks \in Seq(Kernel) /\ m \in 0..Len(ks)
    /\ \A k \in 1..Len(ks) : ks[k].down = "disposed" => ks[k].session \in {"none", "gone"}
    /\ \A k \in 1..Len(ks) : Current(ks, k) => k = m

ConnsGood(ks, cs, c) ==
    /\ cs \in Seq(Conn) /\ c \in 0..Len(cs)
    /\ \A i \in 1..Len(cs) :
         /\ cs[i].kernel \in 0..Len(ks)
         /\ cs[i].kernel = 0 => cs[i].at = "failed"
         /\ IsOver(cs[i]) \/ i = c \/ Overtaken(cs, i)

(* Kernels that were made for a closed notebook do not start, and nobody    *)
(* connects to them.                                                        *)
NoneForClosed(ks, cs) ==
    ~open => \A k \in 1..Len(ks) :
                Current(ks, k) => /\ ks[k].session = "none"
                                  /\ \A i \in 1..Len(cs) : cs[i].kernel # k

Good(ks, m, cs, c) ==
    KernelsGood(ks, m) /\ ConnsGood(ks, cs, c) /\ NoneForClosed(ks, cs)

Rest ==
    /\ open \in BOOLEAN /\ selected \in Controllers /\ switching \subseteq Controllers
    /\ mapped # 0 => kernels[mapped].down # "disposed"
    /\ calls \in [Callers -> Call]
    /\ \A x \in Callers : calls[x].at = "waiting" => calls[x].conn \in 1..Len(conns)
    /\ troubles \in 0..MaxTroubles

IInv == Good(kernels, mapped, conns, cached) /\ Rest

-----------------------------------------------------------------------------
(* The effects that actions share.                                          *)

(* A kernel that is changed by no more than its session and its disposal.   *)
LEMMA ChangedKernel ==
  ASSUME NEW ks, NEW m, NEW cs, NEW c, Good(ks, m, cs, c),
         NEW k \in 1..Len(ks), NEW new \in Kernel,
         new.down = "disposed" => new.session \in {"none", "gone"},
         ~new.forgotten => ~ks[k].forgotten,
         new.down = "no" => ks[k].down = "no",
         ~open /\ new.down = "no" /\ ~new.forgotten => new.session = ks[k].session
  PROVE  Good([ks EXCEPT ![k] = new], m, cs, c)
<1> DEFINE t == [ks EXCEPT ![k] = new]
<1> USE DEF Good
<1>1. ks \in Seq(Kernel)
  BY DEF KernelsGood
<1>2. t \in Seq(Kernel) /\ Len(t) = Len(ks)
  BY <1>1
<1>3. \A j \in 1..Len(ks) : t[j] = IF j = k THEN new ELSE ks[j]
  BY <1>1
<1> HIDE DEF t
<1>4. \A j \in 1..Len(ks) : Current(t, j) => Current(ks, j)
  BY <1>3 DEF Current
<1>5. KernelsGood(t, m)
  BY <1>2, <1>3, <1>4 DEF KernelsGood
<1>6. ConnsGood(t, cs, c)
  BY <1>2 DEF ConnsGood
<1>7. NoneForClosed(t, cs)
  BY <1>2, <1>3, <1>4 DEF NoneForClosed, Current
<1> QED
  BY <1>5, <1>6, <1>7 DEF t

(* dispose().                                                               *)
LEMMA DisposedGood ==
  ASSUME NEW ks, NEW m, NEW cs, NEW c, Good(ks, m, cs, c), NEW k \in 0..Len(ks)
  PROVE  /\ Good(Disposed(ks, k), m, cs, c)
         /\ Len(Disposed(ks, k)) = Len(ks)
         /\ k # 0 => Disposed(ks, k)[k].down # "no"
         /\ \A j \in 1..Len(ks) : /\ Disposed(ks, k)[j].of = ks[j].of
                                  /\ j # k => Disposed(ks, k)[j] = ks[j]
<1>1. CASE k = 0 \/ ks[k].down # "no"
  BY <1>1 DEF Disposed
<1>2. CASE k # 0 /\ ks[k].down = "no"
  <2> DEFINE new == IF ks[k].session = "starting" THEN [ks[k] EXCEPT !.down = "disposing"]
                    ELSE [ks[k] EXCEPT !.down = "disposed",
                              !.session = IF ks[k].session = "gone" THEN "gone" ELSE "none"]
  <2>1. ks \in Seq(Kernel) /\ ks[k] \in Kernel
    BY <1>2 DEF Good, KernelsGood
  <2>2. /\ new \in Kernel /\ new.of = ks[k].of /\ new.forgotten = ks[k].forgotten
        /\ new.down # "no"
        /\ new.down = "disposed" => new.session \in {"none", "gone"}
    BY <2>1 DEF Kernel, Sessions
  <2>3. Disposed(ks, k) = [ks EXCEPT ![k] = new]
    BY <1>2 DEF Disposed
  <2> HIDE DEF new
  <2>4. Good([ks EXCEPT ![k] = new], m, cs, c)
    BY <1>2, <2>2, ChangedKernel
  <2>5. \A j \in 1..Len(ks) : [ks EXCEPT ![k] = new][j] = IF j = k THEN new ELSE ks[j]
    BY <2>1
  <2> QED
    BY <1>2, <2>1, <2>2, <2>3, <2>4, <2>5
<1> QED
  BY <1>1, <1>2

(* A kernel that is disposed is taken out of the map.                       *)
LEMMA UnmappedGood ==
  ASSUME NEW ks, NEW m, NEW cs, NEW c, Good(ks, m, cs, c)
  PROVE  /\ Good(ks, UnlessDisposed(m, ks), cs, c)
         /\ LET n == UnlessDisposed(m, ks) IN n # 0 => ks[n].down # "disposed"
  BY DEF Good, KernelsGood, UnlessDisposed, Current

(* Become is how a step ends.                                               *)
LEMMA BecomeGood ==
  ASSUME NEW ks, NEW m, NEW cs, NEW c, Good(ks, m, cs, c), Become(ks, m, cs, c)
  PROVE  /\ KernelsGood(kernels', mapped') /\ ConnsGood(kernels', conns', cached')
         /\ kernels' = ks /\ conns' = cs
         /\ mapped' # 0 => kernels'[mapped'].down # "disposed"
<1>1. Good(ks, mapped', cs, c) /\ (mapped' # 0 => ks[mapped'].down # "disposed")
  BY UnmappedGood DEF Become
<1>2. ConnsGood(ks, cs, WhileOfUse(c, cs, ks))
  BY DEF Good, ConnsGood, WhileOfUse, IsOver
<1> QED
  BY <1>1, <1>2 DEF Become, Good

(* getOrCreate.                                                             *)
LEMMA CreatedGood ==
  ASSUME NEW ks, NEW m, NEW cs, NEW c, Good(ks, m, cs, c), NEW ctl \in Controllers
  PROVE  /\ Good(Created(ks, m, ctl), CreatedOne(ks, m, ctl), cs, c)
         /\ CreatedOne(ks, m, ctl) \in 1..Len(Created(ks, m, ctl))
         /\ Len(ks) <= Len(Created(ks, m, ctl))
<1>1. CASE Fits(ks, m, ctl)
  BY <1>1 DEF Created, CreatedOne, Fits, Good, KernelsGood
<1>2. CASE ~Fits(ks, m, ctl)
  <2> DEFINE d == Disposed(ks, m)
             new == [of |-> ctl, session |-> "none", down |-> "no", forgotten |-> FALSE]
             t == Append(d, new)
  <2>1. m \in 0..Len(ks) /\ ks \in Seq(Kernel)
    BY DEF Good, KernelsGood
  <2>2. Good(d, m, cs, c) /\ Len(d) = Len(ks) /\ (m # 0 => d[m].down # "no")
    BY <2>1, DisposedGood
  <2>3. new \in Kernel /\ new.down = "no" /\ new.session = "none"
    BY DEF Kernel, Sessions
  <2>4. d \in Seq(Kernel)
    BY <2>2 DEF Good, KernelsGood
  <2> HIDE DEF d, new
  <2>5. /\ t \in Seq(Kernel) /\ Len(t) = Len(ks) + 1
        /\ \A k \in 1..Len(ks) : t[k] = d[k]
        /\ t[Len(ks) + 1] = new
    BY <2>2, <2>3, <2>4, AppendProperties
  <2> HIDE DEF t
  <2>6. Len(ks) \in Nat
    BY <2>1
  <2>7. \A k \in 1..Len(t) : Current(t, k) => k = Len(ks) + 1
    BY <2>2, <2>5, <2>6 DEF Good, KernelsGood, Current
  <2>8. KernelsGood(t, Len(ks) + 1)
    BY <2>2, <2>3, <2>5, <2>6, <2>7 DEF Good, KernelsGood
  <2>9. ConnsGood(t, cs, c)
    BY <2>2, <2>5, <2>6 DEF Good, ConnsGood
  <2>10. NoneForClosed(t, cs)
    BY <2>2, <2>3, <2>5, <2>6, <2>7 DEF Good, ConnsGood, NoneForClosed
  <2>11. Created(ks, m, ctl) = t /\ CreatedOne(ks, m, ctl) = Len(ks) + 1
    BY <1>2 DEF t, d, new, OldDisposed, Created, CreatedOne
  <2> QED
    BY <2>5, <2>6, <2>8, <2>9, <2>10, <2>11 DEF Good
<1> QED
  BY <1>1, <1>2

(* A connection stays overtaken when connections change or are added.       *)
LEMMA OvertakenStays ==
  ASSUME NEW cs \in Seq(Conn), NEW t \in Seq(Conn), Len(t) >= Len(cs),
         \A j \in 1..Len(cs) : t[j].command = cs[j].command
  PROVE  \A i \in 1..Len(cs) : Overtaken(cs, i) => Overtaken(t, i)
<1>1. DOMAIN cs = 1..Len(cs) /\ DOMAIN t = 1..Len(t) /\ Len(cs) \in Nat /\ Len(t) \in Nat
  OBVIOUS
<1>2. \A j \in 1..Len(cs) : j \in 1..Len(t)
  BY <1>1
<1> QED
  BY <1>1, <1>2 DEF Overtaken

(* A connection that is changed.                                            *)
LEMMA PutGood ==
  ASSUME NEW ks, NEW m, NEW cs, NEW c, Good(ks, m, cs, c),
         NEW i \in 1..Len(cs), NEW new \in Conn,
         new.kernel \in 0..Len(ks), new.kernel = 0 => new.at = "failed",
         new.command = cs[i].command, IsOver(new) \/ i = c \/ Overtaken(cs, i),
         ~open => new.kernel = 0 \/ new.kernel = cs[i].kernel
  PROVE  Good(ks, m, [cs EXCEPT ![i] = new], c)
<1> DEFINE t == [cs EXCEPT ![i] = new]
<1>1. cs \in Seq(Conn)
  BY DEF Good, ConnsGood
<1>2. t \in Seq(Conn) /\ Len(t) = Len(cs)
  BY <1>1
<1>3. \A j \in 1..Len(cs) : t[j] = IF j = i THEN new ELSE cs[j]
  BY <1>1
<1> HIDE DEF t
<1>6. \A j \in 1..Len(cs) : t[j].command = cs[j].command
  BY <1>3
<1>7. Len(t) >= Len(cs)
  BY <1>1, <1>2
<1>8. \A j \in 1..Len(cs) : Overtaken(cs, j) => Overtaken(t, j)
  BY <1>1, <1>2, <1>6, <1>7, OvertakenStays
<1>4. ConnsGood(ks, t, c)
  BY <1>2, <1>3, <1>8 DEF Good, ConnsGood
<1>5. NoneForClosed(ks, t)
  BY <1>2, <1>3 DEF Good, NoneForClosed, KernelsGood
<1> QED
  BY <1>4, <1>5 DEF Good, t

(* The prompts are stages of a connection.                                  *)
LEMMA StagesHas ==
  "restarting" \in Stages /\ "selecting" \in Stages /\ "awaiting" \in Stages
  BY DEF Stages, Prompts

(* Whose kernel and command are those of the connection con.                *)
Same(new, con) ==
    new \in Conn /\ new.kernel = con.kernel /\ new.command = con.command

(* What a connection becomes.                                               *)
LEMMA ConnChanges ==
  ASSUME NEW con \in Conn, NEW ks
  PROVE  /\ Same(Done(con, ks), con) /\ Done(con, ks).at = "done"
         /\ Same(Failed(con), con) /\ Failed(con).at = "failed"
         /\ Same(Started(con, ks), con) /\ Same(AfterInterrupt(con, ks), con)
         /\ \A b \in BOOLEAN : Same(Erred(con, b), con)
         /\ \A at \in Stages : /\ Same([con EXCEPT !.at = at], con)
                               /\ [con EXCEPT !.at = at].at = at
<1>1. \A at \in Stages : /\ Same([con EXCEPT !.at = at], con)
                         /\ [con EXCEPT !.at = at].at = at
  BY DEF Conn, Same
<1>2. Same(Done(con, ks), con) /\ Done(con, ks).at = "done"
  BY DEF Conn, Same, Done, Stages
<1>3. Same(Failed(con), con) /\ Failed(con).at = "failed"
  BY <1>1 DEF Failed, Stages
<1>4. Same(Started(con, ks), con) /\ Same(AfterInterrupt(con, ks), con)
  BY <1>1, <1>2, <1>3 DEF Started, AfterInterrupt, Stages, Prompts
<1>5. \A b \in BOOLEAN : Same(Erred(con, b), con)
  BY <1>1, <1>3 DEF Erred, Stages, Prompts
<1> QED
  BY <1>1, <1>2, <1>3, <1>4, <1>5

-----------------------------------------------------------------------------
(* Turns of the loop, and callers.                                          *)

(* One turn of the loop of wrapKernelMethodImpl, for the connection that is *)
(* cached or one that was overtaken.                                        *)
LEMMA AttemptGood ==
  ASSUME NEW ks0, NEW m0, NEW cs, NEW i \in 1..Len(cs), cs \in Seq(Conn), NEW c,
         NEW con \in Conn, con.kernel \in 0..Len(ks0), con.command = cs[i].command,
         i = c \/ Overtaken(cs, i), Good(ks0, m0, [cs EXCEPT ![i] = Failed(con)], c),
         Attempt(i, con, ks0, m0, cs, c)
  PROVE  /\ Good(kernels', mapped', conns', cached')
         /\ mapped' # 0 => kernels'[mapped'].down # "disposed"
         /\ Len(conns') = Len(cs)
<1> DEFINE failed == [cs EXCEPT ![i] = Failed(con)]
           ks == Created(ks0, m0, con.of)
           k  == CreatedOne(ks0, m0, con.of)
           at == [con EXCEPT !.kernel = k,
                             !.at = IF @ = "commanded" THEN "commanded" ELSE "starting"]
<1>0. Failed(con) \in Conn /\ Failed(con).command = con.command
  BY ConnChanges DEF Same
<1>1. failed \in Seq(Conn) /\ Len(failed) = Len(cs) /\ failed[i] = Failed(con)
      /\ \A j \in 1..Len(cs) : failed[j].command = cs[j].command
  BY <1>0
<1>5. i = c \/ Overtaken(failed, i)
  <2>1. Len(failed) >= Len(cs)
    BY <1>1
  <2> HIDE DEF failed
  <2> QED
    BY <1>1, <2>1, OvertakenStays
<1>2. ASSUME NEW ks1, NEW m1, NEW cs1, Good(ks1, m1, cs1, c), Become(ks1, m1, cs1, c),
             Len(cs1) = Len(cs)
      PROVE  /\ Good(kernels', mapped', conns', cached')
             /\ mapped' # 0 => kernels'[mapped'].down # "disposed"
             /\ Len(conns') = Len(cs)
  BY <1>2, BecomeGood DEF Good
<1>3. CASE ~open
  BY <1>1, <1>2, <1>3 DEF Attempt, IsClosed
<1>4. CASE open
  <2>1. con.of \in Controllers
    BY DEF Conn
  <2>2. Good(ks, k, failed, c) /\ k \in 1..Len(ks)
    BY <2>1, CreatedGood
  <2>3. ks \in Seq(Kernel)
    BY <2>2 DEF Good, KernelsGood
  <2> HIDE DEF ks, k
  <2>4. k \in Nat /\ k # 0
    BY <2>2, <2>3
  <2>5. at \in Conn /\ at.kernel = k /\ at.command = con.command
    BY <2>4 DEF Conn, Stages
  <2>6. \A new \in Conn : [failed EXCEPT ![i] = new] = [cs EXCEPT ![i] = new]
    BY DEF failed
  <2> HIDE DEF failed, at
  <2>7. ASSUME NEW new, Same(new, at), NEW ks1, Good(ks1, k, failed, c),
               Len(ks1) = Len(ks), Become(ks1, k, [cs EXCEPT ![i] = new], c)
        PROVE  /\ Good(kernels', mapped', conns', cached')
               /\ mapped' # 0 => kernels'[mapped'].down # "disposed"
               /\ Len(conns') = Len(cs)
    <3>1. /\ new \in Conn /\ new.kernel \in 0..Len(ks1) /\ new.kernel # 0
          /\ new.command = failed[i].command
      BY <1>0, <1>1, <2>2, <2>3, <2>4, <2>5, <2>7 DEF Same
    <3>2. Good(ks1, k, [failed EXCEPT ![i] = new], c)
      BY <1>1, <1>4, <1>5, <2>7, <3>1, PutGood
    <3>3. Len([cs EXCEPT ![i] = new]) = Len(cs)
      OBVIOUS
    <3> QED
      BY <1>2, <2>6, <2>7, <3>2, <3>3
  <2>12. Same(at, at)
    BY <2>5 DEF Same
  <2>8. CASE Dead(ks, k) /\ PromptsForDead(con)
    <3>1. Same([at EXCEPT !.at = "deadPrompt"], at)
      BY <2>5, ConnChanges DEF Stages, Prompts
    <3>2. Become(ks, k, [cs EXCEPT ![i] = [at EXCEPT !.at = "deadPrompt"]], c)
      BY <1>4, <2>8 DEF Attempt, IsClosed, ks, k, at
    <3> QED
      BY <2>2, <2>7, <3>1, <3>2
  <2>13. CASE ~(Dead(ks, k) /\ PromptsForDead(con)) /\ con.at = "commanded"
    <3>1. Become(ks, k, [cs EXCEPT ![i] = at], c)
      BY <1>4, <2>13 DEF Attempt, IsClosed, ks, k, at
    <3> QED
      BY <2>2, <2>7, <2>12, <3>1
  <2> DEFINE Goes == ~(Dead(ks, k) /\ PromptsForDead(con)) /\ con.at # "commanded"
  <2>9. CASE Goes /\ ks[k].down # "no"
    <3>1. Become(ks, k, [cs EXCEPT ![i] = Erred(at, TRUE)], c)
      BY <1>4, <2>9 DEF Attempt, IsClosed, ks, k, at
    <3> QED
      BY <2>2, <2>5, <2>7, <3>1, ConnChanges
  <2>10. CASE Goes /\ ks[k].down = "no" /\ ks[k].session \in {"none", "starting", "gone"}
    <3> DEFINE new == [ks[k] EXCEPT !.session = "starting"]
               ks1 == [ks EXCEPT ![k] = new]
    <3>1. ks[k] \in Kernel
      BY <2>2, <2>3
    <3>2. new \in Kernel /\ new.down = ks[k].down /\ new.forgotten = ks[k].forgotten
      BY <3>1 DEF Kernel, Sessions
    <3>3. Become(ks1, k, [cs EXCEPT ![i] = at], c)
      <4>1. ks1 = [ks EXCEPT ![k].session = "starting"]
        OBVIOUS
      <4> HIDE DEF ks1
      <4> QED
        BY <4>1, <1>4, <2>10 DEF Attempt, IsClosed, ks, k, at
    <3>4. Good(ks1, k, failed, c)
      <4> HIDE DEF new
      <4> QED
        BY <1>4, <2>2, <2>10, <3>2, ChangedKernel
    <3>5. Len(ks1) = Len(ks)
      BY <2>3
    <3> QED
      BY <2>7, <2>12, <3>3, <3>4, <3>5
  <2>11. CASE Goes /\ ks[k].down = "no" /\ ks[k].session \notin {"none", "starting", "gone"}
    <3>1. Become(ks, k, [cs EXCEPT ![i] = Started(at, ks)], c)
      BY <1>4, <2>11 DEF Attempt, IsClosed, ks, k, at
    <3> QED
      BY <2>2, <2>5, <2>7, <3>1, ConnChanges
  <2> QED
    BY <2>8, <2>9, <2>10, <2>11, <2>13
<1> QED
  BY <1>3, <1>4, <1>2 DEF Good

(* Connections that all change, each with the kernel it has.                *)
LEMMA MappedGood ==
  ASSUME NEW ks, NEW m, NEW cs, NEW c, Good(ks, m, cs, c),
         NEW t \in Seq(Conn), Len(t) = Len(cs),
         \A i \in 1..Len(cs) : /\ t[i].kernel = cs[i].kernel
                               /\ t[i].command = cs[i].command
                               /\ cs[i].at = "failed" => t[i].at = "failed"
                               /\ IsOver(cs[i]) => IsOver(t[i])
  PROVE  Good(ks, m, t, c)
<1>3. cs \in Seq(Conn) /\ Len(t) >= Len(cs)
  BY DEF Good, ConnsGood
<1>4. \A i \in 1..Len(cs) : Overtaken(cs, i) => Overtaken(t, i)
  BY <1>3, OvertakenStays
<1>1. ConnsGood(ks, t, c)
  BY <1>4 DEF Good, ConnsGood
<1>2. NoneForClosed(ks, t)
  BY DEF Good, NoneForClosed
<1> QED
  BY <1>1, <1>2 DEF Good

(* A step that ends with Become, and leaves the callers alone.              *)
LEMMA StepGood ==
  ASSUME IInv, NEW ks, NEW m, NEW cs, NEW c, Good(ks, m, cs, c), Become(ks, m, cs, c),
         Len(cs) = Len(conns), calls' = calls, open' = open,
         selected' \in Controllers, switching' \subseteq Controllers,
         troubles' \in 0..MaxTroubles
  PROVE  IInv'
<1>1. /\ KernelsGood(kernels', mapped') /\ ConnsGood(kernels', conns', cached')
      /\ kernels' = ks /\ conns' = cs
      /\ mapped' # 0 => kernels'[mapped'].down # "disposed"
  BY BecomeGood
<1>2. NoneForClosed(kernels, conns)'
  BY <1>1 DEF Good, NoneForClosed, Current
<1>3. Rest'
  BY <1>1 DEF IInv, Rest
<1>4. KernelsGood(kernels, mapped)'
  BY <1>1 DEF KernelsGood, Current
<1>5. ConnsGood(kernels, conns, cached)'
  BY <1>1 DEF ConnsGood, IsOver, Overtaken
<1> QED
  BY <1>2, <1>3, <1>4, <1>5 DEF IInv, Good

(* The same for a turn of the loop.                                         *)
LEMMA TurnGood ==
  ASSUME IInv, Good(kernels', mapped', conns', cached'),
         mapped' # 0 => kernels'[mapped'].down # "disposed",
         Len(conns') >= Len(conns), open' = open, calls' \in [Callers -> Call],
         \A x \in Callers : \/ calls'[x] = calls[x]
                            \/ calls'[x].conn \in 1..Len(conns'),
         selected' \in Controllers, switching' \subseteq Controllers,
         troubles' \in 0..MaxTroubles
  PROVE  IInv'
<1>1. NoneForClosed(kernels, conns)'
  BY DEF Good, NoneForClosed, Current
<1>2. Len(conns) \in Nat /\ Len(conns') \in Nat
  BY DEF IInv, Good, ConnsGood
<1>3. Rest'
  BY <1>2 DEF IInv, Rest
<1>4. KernelsGood(kernels, mapped)'
  BY DEF Good, KernelsGood, Current
<1>5. ConnsGood(kernels, conns, cached)'
  BY DEF Good, ConnsGood, IsOver, Overtaken
<1> QED
  BY <1>1, <1>3, <1>4, <1>5 DEF IInv, Good

(* A connection is made, and cached: by a command, or because none that is  *)
(* under way is cached.                                                     *)
LEMMA NewGood ==
  ASSUME NEW ks, NEW m, NEW cs, NEW c, Good(ks, m, cs, c), NEW con \in Conn,
         con.kernel = 0,
         con.command # "none" \/ \A j \in 1..Len(cs) : IsOver(cs[j]) \/ Overtaken(cs, j),
         NEW i, i = Len(cs) + 1, Attempt(i, con, ks, m, Append(cs, con), i)
  PROVE  /\ Good(kernels', mapped', conns', cached')
         /\ mapped' # 0 => kernels'[mapped'].down # "disposed"
         /\ Len(conns') = i
<1> DEFINE t == Append(cs, con)
           failed == [t EXCEPT ![i] = Failed(con)]
<1>1. cs \in Seq(Conn) /\ Len(cs) \in Nat /\ i \in Nat
  BY DEF Good, ConnsGood
<1>2. t \in Seq(Conn) /\ Len(t) = i /\ t[i] = con /\ \A j \in 1..Len(cs) : t[j] = cs[j]
  BY <1>1, AppendProperties
<1>3. /\ Failed(con) \in Conn /\ Failed(con).kernel = 0 /\ Failed(con).at = "failed"
      /\ Failed(con).command = con.command
  BY ConnChanges DEF Same
<1> HIDE DEF t
<1>4. /\ failed \in Seq(Conn) /\ Len(failed) = i /\ failed[i] = Failed(con)
      /\ \A j \in 1..Len(cs) : failed[j] = cs[j]
  BY <1>1, <1>2, <1>3
<1> HIDE DEF failed
<1>5. ks \in Seq(Kernel) /\ Len(ks) \in Nat
  BY DEF Good, KernelsGood
<1>6. \A j \in 1..Len(cs) : IsOver(cs[j]) \/ Overtaken(failed, j)
  <2>1. CASE con.command # "none"
    <3>1. DOMAIN failed = 1..i
      BY <1>4
    <3>2. i \in DOMAIN failed /\ failed[i].command # "none" /\ \A j \in 1..Len(cs) : i > j
      BY <1>1, <1>3, <1>4, <2>1, <3>1
    <3> QED
      BY <3>2 DEF Overtaken
  <2>2. CASE \A j \in 1..Len(cs) : IsOver(cs[j]) \/ Overtaken(cs, j)
    <3>1. Len(failed) >= Len(cs)
      BY <1>1, <1>4
    <3> QED
      BY <1>1, <1>4, <2>2, <3>1, OvertakenStays
  <2> QED
    BY <2>1, <2>2
<1>7. ConnsGood(ks, failed, i)
  <2>1. \A j \in 1..Len(failed) : j \in 1..Len(cs) \/ j = i
    BY <1>1, <1>4
  <2>2. \A j \in 1..Len(cs) : /\ failed[j].kernel \in 0..Len(ks)
                              /\ failed[j].kernel = 0 => failed[j].at = "failed"
                              /\ IsOver(failed[j]) \/ Overtaken(failed, j)
    BY <1>4, <1>6 DEF Good, ConnsGood
  <2>3. failed[i].kernel \in 0..Len(ks) /\ failed[i].at = "failed"
    BY <1>3, <1>4, <1>5
  <2>4. i \in 0..Len(failed)
    BY <1>1, <1>4
  <2> QED
    <3>1. ASSUME NEW j \in 1..Len(failed)
          PROVE  /\ failed[j].kernel \in 0..Len(ks)
                 /\ failed[j].kernel = 0 => failed[j].at = "failed"
                 /\ IsOver(failed[j]) \/ j = i \/ Overtaken(failed, j)
      <4>1. CASE j = i
        BY <2>3, <4>1
      <4>2. CASE j \in 1..Len(cs)
        BY <2>2, <4>2
      <4> QED
        BY <2>1, <4>1, <4>2
    <3> QED
      BY <1>4, <2>4, <3>1 DEF ConnsGood
<1>8. NoneForClosed(ks, failed)
  <2>1. \A j \in 1..Len(failed) : j \in 1..Len(cs) \/ j = i
    BY <1>1, <1>4
  <2> QED
    BY <1>3, <1>4, <1>5, <2>1 DEF Good, NoneForClosed
<1>9. Good(ks, m, failed, i)
  BY <1>7, <1>8 DEF Good
<1>10. i \in 1..Len(t) /\ con.kernel \in 0..Len(ks) /\ con.command = t[i].command
  BY <1>1, <1>2, <1>5
<1>11. Good(ks, m, [t EXCEPT ![i] = Failed(con)], i) /\ Attempt(i, con, ks, m, t, i)
  BY <1>9 DEF failed, t
<1> QED
  BY <1>2, <1>10, <1>11, AttemptGood

(* A caller joins a connection or makes one.                                *)
LEMMA ConnectGood ==
  ASSUME IInv, NEW x \in Callers, NEW ctl \in Controllers, NEW ui \in BOOLEAN,
         NEW again \in BOOLEAN, NEW c0, NEW cs, NEW ks, NEW m, Good(ks, m, cs, c0),
         Len(cs) = Len(conns), \A i \in 1..Len(cs) : cs[i].at = conns[i].at,
         Connect(x, ctl, ui, again, c0, cs, ks, m),
         open' = open, selected' \in Controllers, switching' \subseteq Controllers,
         troubles' \in 0..MaxTroubles
  PROVE  IInv'
<1> DEFINE c == IF c0 # 0 /\ ui /\ Useless(c0) THEN 0 ELSE c0
           i == Len(cs) + 1
           con == NewConn(ctl, ui, again)
<1>1. cs \in Seq(Conn) /\ c0 \in 0..Len(cs) /\ Len(cs) \in Nat
  BY DEF Good, ConnsGood
<1>2. calls \in [Callers -> Call]
  BY DEF IInv, Rest
<1>3. CASE c # 0
  <2> DEFINE new == [cs[c] EXCEPT !.ui = @ \/ ui]
  <2>1. c = c0 /\ c \in 1..Len(cs)
    BY <1>1, <1>3
  <2>2. /\ Waits(x, c, ui, FALSE, calls[x].target)
        /\ Become(ks, m, [cs EXCEPT ![c].ui = @ \/ ui], c)
    BY <1>3 DEF Connect
  <2> HIDE DEF c
  <2>3. cs[c] \in Conn
    BY <1>1, <2>1
  <2>4. /\ new \in Conn /\ new.kernel = cs[c].kernel /\ new.at = cs[c].at
        /\ new.command = cs[c].command
    BY <2>3 DEF Conn
  <2>5. new.kernel \in 0..Len(ks) /\ (new.kernel = 0 => new.at = "failed")
    BY <2>1, <2>4 DEF Good, ConnsGood
  <2>6. [cs EXCEPT ![c].ui = @ \/ ui] = [cs EXCEPT ![c] = new]
    OBVIOUS
  <2> HIDE DEF new
  <2>7. Good(ks, m, [cs EXCEPT ![c] = new], c)
    BY <2>1, <2>4, <2>5, PutGood
  <2>8. Len([cs EXCEPT ![c] = new]) = Len(conns)
    BY <1>1, <2>1
  <2>9. calls' \in [Callers -> Call] /\ calls'[x].conn = c
        /\ \A y \in Callers : y # x => calls'[y] = calls[y]
    <3>1. c \in Nat
      BY <2>1, <1>1
    <3> QED
      BY <1>2, <2>2, <3>1 DEF Waits, Call
  <2>10. /\ Good(kernels', mapped', conns', cached') /\ Len(conns') = Len(conns)
         /\ mapped' # 0 => kernels'[mapped'].down # "disposed"
    BY <2>2, <2>6, <2>7, <2>8, BecomeGood DEF Good
  <2>11. Len(conns') >= Len(conns)
    BY <1>1, <2>10
  <2> QED
    BY <2>1, <2>9, <2>10, <2>11, TurnGood
<1>4. CASE c = 0
  <2>1. Waits(x, i, ui, TRUE, calls[x].target) /\ Attempt(i, con, ks, m, Append(cs, con), i)
    BY <1>4 DEF Connect
  <2>2. \A j \in 1..Len(cs) : IsOver(cs[j]) \/ Overtaken(cs, j)
    BY <1>4 DEF Good, ConnsGood, Useless, IsOver
  <2>3. con \in Conn /\ con.kernel = 0
    BY DEF NewConn, Conn, Stages
  <2> HIDE DEF con, c
  <2>4. i = Len(cs) + 1
    OBVIOUS
  <2> HIDE DEF i
  <2>5. /\ Good(kernels', mapped', conns', cached') /\ Len(conns') = i
        /\ mapped' # 0 => kernels'[mapped'].down # "disposed"
    BY <2>1, <2>2, <2>3, <2>4, NewGood
  <2>6. i \in Nat /\ i \in 1..Len(conns') /\ Len(conns') >= Len(conns)
    BY <1>1, <2>4, <2>5
  <2>7. calls' \in [Callers -> Call] /\ calls'[x].conn = i
        /\ \A y \in Callers : y # x => calls'[y] = calls[y]
    BY <1>2, <2>1, <2>6 DEF Waits, Call
  <2> QED
    BY <2>5, <2>6, <2>7, TurnGood
<1> QED
  BY <1>3, <1>4

-----------------------------------------------------------------------------
(* The actions.                                                             *)

(* IInv holds at the start.                                                 *)
LEMMA InitIInv == KernelsInit => IInv
<1> SUFFICES ASSUME KernelsInit  PROVE IInv
  OBVIOUS
<1> USE DEF KernelsInit
<1>1. kernels \in Seq(Kernel) /\ Len(kernels) = 0 /\ conns \in Seq(Conn) /\ Len(conns) = 0
  OBVIOUS
<1>2. KernelsGood(kernels, mapped) /\ ConnsGood(kernels, conns, cached)
  BY <1>1 DEF KernelsGood, ConnsGood
<1>3. NoneForClosed(kernels, conns)
  BY DEF NoneForClosed
<1>4. calls \in [Callers -> Call] /\ \A x \in Callers : calls[x].at = "idle"
  BY DEF Call
<1>5. troubles \in 0..MaxTroubles
  BY NotebookKernelsAssumption
<1> QED
  BY <1>2, <1>3, <1>4, <1>5 DEF IInv, Good, Rest

(* What IInv says of the variables, for the proofs of the actions.          *)
LEMMA Facts ==
  ASSUME IInv
  PROVE  /\ Good(kernels, mapped, conns, cached)
         /\ kernels \in Seq(Kernel) /\ DOMAIN kernels = 1..Len(kernels) /\ Len(kernels) \in Nat
         /\ conns \in Seq(Conn) /\ DOMAIN conns = 1..Len(conns) /\ Len(conns) \in Nat
         /\ \A k \in 1..Len(kernels) : kernels[k] \in Kernel
         /\ \A i \in 1..Len(conns) :
              /\ conns[i] \in Conn /\ conns[i].kernel \in 0..Len(kernels)
              /\ conns[i].at # "failed" => conns[i].kernel \in 1..Len(kernels)
              /\ ~IsOver(conns[i]) => i = cached \/ Overtaken(conns, i)
         /\ mapped \in 0..Len(kernels)
         /\ selected \in Controllers /\ switching \subseteq Controllers
         /\ troubles \in 0..MaxTroubles /\ calls \in [Callers -> Call]
  BY DEF IInv, Good, KernelsGood, ConnsGood, Rest

(* Troubles stay within their bound.                                        *)
LEMMA TroubleType ==
  ASSUME troubles \in 0..MaxTroubles, Trouble  PROVE troubles' \in 0..MaxTroubles
  BY NotebookKernelsAssumption DEF Trouble

(* A kernel's session changes.                                              *)
LEMMA SessionGood ==
  ASSUME IInv, NEW k \in 1..Len(kernels), NEW to \in Sessions,
         kernels[k].down = "disposed" => to \in {"none", "gone"},
         ~open /\ Current(kernels, k) => to = "none"
  PROVE  /\ Good([kernels EXCEPT ![k].session = to], mapped, conns, cached)
         /\ Len([kernels EXCEPT ![k].session = to]) = Len(kernels)
<1> DEFINE new == [kernels[k] EXCEPT !.session = to]
<1>1. kernels[k] \in Kernel /\ Good(kernels, mapped, conns, cached)
  BY Facts
<1>2. /\ new \in Kernel /\ new.down = kernels[k].down
      /\ new.forgotten = kernels[k].forgotten /\ new.session = to
  BY <1>1 DEF Kernel
<1>3. [kernels EXCEPT ![k].session = to] = [kernels EXCEPT ![k] = new]
  OBVIOUS
<1> HIDE DEF new
<1>4. ~open /\ new.down = "no" /\ ~new.forgotten => new.session = kernels[k].session
  BY <1>1, <1>2 DEF Good, NoneForClosed, Current
<1>5. Good([kernels EXCEPT ![k] = new], mapped, conns, cached)
  BY <1>1, <1>2, <1>4, ChangedKernel
<1>6. Len([kernels EXCEPT ![k] = new]) = Len(kernels)
  BY Facts
<1> QED
  BY <1>3, <1>5, <1>6

(* The connections that await the start of a kernel all change.             *)
LEMMA AwaitingGood ==
  ASSUME IInv, NEW ks, Good(ks, mapped, conns, cached), NEW k,
         NEW t, t = [i \in DOMAIN conns |-> IF AwaitsStart(i, k) THEN t[i] ELSE conns[i]],
         \A i \in DOMAIN conns : AwaitsStart(i, k) => Same(t[i], conns[i])
  PROVE  Good(ks, mapped, t, cached) /\ Len(t) = Len(conns)
<1>1. t \in [1..Len(conns) -> Conn]
  BY Facts DEF Same
<1>2. t \in Seq(Conn) /\ Len(t) = Len(conns)
  BY <1>1, Facts
<1>3. \A i \in 1..Len(conns) : /\ t[i].kernel = conns[i].kernel
                               /\ t[i].command = conns[i].command
                               /\ IsOver(conns[i]) => t[i] = conns[i]
  BY Facts DEF AwaitsStart, IsOver, Same
<1> QED
  BY <1>2, <1>3, MappedGood DEF IsOver

(* A connection that is under way changes, and keeps its kernel.            *)
LEMMA ConnGood ==
  ASSUME IInv, NEW ks, Good(ks, mapped, conns, cached), NEW i \in 1..Len(conns),
         ~IsOver(conns[i]), NEW new, Same(new, conns[i])
  PROVE  /\ Good(ks, mapped, [conns EXCEPT ![i] = new], cached)
         /\ Len([conns EXCEPT ![i] = new]) = Len(conns)
<1>1. /\ i = cached \/ Overtaken(conns, i)
      /\ new \in Conn /\ new.kernel \in 0..Len(ks) /\ new.kernel # 0
      /\ new.kernel = conns[i].kernel /\ new.command = conns[i].command
  BY Facts DEF Good, ConnsGood, IsOver, Same
<1>2. Len([conns EXCEPT ![i] = new]) = Len(conns)
  BY Facts
<1> QED
  BY <1>1, <1>2, PutGood

(* The actions of kernels.                                                  *)
LEMMA KernelStartedIInv ==
  ASSUME IInv, NEW k \in DOMAIN kernels, KernelStarted(k)  PROVE IInv'
<1> DEFINE ks == [kernels EXCEPT ![k].session = "alive"]
           t == [i \in DOMAIN conns |->
                    IF AwaitsStart(i, k) THEN Started(conns[i], ks) ELSE conns[i]]
<1>1. k \in 1..Len(kernels) /\ kernels[k].session = "starting"
  BY Facts DEF KernelStarted
<1>2. kernels[k].down # "disposed" /\ (~open => ~Current(kernels, k))
  BY <1>1 DEF IInv, Good, KernelsGood, NoneForClosed
<1>3. Good(ks, mapped, conns, cached)
  BY <1>1, <1>2, SessionGood DEF Sessions
<1>4. Become(ks, mapped, t, cached)
  BY DEF KernelStarted
<1> HIDE DEF ks
<1>5. \A i \in DOMAIN conns : AwaitsStart(i, k) => Same(t[i], conns[i])
  BY Facts, ConnChanges
<1>6. t = [i \in DOMAIN conns |-> IF AwaitsStart(i, k) THEN t[i] ELSE conns[i]]
  OBVIOUS
<1> HIDE DEF t
<1>7. Good(ks, mapped, t, cached) /\ Len(t) = Len(conns)
  BY <1>3, <1>5, <1>6, AwaitingGood
<1> QED
  BY <1>4, <1>7, StepGood, Facts DEF KernelStarted

(* A start that fails, or was cancelled.                                    *)
LEMMA KernelNotStartedIInv ==
  ASSUME IInv, NEW k \in DOMAIN kernels, KernelNotStarted(k)  PROVE IInv'
<1> DEFINE ks == [kernels EXCEPT ![k].session = "none"]
           cancelled == kernels[k].down # "no"
           t == [i \in DOMAIN conns |->
                    IF AwaitsStart(i, k) THEN Erred(conns[i], cancelled) ELSE conns[i]]
<1>1. k \in 1..Len(kernels)
  BY Facts
<1>2. Good(ks, mapped, conns, cached)
  BY <1>1, SessionGood DEF Sessions
<1>3. Become(ks, mapped, t, cached)
  BY DEF KernelNotStarted
<1> HIDE DEF ks
<1>4. \A i \in DOMAIN conns : AwaitsStart(i, k) => Same(t[i], conns[i])
  BY Facts, ConnChanges
<1>5. t = [i \in DOMAIN conns |-> IF AwaitsStart(i, k) THEN t[i] ELSE conns[i]]
  OBVIOUS
<1> HIDE DEF t
<1>6. Good(ks, mapped, t, cached) /\ Len(t) = Len(conns)
  BY <1>2, <1>4, <1>5, AwaitingGood
<1>7. troubles' \in 0..MaxTroubles
  BY Facts, TroubleType DEF KernelNotStarted
<1> QED
  BY <1>3, <1>6, <1>7, StepGood, Facts DEF KernelNotStarted

(* A disposal that awaited the start.                                       *)
LEMMA DisposeGoesOnIInv ==
  ASSUME IInv, NEW k \in DOMAIN kernels, DisposeGoesOn(k)  PROVE IInv'
<1> DEFINE new == [[kernels[k] EXCEPT !.down = "disposed"] EXCEPT !.session = "none"]
           ks == [kernels EXCEPT ![k] = new]
<1>1. k \in 1..Len(kernels) /\ kernels[k] \in Kernel
  BY Facts
<1>2. /\ new \in Kernel /\ new.down = "disposed" /\ new.session = "none"
      /\ new.forgotten = kernels[k].forgotten
  BY <1>1 DEF Kernel, Sessions
<1>3. ks = [kernels EXCEPT ![k].down = "disposed", ![k].session = "none"]
  BY <1>1
<1> HIDE DEF new
<1>4. Good(ks, mapped, conns, cached)
  BY <1>1, <1>2, ChangedKernel, Facts
<1>5. Become(ks, mapped, conns, cached)
  BY <1>3 DEF DisposeGoesOn
<1> QED
  BY <1>4, <1>5, StepGood, Facts DEF DisposeGoesOn

(* A kernel that dies.                                                      *)
LEMMA KernelDiesIInv ==
  ASSUME IInv, NEW k \in DOMAIN kernels, KernelDies(k)  PROVE IInv'
<1>1. PICK how \in {"dead", "gone"} :
          Become([kernels EXCEPT ![k].session = how], mapped, conns, cached)
  BY DEF KernelDies
<1>2. k \in 1..Len(kernels) /\ kernels[k].session = "alive" /\ kernels[k].down = "no"
  BY Facts DEF KernelDies
<1>3. ~open => ~Current(kernels, k)
  BY <1>2 DEF IInv, Good, NoneForClosed
<1>4. Good([kernels EXCEPT ![k].session = how], mapped, conns, cached)
  BY <1>2, <1>3, SessionGood DEF Sessions
<1>5. troubles' \in 0..MaxTroubles
  BY Facts, TroubleType DEF KernelDies
<1> QED
  BY <1>1, <1>4, <1>5, StepGood, Facts DEF KernelDies

(* The prompts of a connection.                                             *)
LEMMA PromptIInv ==
  ASSUME IInv, NEW i \in DOMAIN conns,
         SelectionCancelled(i) \/ DeadAnswered(i) \/ RestartEnds(i) \/ RestartFails(i)
         \/ ErrorAnswered(i) \/ SameSelected(i)
         \/ RestartStarts(i) \/ CommandEnds(i) \/ CommandFails(i)
  PROVE  IInv'
<1> DEFINE k == conns[i].kernel
<1>1. i \in 1..Len(conns) /\ ~IsOver(conns[i]) /\ conns[i] \in Conn /\ k \in 1..Len(kernels)
  BY Facts DEF SelectionCancelled, DeadAnswered, RestartEnds, RestartFails, ErrorAnswered,
     SameSelected, RestartStarts, CommandEnds, CommandFails, Commanded, IsOver
<1>2. Good(kernels, mapped, conns, cached) /\ kernels[k] \in Kernel
  BY <1>1, Facts
<1>10. ~open => ~Current(kernels, k)
  BY <1>1 DEF IInv, Good, NoneForClosed
<1> HIDE DEF k
<1>3. ASSUME NEW ks, Good(ks, mapped, conns, cached), NEW new, Same(new, conns[i]),
             Become(ks, mapped, [conns EXCEPT ![i] = new], cached),
             calls' = calls, open' = open, selected' = selected, switching' = switching,
             troubles' \in 0..MaxTroubles
      PROVE  IInv'
  <2>1. /\ Good(ks, mapped, [conns EXCEPT ![i] = new], cached)
        /\ Len([conns EXCEPT ![i] = new]) = Len(conns)
    BY <1>1, <1>3, ConnGood
  <2>2. selected' \in Controllers /\ switching' \subseteq Controllers
    BY <1>3, Facts
  <2> QED
    BY <1>3, <2>1, <2>2, StepGood
<1>4. CASE SelectionCancelled(i)
  BY <1>1, <1>2, <1>3, <1>4, ConnChanges, Facts DEF SelectionCancelled
<1>5. CASE DeadAnswered(i)
  <2>1. Asked(conns[i]) \in Conn /\ Same(Asked(conns[i]), conns[i])
    BY <1>1 DEF Asked, Conn, Same
  <2>2. UNCHANGED <<open, selected, switching, calls, troubles>>
    BY <1>5 DEF DeadAnswered
  <2>3. CASE Become(kernels, mapped,
               [conns EXCEPT ![i] = Done([conns[i] EXCEPT !.noRestart =
                                             conns[i].at = "deadPrompt"], kernels)], cached)
    <3> DEFINE old == [conns[i] EXCEPT !.noRestart = conns[i].at = "deadPrompt"]
    <3>1. old \in Conn /\ Same(old, conns[i])
      BY <1>1 DEF Conn, Same
    <3> HIDE DEF old
    <3>2. Same(Done(old, kernels), conns[i])
      BY <3>1, ConnChanges DEF Same
    <3>3. Become(kernels, mapped, [conns EXCEPT ![i] = Done(old, kernels)], cached)
      BY <2>3 DEF old
    <3> QED
      BY <1>2, <1>3, <2>2, <3>2, <3>3, Facts
  <2>4. CASE Become(kernels, mapped, [conns EXCEPT ![i] = Erred(Asked(conns[i]), TRUE)], cached)
    <3>1. Same(Erred(Asked(conns[i]), TRUE), conns[i])
      BY <2>1, ConnChanges DEF Same
    <3> QED
      BY <1>2, <1>3, <2>2, <2>4, <3>1, Facts
  <2>5. CASE Become(kernels, mapped,
               [conns EXCEPT ![i] = [Asked(conns[i]) EXCEPT !.at = "restarting"]], cached)
    <3> DEFINE new == [Asked(conns[i]) EXCEPT !.at = "restarting"]
    <3>1. Same(new, conns[i])
      BY <2>1, StagesHas, ConnChanges DEF Same
    <3> HIDE DEF new
    <3>2. Become(kernels, mapped, [conns EXCEPT ![i] = new], cached)
      BY <2>5 DEF new
    <3> QED
      BY <1>2, <1>3, <2>2, <3>1, <3>2, Facts
  <2> QED
    BY <1>5, <2>3, <2>4, <2>5 DEF DeadAnswered
<1>6. CASE RestartEnds(i)
  <2> DEFINE ks == IF kernels[k].down = "no"
                   THEN [kernels EXCEPT ![k].session = "alive"] ELSE kernels
  <2>2. Good(ks, mapped, conns, cached)
    BY <1>1, <1>2, <1>10, SessionGood DEF Sessions
  <2>3. Become(ks, mapped, [conns EXCEPT ![i] = Done(conns[i], ks)], cached)
    BY <1>6 DEF RestartEnds, k
  <2> HIDE DEF ks
  <2> QED
    BY <1>1, <1>3, <1>6, <2>2, <2>3, ConnChanges, Facts DEF RestartEnds
<1>7. CASE RestartFails(i)
  <2> DEFINE ks == IF kernels[k].down = "no"
                   THEN [kernels EXCEPT ![k].session = "none"] ELSE kernels
  <2>1. Good(ks, mapped, conns, cached)
    BY <1>1, <1>2, SessionGood DEF Sessions
  <2>2. Become(ks, mapped, [conns EXCEPT ![i] = Erred(conns[i], FALSE)], cached)
    BY <1>7 DEF RestartFails, k
  <2> HIDE DEF ks
  <2>3. troubles' \in 0..MaxTroubles
    BY <1>7, Facts, TroubleType DEF RestartFails
  <2> QED
    BY <1>1, <1>3, <1>7, <2>1, <2>2, <2>3, ConnChanges, Facts DEF RestartFails
<1>8. CASE ErrorAnswered(i)
  <2>1. Good(AfterError(i), mapped, conns, cached)
    BY <1>1, <1>2, DisposedGood DEF AfterError, k
  <2>2. PICK new \in {Failed(conns[i]), [conns[i] EXCEPT !.at = "selecting"]} :
          Become(AfterError(i), mapped, [conns EXCEPT ![i] = new], cached)
    BY <1>8 DEF ErrorAnswered
  <2>3. Same(new, conns[i])
    <3>1. Same(Failed(conns[i]), conns[i])
      BY <1>1, ConnChanges
    <3>2. Same([conns[i] EXCEPT !.at = "selecting"], conns[i])
      BY <1>1, StagesHas, ConnChanges
    <3> QED
      BY <2>2, <3>1, <3>2
  <2> QED
    BY <1>3, <1>8, <2>1, <2>2, <2>3, Facts DEF ErrorAnswered
<1>9. CASE SameSelected(i)
  <2> DEFINE new == [conns[i] EXCEPT !.at = "awaiting"]
  <2>1. Same(new, conns[i])
    BY <1>1, ConnChanges DEF Stages, Prompts
  <2>2. conns' = [conns EXCEPT ![i] = new]
    BY <1>9 DEF SameSelected
  <2> HIDE DEF new
  <2>3. Good(kernels, mapped, conns', cached) /\ Len(conns') = Len(conns)
    BY <1>1, <1>2, <2>1, <2>2, ConnGood
  <2>4. UNCHANGED <<kernels, mapped, cached, open, selected, switching, calls, troubles>>
    BY <1>9 DEF SameSelected
  <2>5. Len(conns') >= Len(conns) /\ (mapped # 0 => kernels[mapped].down # "disposed")
    BY <2>3, Facts DEF IInv, Rest
  <2> QED
    BY <2>3, <2>4, <2>5, TurnGood, Facts
<1>11. CASE RestartStarts(i)
  <2>1. UNCHANGED <<open, selected, switching, calls, troubles>>
    BY <1>11 DEF RestartStarts
  <2>2. CASE /\ kernels[k].down = "no"
             /\ Become([kernels EXCEPT ![k].session = "starting"], mapped,
                       [conns EXCEPT ![i].at = "starting"], cached)
    <3> DEFINE new == [conns[i] EXCEPT !.at = "starting"]
    <3>1. Same(new, conns[i])
      BY <1>1, ConnChanges DEF Stages
    <3>2. Become([kernels EXCEPT ![k].session = "starting"], mapped,
                 [conns EXCEPT ![i] = new], cached)
      BY <2>2
    <3> HIDE DEF new
    <3>3. Good([kernels EXCEPT ![k].session = "starting"], mapped, conns, cached)
      BY <1>1, <1>10, <2>2, SessionGood DEF Sessions
    <3> QED
      BY <1>3, <2>1, <3>1, <3>2, <3>3, Facts
  <2>3. CASE Become(kernels, mapped, [conns EXCEPT ![i] = Erred(conns[i], TRUE)], cached)
    BY <1>1, <1>2, <1>3, <2>1, <2>3, ConnChanges, Facts
  <2> QED
    BY <1>11, <2>2, <2>3 DEF RestartStarts, k
<1>12. ASSUME NEW session \in {"alive", "none"}
       PROVE  Good(Restarted(k, session), mapped, conns, cached)
  BY <1>1, <1>2, <1>10, SessionGood DEF Sessions, Restarted
<1>13. CASE CommandEnds(i)
  <2>1. UNCHANGED <<open, selected, switching, calls, troubles>>
    BY <1>13 DEF CommandEnds
  <2> DEFINE ks == Restarted(k, "alive")
             new == IF conns[i].command = "restart" THEN Started(conns[i], ks)
                    ELSE AfterInterrupt(conns[i], ks)
  <2>2. Same(new, conns[i]) /\ Same(AfterInterrupt(conns[i], kernels), conns[i])
    BY <1>1, ConnChanges
  <2>3. CASE Become(ks, mapped, [conns EXCEPT ![i] = new], cached)
    <3> HIDE DEF new
    <3>1. Good(ks, mapped, conns, cached)
      BY <1>12
    <3> HIDE DEF ks
    <3> QED
      BY <1>3, <2>1, <2>2, <2>3, <3>1, Facts
  <2>4. CASE Become(kernels, mapped, [conns EXCEPT ![i] = AfterInterrupt(conns[i], kernels)],
                    cached)
    BY <1>2, <1>3, <2>1, <2>2, <2>4, Facts
  <2> QED
    BY <1>13, <2>3, <2>4 DEF CommandEnds, k
<1>14. CASE CommandFails(i)
  <2>1. PICK ks \in {kernels, Restarted(k, "none")} :
          Become(ks, mapped, [conns EXCEPT ![i] = Erred(conns[i], FALSE)], cached)
    BY <1>14 DEF CommandFails, k
  <2>2. Good(ks, mapped, conns, cached)
    BY <1>2, <1>12
  <2>3. troubles' \in 0..MaxTroubles
    BY <1>14, Facts, TroubleType DEF CommandFails
  <2> QED
    BY <1>1, <1>3, <1>14, <2>1, <2>2, <2>3, ConnChanges, Facts DEF CommandFails
<1> QED
  BY <1>4, <1>5, <1>6, <1>7, <1>8, <1>9, <1>11, <1>13, <1>14

(* A connection that is under way takes another turn of the loop.           *)
LEMMA AroundGood ==
  ASSUME IInv, NEW i \in 1..Len(conns), ~IsOver(conns[i]), NEW ks, NEW m,
         Good(ks, m, conns, cached), Len(ks) = Len(kernels),
         Attempt(i, conns[i], ks, m, conns, cached),
         UNCHANGED <<open, selected, switching, calls, troubles>>
  PROVE  IInv'
<1>1. /\ conns[i] \in Conn /\ conns[i].kernel \in 0..Len(ks) /\ conns[i].kernel # 0
      /\ i = cached \/ Overtaken(conns, i)
      /\ conns \in Seq(Conn)
  BY Facts DEF IsOver
<1>2. Failed(conns[i]) \in Conn /\ Same(Failed(conns[i]), conns[i])
  BY <1>1, ConnChanges DEF Same
<1>3. Good(ks, m, [conns EXCEPT ![i] = Failed(conns[i])], cached)
  BY <1>1, <1>2, PutGood DEF Same
<1>4. /\ Good(kernels', mapped', conns', cached')
      /\ mapped' # 0 => kernels'[mapped'].down # "disposed"
      /\ Len(conns') = Len(conns)
  BY <1>1, <1>3, AttemptGood
<1> QED
  BY <1>4, TurnGood, Facts

(* The reason of an error is gone.                                          *)
LEMMA ErrorSolvedIInv ==
  ASSUME IInv, NEW i \in DOMAIN conns, ErrorSolved(i)  PROVE IInv'
<1> DEFINE ks == AfterError(i)
           m  == UnlessDisposed(mapped, ks)
<1>1. i \in 1..Len(conns) /\ ~IsOver(conns[i]) /\ conns[i].kernel \in 0..Len(kernels)
  BY Facts DEF ErrorSolved, IsOver
<1>2. Good(ks, mapped, conns, cached) /\ Len(ks) = Len(kernels)
  BY <1>1, Facts, DisposedGood DEF AfterError
<1>3. /\ Attempt(i, conns[i], ks, m, conns, cached)
      /\ UNCHANGED <<open, selected, switching, calls, troubles>>
  BY DEF ErrorSolved
<1> HIDE DEF ks
<1>4. Good(ks, m, conns, cached)
  BY <1>2, UnmappedGood
<1> HIDE DEF m
<1> QED
  BY <1>1, <1>2, <1>3, <1>4, AroundGood

(* A controller was selected.                                               *)
LEMMA GoesAroundIInv ==
  ASSUME IInv, NEW i \in DOMAIN conns, GoesAround(i)  PROVE IInv'
<1>1. i \in 1..Len(conns) /\ ~IsOver(conns[i])
  BY Facts DEF GoesAround, IsOver
<1>2. /\ Attempt(i, conns[i], kernels, mapped, conns, cached)
      /\ UNCHANGED <<open, selected, switching, calls, troubles>>
  BY DEF GoesAround
<1> QED
  BY <1>1, <1>2, Facts, AroundGood

(* The cache may be emptied when what is there is over.                     *)
LEMMA UncachedGood ==
  ASSUME NEW ks, NEW m, NEW cs, NEW c, Good(ks, m, cs, c), c # 0 => IsOver(cs[c])
  PROVE  Good(ks, m, cs, 0)
  BY DEF Good, ConnsGood

(* Callers.                                                                 *)
LEMMA RunConnectsIInv ==
  ASSUME IInv, NEW x \in Callers, RunConnects(x)  PROVE IInv'
<1>1. /\ Connect(x, selected, TRUE, FALSE, cached, conns, kernels, mapped)
      /\ UNCHANGED <<open, selected, switching, troubles>>
  BY DEF RunConnects
<1>2. Good(kernels, mapped, conns, cached) /\ selected \in Controllers
  BY Facts
<1>3. selected' \in Controllers /\ switching' \subseteq Controllers
      /\ troubles' \in 0..MaxTroubles
  BY <1>1, Facts
<1> QED
  BY <1>1, <1>2, <1>3, ConnectGood

(* A restart or an interrupt.                                               *)
LEMMA CommandConnectsIInv ==
  ASSUME IInv, NEW x \in Callers, NEW method \in Commands, CommandConnects(x, method)
  PROVE  IInv'
<1> DEFINE i   == Len(conns) + 1
           con == NewCommand(selected, method)
           cs  == [j \in DOMAIN conns |->
                     IF j = cached THEN [conns[j] EXCEPT !.ui = TRUE] ELSE conns[j]]
<1>1. /\ Waits(x, i, TRUE, TRUE, mapped)
      /\ Attempt(i, con, kernels, mapped, Append(cs, con), i)
      /\ UNCHANGED <<open, selected, switching, troubles>>
  BY DEF CommandConnects
<1>2. con \in Conn /\ con.kernel = 0 /\ con.command # "none"
  BY Facts DEF NewCommand, NewConn, Conn, Stages, Commands
<1>3. /\ cs \in Seq(Conn) /\ Len(cs) = Len(conns)
      /\ \A j \in 1..Len(conns) : /\ cs[j].kernel = conns[j].kernel
                                  /\ cs[j].command = conns[j].command
                                  /\ cs[j].at = conns[j].at
  <2>1. \A j \in 1..Len(conns) :
          LET new == [conns[j] EXCEPT !.ui = TRUE]
          IN /\ new \in Conn /\ new.kernel = conns[j].kernel
             /\ new.command = conns[j].command /\ new.at = conns[j].at
    BY Facts DEF Conn
  <2>2. cs \in [1..Len(conns) -> Conn]
    BY <2>1, Facts
  <2>3. cs \in Seq(Conn) /\ Len(cs) = Len(conns)
    BY <2>2, Facts
  <2> QED
    BY <2>1, <2>3, Facts
<1> HIDE DEF cs, con
<1>4. Good(kernels, mapped, cs, cached)
  BY <1>3, Facts, MappedGood DEF IsOver
<1>5. i = Len(cs) + 1
  BY <1>3
<1> HIDE DEF i
<1>6. /\ Good(kernels', mapped', conns', cached') /\ Len(conns') = i
      /\ mapped' # 0 => kernels'[mapped'].down # "disposed"
  BY <1>1, <1>2, <1>4, <1>5, NewGood
<1>7. i \in Nat /\ i \in 1..Len(conns') /\ Len(conns') >= Len(conns)
  BY <1>3, <1>5, <1>6, Facts
<1>8. calls' \in [Callers -> Call] /\ calls'[x].conn = i
      /\ \A y \in Callers : y # x => calls'[y] = calls[y]
  <2>1. mapped \in Nat
    BY Facts
  <2> QED
    BY <1>1, <1>7, <2>1, Facts DEF Waits, Call
<1> QED
  BY <1>1, <1>6, <1>7, <1>8, TurnGood, Facts

(* A caller whose connection is over, and who may ask once more.            *)
LEMMA AnsweredIInv ==
  ASSUME IInv, NEW x \in Callers, Answered(x)  PROVE IInv'
<1> DEFINE i == calls[x].conn
           con == conns[i]
           c == IF cached = i THEN 0 ELSE cached
<1>1. calls[x].at = "waiting" /\ Over(i) /\ UNCHANGED <<open, selected, switching, troubles>>
  BY DEF Answered
<1>2. i \in 1..Len(conns) /\ con \in Conn /\ i \in Nat
  BY <1>1, Facts DEF IInv, Rest
<1>3. con.at = "done" => con.kernel \in 1..Len(kernels)
  BY <1>2, Facts
<1>4. Good(kernels, mapped, conns, c)
  <2>1. CASE cached = i
    BY <1>1, <1>2, <2>1, Facts, UncachedGood DEF Over, IsOver
  <2>2. CASE cached # i
    BY <2>2, Facts
  <2> QED
    BY <2>1, <2>2
<1>5. ASSUME NEW at \in {"got", "failed"}, NEW k \in Nat,
             calls' = [calls EXCEPT ![x].at = at, ![x].kernel = k],
             Good(kernels', mapped', conns', cached'), Len(conns') = Len(conns),
             mapped' # 0 => kernels'[mapped'].down # "disposed"
      PROVE  IInv'
  <2> DEFINE new == [[calls[x] EXCEPT !.at = at] EXCEPT !.kernel = k]
  <2>1. calls \in [Callers -> Call] /\ calls[x] \in Call
    BY Facts
  <2>2. new \in Call /\ new.conn = i
    BY <2>1, <1>5 DEF Call
  <2>3. calls' = [calls EXCEPT ![x] = new]
    BY <1>5, <2>1
  <2> HIDE DEF new, i
  <2>4. calls' \in [Callers -> Call] /\ \A y \in Callers : calls'[y] = IF y = x THEN new ELSE calls[y]
    BY <2>1, <2>2, <2>3
  <2>5. Len(conns') >= Len(conns)
    BY <1>5, Facts
  <2>6. selected' \in Controllers /\ switching' \subseteq Controllers
        /\ troubles' \in 0..MaxTroubles /\ open' = open
    BY <1>1, Facts
  <2> QED
    BY <1>2, <1>5, <2>2, <2>4, <2>5, <2>6, TurnGood
<1>6. mapped # 0 => kernels[mapped].down # "disposed"
  BY DEF IInv, Rest
<1>7. Good(kernels, mapped, conns, cached)
  BY Facts
<1>8. CASE /\ con.at = "failed" /\ calls' = [calls EXCEPT ![x].at = "failed", ![x].kernel = 0]
           /\ UNCHANGED <<kernels, mapped, conns, cached>>
  BY <1>5, <1>6, <1>7, <1>8
<1>9. CASE /\ con.at = "done"
           /\ calls' = [calls EXCEPT ![x].at = "got", ![x].kernel = con.kernel]
           /\ UNCHANGED <<kernels, mapped, conns, cached>>
  <2>1. con.kernel \in Nat
    BY <1>2 DEF Conn
  <2> QED
    BY <1>5, <1>6, <1>7, <1>9, <2>1
<1>10. CASE /\ con.at = "done"
            /\ calls' = [calls EXCEPT ![x].at = "failed", ![x].kernel = 0]
            /\ Become(kernels, mapped, conns, c)
  <2>1. /\ Good(kernels', mapped', conns', cached') /\ Len(conns') = Len(conns)
        /\ mapped' # 0 => kernels'[mapped'].down # "disposed"
    BY <1>4, <1>10, BecomeGood DEF Good
  <2> QED
    BY <1>5, <1>10, <2>1
<1>11. CASE /\ con.at = "done"
            /\ Connect(x, kernels[con.kernel].of, calls[x].ui, TRUE, c,
                       [conns EXCEPT ![i].again = TRUE], kernels, mapped)
  <2> DEFINE new == [con EXCEPT !.again = TRUE]
             cs  == [conns EXCEPT ![i] = new]
  <2>1. /\ new \in Conn /\ new.kernel = con.kernel /\ new.at = con.at
        /\ new.command = con.command
    BY <1>2 DEF Conn
  <2>2. cs = [conns EXCEPT ![i].again = TRUE]
    OBVIOUS
  <2>3. kernels[con.kernel].of \in Controllers /\ calls[x].ui \in BOOLEAN
    BY <1>3, <1>11, Facts DEF Kernel, Call
  <2>4. con.kernel \in 0..Len(kernels) /\ con.kernel # 0
    BY <1>3, <1>11, Facts
  <2> HIDE DEF new, c, i
  <2>5. Good(kernels, mapped, cs, c)
    BY <1>2, <1>4, <1>11, <2>1, <2>4, PutGood DEF IsOver
  <2>6. Len(cs) = Len(conns) /\ \A j \in 1..Len(cs) : cs[j].at = conns[j].at
    BY <1>2, <2>1, Facts
  <2>7. selected' \in Controllers /\ switching' \subseteq Controllers
        /\ troubles' \in 0..MaxTroubles /\ open' = open
    BY <1>1, Facts
  <2> HIDE DEF cs, con
  <2> QED
    BY <1>11, <2>2, <2>3, <2>5, <2>6, <2>7, ConnectGood
<1> QED
  BY <1>8, <1>9, <1>10, <1>11 DEF Answered

(* A connection takes the controller that is selected.                      *)
LEMMA PickedGood ==
  ASSUME IInv, NEW ks, NEW m, Good(ks, m, conns, cached), NEW ctl \in Controllers
  PROVE  Good(ks, m, Picked(ctl), cached) /\ Len(Picked(ctl)) = Len(conns)
<1> DEFINE new(i) == [conns[i] EXCEPT !.at = "picked", !.of = ctl]
           t == Picked(ctl)
<1>1. \A i \in 1..Len(conns) : /\ new(i) \in Conn /\ new(i).kernel = conns[i].kernel
                               /\ new(i).command = conns[i].command
  BY Facts DEF Conn, Stages
<1>2. t = [i \in 1..Len(conns) |->
             IF conns[i].at \in {"selecting", "awaiting"} THEN new(i) ELSE conns[i]]
  BY Facts DEF Picked
<1> HIDE DEF new, t
<1>3. t \in [1..Len(conns) -> Conn]
  BY <1>1, <1>2, Facts
<1>4. t \in Seq(Conn) /\ Len(t) = Len(conns)
  BY <1>3, Facts
<1>5. \A i \in 1..Len(conns) : /\ t[i].kernel = conns[i].kernel
                               /\ t[i].command = conns[i].command
                               /\ IsOver(conns[i]) => t[i] = conns[i]
  BY <1>1, <1>2 DEF IsOver
<1>6. Good(ks, m, t, cached)
  BY <1>4, <1>5, MappedGood DEF IsOver
<1> QED
  BY <1>4, <1>6 DEF t

(* The notebook.                                                            *)
LEMMA SelectControllerIInv ==
  ASSUME IInv, NEW ctl \in Controllers, SelectController(ctl)  PROVE IInv'
<1> DEFINE ks == IF mapped # 0 /\ kernels[mapped].of = selected
                 THEN Disposed(kernels, mapped) ELSE kernels
<1>1. Good(ks, mapped, conns, cached)
  BY Facts, DisposedGood
<1>2. Become(ks, mapped, conns, cached) \/ Become(ks, mapped, Picked(ctl), cached)
  BY DEF SelectController
<1> HIDE DEF ks
<1>3. troubles' \in 0..MaxTroubles
  BY Facts, TroubleType DEF SelectController
<1>4. /\ selected' \in Controllers /\ switching' \subseteq Controllers
      /\ calls' = calls /\ open' = open
  BY Facts DEF SelectController
<1>5. CASE Become(ks, mapped, conns, cached)
  BY <1>1, <1>3, <1>4, <1>5, StepGood
<1>6. CASE Become(ks, mapped, Picked(ctl), cached)
  <2>1. Good(ks, mapped, Picked(ctl), cached) /\ Len(Picked(ctl)) = Len(conns)
    BY <1>1, PickedGood
  <2> QED
    BY <1>3, <1>4, <1>6, <2>1, StepGood
<1> QED
  BY <1>2, <1>5, <1>6

(* The edit of a switch is done.                                            *)
LEMMA SwitchEndsIInv ==
  ASSUME IInv, NEW ctl \in Controllers, SwitchEnds(ctl)  PROVE IInv'
<1> DEFINE ks == Created(kernels, mapped, ctl)
           k  == CreatedOne(kernels, mapped, ctl)
<1>1. Good(ks, k, conns, cached)
  BY Facts, CreatedGood
<1>2. Become(ks, k, Picked(ctl), cached)
  BY DEF SwitchEnds
<1> HIDE DEF ks, k
<1>3. /\ switching' \subseteq Controllers /\ selected' \in Controllers
      /\ open' = open /\ calls' = calls /\ troubles' \in 0..MaxTroubles
  BY Facts DEF SwitchEnds
<1>4. Good(ks, k, Picked(ctl), cached) /\ Len(Picked(ctl)) = Len(conns)
  BY <1>1, PickedGood
<1> QED
  BY <1>2, <1>3, <1>4, StepGood

(* The same, and the kernel is started automatically.                       *)
LEMMA SwitchConnectsIInv ==
  ASSUME IInv, NEW ctl \in Controllers, NEW x \in Callers, SwitchConnects(ctl, x)
  PROVE  IInv'
<1> DEFINE ks == Created(kernels, mapped, ctl)
           k  == CreatedOne(kernels, mapped, ctl)
           c  == WhileOfUse(cached, conns, ks)
<1>1. Good(ks, k, conns, cached)
  BY Facts, CreatedGood
<1>2. Connect(x, ctl, FALSE, FALSE, c, conns, ks, k)
  BY DEF SwitchConnects
<1>3. /\ switching' \subseteq Controllers /\ selected' \in Controllers
      /\ open' = open /\ troubles' \in 0..MaxTroubles
  BY Facts DEF SwitchConnects
<1>4. c = cached \/ (c = 0 /\ cached # 0 /\ IsOver(conns[cached]))
  BY DEF WhileOfUse, IsOver
<1> HIDE DEF ks, k, c
<1>5. Good(ks, k, conns, c)
  BY <1>1, <1>4, UncachedGood
<1> QED
  BY <1>2, <1>3, <1>5, ConnectGood

(* Everything there is is being disposed when the notebook closes.          *)
LEMMA CloseNotebookIInv ==
  ASSUME IInv, CloseNotebook  PROVE IInv'
<1> DEFINE ks == Disposed(kernels, mapped)
<1>1. /\ Good(ks, mapped, conns, cached) /\ Len(ks) = Len(kernels)
      /\ mapped # 0 => ks[mapped].down # "no"
  BY Facts, DisposedGood
<1>2. Become(ks, 0, conns, cached) /\ open' = FALSE
      /\ UNCHANGED <<selected, switching, calls, troubles>>
  BY DEF CloseNotebook
<1> HIDE DEF ks
<1>3. \A k \in 1..Len(ks) : ~Current(ks, k)
  BY <1>1 DEF Good, KernelsGood, Current
<1>4. Good(ks, 0, conns, cached)
  BY <1>1, <1>3 DEF Good, KernelsGood
<1>5. /\ KernelsGood(kernels', mapped') /\ ConnsGood(kernels', conns', cached')
      /\ kernels' = ks /\ conns' = conns
      /\ mapped' # 0 => kernels'[mapped'].down # "disposed"
  BY <1>2, <1>4, BecomeGood
<1>6. NoneForClosed(kernels, conns)'
  BY <1>3, <1>5 DEF NoneForClosed, Current
<1>7. Rest'
  BY <1>2, <1>5 DEF IInv, Rest
<1>8. KernelsGood(kernels, mapped)'
  BY <1>5 DEF KernelsGood, Current
<1>9. ConnsGood(kernels, conns, cached)'
  BY <1>5 DEF ConnsGood, IsOver, Overtaken
<1> QED
  BY <1>6, <1>7, <1>8, <1>9 DEF IInv, Good

(* A kernel that is forgotten is no longer the notebook's.                  *)
LEMMA ServerRemovedIInv ==
  ASSUME IInv, ServerRemoved  PROVE IInv'
<1> DEFINE new == [kernels[mapped] EXCEPT !.forgotten = TRUE]
           ks == [kernels EXCEPT ![mapped] = new]
<1>1. mapped \in 1..Len(kernels) /\ kernels[mapped] \in Kernel
  BY Facts DEF ServerRemoved
<1>2. /\ new \in Kernel /\ new.down = kernels[mapped].down
      /\ new.session = kernels[mapped].session /\ new.forgotten
  BY <1>1 DEF Kernel
<1>3. ks = [kernels EXCEPT ![mapped].forgotten = TRUE]
  OBVIOUS
<1>4. ks \in Seq(Kernel) /\ Len(ks) = Len(kernels)
      /\ \A k \in 1..Len(kernels) : ks[k] = IF k = mapped THEN new ELSE kernels[k]
  BY <1>1, <1>2, Facts
<1> HIDE DEF new
<1>5. new.down = "disposed" => new.session \in {"none", "gone"}
  BY <1>1, <1>2 DEF IInv, Good, KernelsGood
<1>6. Good(ks, mapped, conns, cached)
  BY <1>1, <1>2, <1>5, Facts, ChangedKernel
<1> HIDE DEF ks
<1>7. \A k \in 1..Len(ks) : ~Current(ks, k)
  BY <1>2, <1>4, <1>6 DEF Good, KernelsGood, Current
<1>8. Good(ks, 0, conns, cached)
  BY <1>6, <1>7 DEF Good, KernelsGood
<1>9. Become(ks, 0, conns, cached) /\ troubles' \in 0..MaxTroubles
      /\ UNCHANGED <<open, selected, switching, calls>>
  BY <1>3, Facts, TroubleType DEF ServerRemoved
<1> QED
  BY <1>8, <1>9, StepGood, Facts

(* Every action keeps IInv.                                                 *)
LEMMA NextIInv == IInv /\ [KernelsNext]_kernelsVars => IInv'
<1> SUFFICES ASSUME IInv, [KernelsNext]_kernelsVars  PROVE IInv'
  OBVIOUS
<1>1. ASSUME NEW x \in Callers, RunConnects(x) \/ Answered(x)  PROVE IInv'
  BY <1>1, RunConnectsIInv, AnsweredIInv
<1>2. ASSUME NEW k \in DOMAIN kernels,
             KernelStarted(k) \/ KernelNotStarted(k) \/ DisposeGoesOn(k) \/ KernelDies(k)
      PROVE  IInv'
  BY <1>2, KernelStartedIInv, KernelNotStartedIInv, DisposeGoesOnIInv, KernelDiesIInv
<1>3. ASSUME NEW i \in DOMAIN conns,
             \/ ErrorAnswered(i) \/ SelectionCancelled(i) \/ SameSelected(i)
             \/ DeadAnswered(i) \/ RestartEnds(i) \/ RestartFails(i)
             \/ RestartStarts(i) \/ CommandEnds(i) \/ CommandFails(i)
      PROVE  IInv'
  BY <1>3, PromptIInv
<1>4. ASSUME NEW i \in DOMAIN conns, ErrorSolved(i) \/ GoesAround(i)  PROVE IInv'
  BY <1>4, ErrorSolvedIInv, GoesAroundIInv
<1>5. ASSUME NEW ctl \in Controllers, SelectController(ctl) \/ SwitchEnds(ctl)  PROVE IInv'
  BY <1>5, SelectControllerIInv, SwitchEndsIInv
<1>6. ASSUME NEW ctl \in Controllers, NEW x \in Callers, SwitchConnects(ctl, x)  PROVE IInv'
  BY <1>6, SwitchConnectsIInv
<1>10. ASSUME NEW x \in Callers, NEW method \in Commands, CommandConnects(x, method)
       PROVE  IInv'
  BY <1>10, CommandConnectsIInv
<1>7. CASE CloseNotebook
  BY <1>7, CloseNotebookIInv
<1>8. CASE ServerRemoved
  BY <1>8, ServerRemovedIInv
<1>9. CASE UNCHANGED kernelsVars
  BY <1>9 DEF kernelsVars, IInv, Good, KernelsGood, ConnsGood, NoneForClosed, Rest, Current,
     IsOver, Overtaken
<1> QED
  BY <1>1, <1>2, <1>3, <1>4, <1>5, <1>6, <1>7, <1>8, <1>9, <1>10
  DEF KernelsNext, KernelsStep

(* So IInv always holds.                                                    *)
LEMMA AlwaysIInv == KernelsSpec => []IInv
  BY InitIInv, NextIInv, PTL DEF KernelsSpec

-----------------------------------------------------------------------------
(* The theorems.                                                            *)

(* Every variable keeps its type, and the map never holds a kernel that is  *)
(* disposed (deleteMappingIfKernelIsDisposed).                              *)
THEOREM TypeCorrect == KernelsSpec => []KernelsTypeOK
<1>1. IInv => KernelsTypeOK
  <2> SUFFICES ASSUME IInv  PROVE KernelsTypeOK
    OBVIOUS
  <2>1. \A k \in DOMAIN kernels :
           /\ kernels[k] \in Kernel
           /\ kernels[k].down = "disposed" => kernels[k].session \in {"none", "gone"}
    BY Facts DEF Good, KernelsGood
  <2>2. \A i \in DOMAIN conns :
           conns[i] \in [of : Controllers, ui : BOOLEAN, at : Stages,
                         kernel : 0..Len(kernels), noRestart : BOOLEAN,
                         again : BOOLEAN, asked : BOOLEAN, listens : BOOLEAN,
                         command : Commands \cup {"none"}]
    BY Facts DEF Conn
  <2>3. cached \in 0..Len(conns)
    BY DEF IInv, Good, ConnsGood
  <2>4. \A x \in Callers : calls[x].at \in {"idle", "waiting", "got", "failed"}
    BY Facts DEF Call
  <2> QED
    BY <2>1, <2>2, <2>3, <2>4, Facts DEF IInv, Rest, KernelsTypeOK, Kernel
<1> QED
  BY <1>1, AlwaysIInv, PTL

(* A notebook has one kernel at a time, whatever is selected, prompted for, *)
(* retried or closed (BaseCoreKernelProvider, wrapKernelMethodImpl).        *)
THEOREM KernelIsOne == KernelsSpec => []OneKernel
<1>1. IInv => OneKernel
  BY Facts DEF Good, KernelsGood, OneKernel, Current
<1> QED
  BY <1>1, AlwaysIInv, PTL

(* A notebook that is closed leaves no kernel behind, whatever was under    *)
(* way (onDidCloseNotebookDocument, and the check in the loop).             *)
THEOREM ClosingLeavesNone == KernelsSpec => []ClosedLeavesNone
<1>1. IInv => ClosedLeavesNone
  BY Facts DEF Good, NoneForClosed, ClosedLeavesNone, HasSession, Current
<1> QED
  BY <1>1, AlwaysIInv, PTL

(* Callers share one connection: none is under way but the cached one, and  *)
(* those that a restart or an interrupt came after (connectionsByNotebook). *)
THEOREM ConnectionIsOne == KernelsSpec => []OneConnection
<1>1. IInv => OneConnection
  BY Facts DEF OneConnection, Over, IsOver
<1> QED
  BY <1>1, AlwaysIInv, PTL

=============================================================================
