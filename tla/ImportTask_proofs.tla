--------------------------- MODULE ImportTask_proofs ---------------------------
(***************************************************************************)
(* Proofs about ImportTask, for every number of commands on a store, every *)
(* set of documents, channel bound and pool size.                          *)
(*                                                                         *)
(* ImportInv is inductive.  It says what a task holds at each of its       *)
(* awaits, that the advisory lock of a document keeps the answer of the    *)
(* check of start_import true up to the commit, and that the import that   *)
(* commits has compared what it consumed with its preflight.               *)
(***************************************************************************)
EXTENDS ImportTask, FiniteSetTheorems, TLAPS

USE BoundAssumption, TaskAssumption

(* At least one import may run, and never as many as there are connections.*)
LEMMA PermitsBelowPool == Permits \in Nat \ {0} /\ PoolSize \in Nat /\ Permits < PoolSize
  BY DEF Permits, PoolSize

(* A step that gives nobody a permit takes no more of them.                *)
LEMMA PermitsKept ==
  ASSUME \A t \in Task : permit'[t] => permit[t]
  PROVE  PermitsTaken' <= PermitsTaken /\ PermitsTaken \in Nat /\ PermitsTaken' \in Nat
<1> DEFINE before == {t \in Task : permit[t]}
           after == {t \in Task : permit'[t]}
<1>1. before \subseteq Task /\ after \subseteq before
  OBVIOUS
<1>2. IsFiniteSet(before)
  BY <1>1, FS_Subset
<1>3. IsFiniteSet(after) /\ Cardinality(after) <= Cardinality(before)
  BY <1>1, <1>2, FS_Subset
<1> QED
  BY <1>2, <1>3, FS_CardinalityType DEF PermitsTaken

(* Idle commands satisfy the invariant.                                    *)
LEMMA ImportInit == Init => ImportInv
<1> SUFFICES ASSUME Init PROVE ImportInv
  OBVIOUS
<1> USE DEF Init
<1>1. TypeOK
  BY DEF TypeOK, Waits
<1>2. HoldingsFollow
  <2>1. {t \in Task : permit[t]} = {}
    OBVIOUS
  <2>2. PermitsTaken = 0
    BY <2>1, FS_EmptySet DEF PermitsTaken
  <2> QED
    BY <2>2, PermitsBelowPool DEF HoldingsFollow, Connected, Permitted, Locked
<1>3. LockExclusive /\ ImportedOnce
  BY DEF LockExclusive, ImportedOnce
<1>4. ImportsAreChecked /\ StoredIsPreflighted
  BY NoneAssumption DEF ImportsAreChecked, Checked, StoredIsPreflighted, Permitted
<1> QED
  BY <1>1, <1>2, <1>3, <1>4 DEF ImportInv

(***************************************************************************)
(* A step of a command moves it from one await to the next, sets its exit  *)
(* code, takes or gives back what it holds, consumes or forgets records;   *)
(* only a capture changes its document, and only a commit what is stored.  *)
(***************************************************************************)
Holds(a) == IF a = "auditing" THEN 2 ELSE IF a \in Connected THEN 1 ELSE 0

Moves(t, a, x, c) ==
    /\ at' = [at EXCEPT ![t] = a] /\ exit' = [exit EXCEPT ![t] = x]
    /\ held' = [held EXCEPT ![t] = Holds(a)]
    /\ permit' \in [Task -> BOOLEAN] /\ locked' \in [Task -> BOOLEAN]
    /\ (permit'[t] <=> a \in Permitted) /\ (locked'[t] <=> a \in Locked)
    /\ \A u \in Task \ {t} : (permit'[u] <=> permit[u]) /\ (locked'[u] <=> locked[u])
    /\ consumed' = [consumed EXCEPT ![t] = c]

Effect(t, a, x, c) == Moves(t, a, x, c) /\ UNCHANGED <<doc, stored>>

(* What the parser threads keep.                                           *)
ThreadsOK ==
    /\ second \in [Task -> Document \union {None}]
    /\ thread \in [Task -> {"none", "parsing", "ended"}]
    /\ channel \in [Task -> Seq(Item \union {None})]
    /\ \A t \in Task : Len(channel[t]) <= ChannelBound
    /\ sent \in [Task -> Nat]
    /\ \A t \in Task : thread[t] = "parsing" => second[t] \in Document

(* Records without an error.                                               *)
Clean(c) == c \in Seq(Item) /\ \A i \in DOMAIN c : ~c[i].error

(* What the invariant says of one command.                                 *)
LEMMA OneTask ==
  ASSUME ImportInv, NEW t \in Task
  PROVE  /\ TypeOK /\ Checked(t) /\ ThreadsOK
         /\ held[t] = Holds(at[t])
         /\ (permit[t] <=> at[t] \in Permitted) /\ (locked[t] <=> at[t] \in Locked)
         /\ at[t] \in Waits /\ exit[t] \in {None} \union 0 .. 7
         /\ Clean(consumed[t])
<1>1. TypeOK /\ Checked(t) /\ \A u \in Task : Checked(u)
  BY DEF ImportInv, ImportsAreChecked
<1>2. ThreadsOK
  BY <1>1 DEF TypeOK, Checked, ThreadsOK
<1>3. held[t] = Holds(at[t]) /\ (permit[t] <=> at[t] \in Permitted) /\ (locked[t] <=> at[t] \in Locked)
  BY DEF ImportInv, HoldingsFollow, Holds
<1>4. at[t] \in Waits /\ exit[t] \in {None} \union 0 .. 7 /\ consumed[t] \in Seq(Item)
  BY <1>1 DEF TypeOK
<1> QED
  BY <1>1, <1>2, <1>3, <1>4 DEF Checked, Clean

(* A step that keeps what the command holds.                               *)
LEMMA Keeping ==
  ASSUME ImportInv, NEW t \in Task, NEW a, NEW x, NEW c,
         Goes(t, a), exit' = [exit EXCEPT ![t] = x], consumed' = [consumed EXCEPT ![t] = c],
         UNCHANGED <<held, permit, locked>>,
         Holds(a) = Holds(at[t]), a \in Permitted <=> at[t] \in Permitted,
         a \in Locked <=> at[t] \in Locked
  PROVE  Moves(t, a, x, c)
<1>1. TypeOK /\ held[t] = Holds(a) /\ (permit[t] <=> a \in Permitted) /\ (locked[t] <=> a \in Locked)
  BY OneTask
<1>2. held' = [held EXCEPT ![t] = Holds(a)]
  BY <1>1 DEF TypeOK
<1>3. permit' \in [Task -> BOOLEAN] /\ locked' \in [Task -> BOOLEAN]
  BY <1>1 DEF TypeOK
<1>4. \A u \in Task \ {t} : (permit'[u] <=> permit[u]) /\ (locked'[u] <=> locked[u])
  OBVIOUS
<1> QED
  BY <1>1, <1>2, <1>3, <1>4 DEF Moves, Goes

(* A step that gives everything back.                                      *)
LEMMA Dropping ==
  ASSUME ImportInv, NEW t \in Task, NEW a \in {"done", "report", "fail"}, NEW x, NEW c,
         Goes(t, a), exit' = [exit EXCEPT ![t] = x], consumed' = [consumed EXCEPT ![t] = c],
         Drops(t)
  PROVE  Moves(t, a, x, c)
<1>1. TypeOK
  BY OneTask
<1>2. Holds(a) = 0 /\ a \notin Permitted /\ a \notin Locked
  BY DEF Holds, Connected, Permitted, Locked
<1>3. /\ permit' \in [Task -> BOOLEAN] /\ locked' \in [Task -> BOOLEAN]
      /\ ~permit'[t] /\ ~locked'[t]
      /\ \A u \in Task \ {t} : (permit'[u] <=> permit[u]) /\ (locked'[u] <=> locked[u])
  BY <1>1 DEF Drops, TypeOK
<1> QED
  BY <1>2, <1>3 DEF Moves, Goes, Drops

(* What stays as it is may be written as an update.                        *)
LEMMA Unchanged ==
  ASSUME ImportInv, NEW t \in Task
  PROVE  exit = [exit EXCEPT ![t] = exit[t]] /\ consumed = [consumed EXCEPT ![t] = consumed[t]]
  BY OneTask DEF TypeOK

(* A move keeps what the invariant says of types, holdings and locks when  *)
(* the gate had a permit for it and nobody else has the lock it takes.     *)
LEMMA MoveKeeps ==
  ASSUME ImportInv, NEW t \in Task, NEW a \in Waits, NEW x \in {None} \union 0 .. 7, NEW c,
         Moves(t, a, x, c), Clean(c), ThreadsOK',
         doc' \in [Task -> Document \union {None}],
         stored' \subseteq [doc : Document, records : Seq(Item)],
         \A u \in Task \ {t} : doc'[u] = doc[u],
         (a \in Permitted => permit[t]) \/ PermitsTaken' <= Permits,
         a \in Locked => doc' = doc /\ (locked[t] \/ ~LockTaken(t))
  PROVE  TypeOK' /\ HoldingsFollow' /\ LockExclusive'
<1>0. TypeOK /\ HoldingsFollow /\ LockExclusive
  BY DEF ImportInv
<1>1. Holds(a) \in 0 .. 2
  BY DEF Holds
<1>2. /\ at'[t] = a /\ exit'[t] = x /\ held'[t] = Holds(a)
      /\ \A u \in Task : u # t =>
            /\ at'[u] = at[u] /\ exit'[u] = exit[u] /\ held'[u] = held[u]
            /\ (permit'[u] <=> permit[u]) /\ (locked'[u] <=> locked[u])
  BY <1>0 DEF Moves, TypeOK
<1>3. TypeOK'
  <2>1. at' \in [Task -> Waits] /\ exit' \in [Task -> {None} \union 0 .. 7]
    BY <1>0 DEF Moves, TypeOK
  <2>2. held' \in [Task -> 0 .. 2]
    BY <1>0, <1>1 DEF Moves, TypeOK
  <2>3. permit' \in [Task -> BOOLEAN] /\ locked' \in [Task -> BOOLEAN]
    BY DEF Moves
  <2>4. consumed' \in [Task -> Seq(Item)]
    BY <1>0 DEF Moves, TypeOK, Clean
  <2> QED
    BY <2>1, <2>2, <2>3, <2>4 DEF TypeOK, ThreadsOK
<1>4. HoldingsFollow'
  <2>0. \A u \in Task : /\ held[u] = Holds(at[u])
                        /\ permit[u] <=> at[u] \in Permitted
                        /\ locked[u] <=> at[u] \in Locked
    BY <1>0 DEF HoldingsFollow, Holds
  <2>1. \A u \in Task : /\ held'[u] = Holds(at'[u])
                        /\ permit'[u] <=> at'[u] \in Permitted
                        /\ locked'[u] <=> at'[u] \in Locked
    BY <1>2, <2>0 DEF Moves
  <2>2. PermitsTaken' <= Permits
    <3>1. CASE a \in Permitted => permit[t]
      <4>1. \A u \in Task : permit'[u] => permit[u]
        BY <1>2, <3>1 DEF Moves
      <4> QED
        BY <1>0, <4>1, PermitsKept, PermitsBelowPool DEF HoldingsFollow
    <3> QED
      BY <3>1
  <2> QED
    BY <2>1, <2>2 DEF HoldingsFollow, Holds
<1>5. LockExclusive'
  <2>1. SUFFICES ASSUME NEW v \in Task, NEW u \in Task, locked'[v], locked'[u], doc'[v] = doc'[u], v # u
                 PROVE  FALSE
    BY DEF LockExclusive
  <2>2. CASE v # t /\ u # t
    BY <1>0, <1>2, <2>1, <2>2 DEF LockExclusive
  <2>3. \A w \in Task : w # t /\ locked'[t] /\ locked'[w] => doc'[w] # doc'[t]
    <3>1. SUFFICES ASSUME NEW w \in Task, w # t, locked'[t], locked'[w] PROVE doc'[w] # doc'[t]
      OBVIOUS
    <3>2. doc' = doc /\ locked[w] /\ (locked[t] \/ ~LockTaken(t))
      BY <1>2, <3>1 DEF Moves
    <3> QED
      BY <1>0, <3>1, <3>2 DEF LockExclusive, LockTaken
  <2> QED
    BY <2>1, <2>2, <2>3
<1> QED
  BY <1>3, <1>4, <1>5

(* The invariant is kept when, besides, the command has the knowledge its  *)
(* new await stands for.                                                   *)
LEMMA EffectKeeps ==
  ASSUME ImportInv, NEW t \in Task, NEW a \in Waits, NEW x \in {None} \union 0 .. 7, NEW c,
         Effect(t, a, x, c), Clean(c), ThreadsOK',
         (a \in Permitted => permit[t]) \/ PermitsTaken' <= Permits,
         a \in Locked => locked[t] \/ ~LockTaken(t),
         a # "idle" /\ (a # "done" \/ x = 0) => doc[t] \in Document,
         a \in (Permitted \ {"rollback"}) \union {"open", "gate"} => Preflighted(doc[t]),
         a \in {"audit", "auditing", "consume", "commit"} => ~Imported(doc[t]),
         a = "commit" => Consistent(t) /\ c = consumed[t],
         a = "report" \/ x = 0 => Imported(doc[t]),
         a # "done" => x # 0
  PROVE  ImportInv'
<1>0. /\ TypeOK /\ ImportsAreChecked /\ ImportedOnce /\ StoredIsPreflighted
  BY DEF ImportInv
<1>1. Moves(t, a, x, c) /\ doc' = doc /\ stored' = stored
  BY DEF Effect
<1>2. /\ at'[t] = a /\ exit'[t] = x /\ consumed'[t] = c
      /\ \A u \in Task : u # t => at'[u] = at[u] /\ exit'[u] = exit[u] /\ consumed'[u] = consumed[u]
  BY <1>0, <1>1 DEF Moves, TypeOK
<1>3. TypeOK' /\ HoldingsFollow' /\ LockExclusive'
  BY <1>0, <1>1, MoveKeeps DEF TypeOK
<1>6. ImportsAreChecked'
  <2> SUFFICES ASSUME NEW u \in Task PROVE Checked(u)'
    BY DEF ImportsAreChecked
  <2>0. Checked(u) /\ (thread'[u] = "parsing" => second'[u] \in Document)
    BY <1>0 DEF ImportsAreChecked, ThreadsOK
  <2>1. CASE u = t
    BY <1>1, <1>2, <2>0, <2>1 DEF Checked, Imported, Consistent, Clean
  <2>2. CASE u # t
    BY <1>1, <1>2, <2>0, <2>2 DEF Checked, Imported, Consistent
  <2> QED
    BY <2>1, <2>2
<1>7. ImportedOnce'
  BY <1>0, <1>1 DEF ImportedOnce
<1>8. StoredIsPreflighted'
  BY <1>0, <1>1, <1>2 DEF StoredIsPreflighted, Imported
<1> QED
  BY <1>3, <1>6, <1>7, <1>8 DEF ImportInv

(* An await that ends without touching the records or the parser thread.   *)
LEMMA AwaitKeeps ==
  ASSUME ImportInv, NEW t \in Task,
         \/ Preflight(t) \/ Validation(t) \/ Validating(t) \/ Record(t) \/ Begin(t)
         \/ Lock(t) \/ Check(t) \/ Audit(t) \/ Audited(t) \/ EndOfStream(t) \/ Report(t)
         \/ MarkFailed(t) \/ Gate(t)
  PROVE  ImportInv'
<1> DEFINE c == consumed[t]
           Stays == UNCHANGED <<doc, consumed, stored, threadVars>>
           Kept(a, x) == Effect(t, a, x, c)
<1>0. /\ TypeOK /\ Checked(t) /\ ThreadsOK /\ Clean(c) /\ held[t] = Holds(at[t])
      /\ (permit[t] <=> at[t] \in Permitted) /\ (locked[t] <=> at[t] \in Locked)
      /\ exit[t] \in {None} \union 0 .. 7
      /\ exit = [exit EXCEPT ![t] = exit[t]] /\ consumed = [consumed EXCEPT ![t] = c]
  BY OneTask, Unchanged
<1>a. Stays /\ ThreadsOK'
  <2>1. Stays
    BY DEF Preflight, Validation, Validating, Record, Begin, Lock, Check, Audit, Audited,
           EndOfStream, Report, MarkFailed, Gate, threadVars
  <2> QED
    BY <1>0, <2>1 DEF ThreadsOK, threadVars
<1>b. ASSUME NEW a \in {"done", "report"}, NEW x, Drops(t), Goes(t, a), exit' = [exit EXCEPT ![t] = x]
      PROVE  Kept(a, x)
  <2>1. a \in {"done", "report", "fail"} /\ consumed' = [consumed EXCEPT ![t] = c]
    BY <1>0, <1>a
  <2>2. Moves(t, a, x, c)
    BY <1>b, <2>1, Dropping
  <2> QED
    BY <1>a, <2>2 DEF Effect
<1>c. ASSUME NEW a, NEW x, Goes(t, a), exit' = [exit EXCEPT ![t] = x], UNCHANGED <<held, permit, locked>>,
             Holds(a) = Holds(at[t]), a \in Permitted <=> at[t] \in Permitted,
             a \in Locked <=> at[t] \in Locked
      PROVE  Kept(a, x)
  BY <1>0, <1>a, <1>c, Keeping DEF Effect
<1>d. ASSUME NEW a, Goes(t, a), exit' = exit, held' = [held EXCEPT ![t] = Holds(a)],
             UNCHANGED <<permit, locked>>,
             a \in Permitted <=> at[t] \in Permitted, a \in Locked <=> at[t] \in Locked
      PROVE  Kept(a, exit[t])
  <2>1. permit' \in [Task -> BOOLEAN] /\ locked' \in [Task -> BOOLEAN]
    BY <1>0, <1>d DEF TypeOK
  <2>2. (permit'[t] <=> a \in Permitted) /\ (locked'[t] <=> a \in Locked)
    BY <1>0, <1>d
  <2> QED
    BY <1>0, <1>a, <1>d, <2>1, <2>2 DEF Effect, Moves, Goes
<1>e. ASSUME NEW a, Goes(t, a), exit' = exit, locked' = [locked EXCEPT ![t] = TRUE],
             UNCHANGED <<held, permit>>, Holds(a) = Holds(at[t]),
             a \in Permitted <=> at[t] \in Permitted, a \in Locked
      PROVE  Kept(a, exit[t])
  <2>1. /\ permit' \in [Task -> BOOLEAN] /\ locked' \in [Task -> BOOLEAN] /\ locked'[t]
        /\ \A u \in Task \ {t} : locked'[u] <=> locked[u]
    BY <1>0, <1>e DEF TypeOK
  <2>2. held' = [held EXCEPT ![t] = Holds(a)]
    BY <1>0, <1>e DEF TypeOK
  <2>3. permit'[t] <=> a \in Permitted
    BY <1>0, <1>e
  <2> QED
    BY <1>0, <1>a, <1>e, <2>1, <2>2, <2>3 DEF Effect, Moves, Goes
<1>f. ASSUME NEW x \in 1 .. 7, Kept("done", x)
      PROVE  ImportInv'
  <2>1. x # 0 /\ x \in {None} \union 0 .. 7 /\ "done" \in Waits
        /\ "done" \notin Permitted /\ "done" \notin Locked
    BY DEF Waits, Permitted, Locked
  <2> QED
    BY <1>0, <1>a, <1>f, <2>1, EffectKeeps
<1> HIDE DEF Kept, Stays, c
<1> USE DEF threadVars
<1>1. CASE Preflight(t)
  <2>0. at[t] = "preflight" /\ exit[t] # 0 /\ doc[t] \in Document
    BY <1>0, <1>1 DEF Preflight, Checked
  <2>s. \/ Preflighted(doc[t]) /\ Goes(t, "open") /\ exit' = exit /\ UNCHANGED <<held, permit, locked>>
        \/ Goes(t, "validation") /\ exit' = exit /\ UNCHANGED <<held, permit, locked>>
        \/ Goes(t, "done") /\ exit' = [exit EXCEPT ![t] = 6] /\ UNCHANGED <<held, permit, locked>>
        \/ Goes(t, "done") /\ (\E x \in {3, 4} : exit' = [exit EXCEPT ![t] = x]) /\ UNCHANGED <<held, permit, locked>>
    BY <1>0, <1>1, <2>0 DEF Preflight, Refuses, Exits, Goes, SourceFailure, ImportFailure, Holds, Connected, Permitted, Locked
  <2>1. CASE Preflighted(doc[t]) /\ Goes(t, "open") /\ exit' = exit /\ UNCHANGED <<held, permit, locked>>
    <3>1. Kept("open", exit[t])
      BY <1>0, <1>c, <2>0, <2>1 DEF Holds, Connected, Permitted, Locked
    <3>2. /\ "open" \in Waits /\ exit[t] \in {None} \union 0 .. 7 /\ exit[t] # 0
          /\ ("open" \in Permitted => permit[t]) /\ ("open" \in Locked => locked[t] \/ ~LockTaken(t))
          /\ ("open" \in (Permitted \ {"rollback"}) \union {"open", "gate"} => Preflighted(doc[t]))
      BY <1>0, <2>0, <2>1, NoneAssumption DEF Waits, Permitted, Locked, Checked
    <3> QED
      BY <1>0, <1>a, <2>0, <2>1, <3>1, <3>2, EffectKeeps DEF Kept, c
  <2>2. CASE Goes(t, "validation") /\ exit' = exit /\ UNCHANGED <<held, permit, locked>>
    <3>1. Kept("validation", exit[t])
      BY <1>0, <1>c, <2>0, <2>2 DEF Holds, Connected, Permitted, Locked
    <3>2. /\ "validation" \in Waits /\ exit[t] \in {None} \union 0 .. 7 /\ exit[t] # 0
          /\ ("validation" \in Permitted => permit[t]) /\ ("validation" \in Locked => locked[t] \/ ~LockTaken(t))
          /\ ("validation" \in (Permitted \ {"rollback"}) \union {"open", "gate"} => Preflighted(doc[t]))
      BY <1>0, <2>0, <2>2, NoneAssumption DEF Waits, Permitted, Locked, Checked
    <3> QED
      BY <1>0, <1>a, <2>0, <2>2, <3>1, <3>2, EffectKeeps DEF Kept, c
  <2>3. CASE Goes(t, "done") /\ exit' = [exit EXCEPT ![t] = 6] /\ UNCHANGED <<held, permit, locked>>
    <3>1. Kept("done", 6)
      BY <1>0, <1>c, <2>0, <2>3 DEF Holds, Connected, Permitted, Locked
    <3> QED
      BY <1>f, <3>1
  <2>4. CASE Goes(t, "done") /\ (\E x \in {3, 4} : exit' = [exit EXCEPT ![t] = x]) /\ UNCHANGED <<held, permit, locked>>
    <3>1. PICK x \in {3, 4} : exit' = [exit EXCEPT ![t] = x]
      BY <2>4
    <3>2. Kept("done", x)
      BY <1>0, <1>c, <2>0, <2>4, <3>1 DEF Holds, Connected, Permitted, Locked
    <3> QED
      BY <1>f, <3>1, <3>2
  <2> QED
    BY <2>s, <2>1, <2>2, <2>3, <2>4
<1>2. CASE Validation(t)
  <2>0. at[t] = "validation" /\ exit[t] # 0 /\ doc[t] \in Document
    BY <1>0, <1>2 DEF Validation, Checked
  <2>s. \/ Goes(t, "validating") /\ exit' = exit /\ held' = [held EXCEPT ![t] = Holds("validating")] /\ UNCHANGED <<permit, locked>>
        \/ Goes(t, "done") /\ (\E x \in {3, 4} : exit' = [exit EXCEPT ![t] = x]) /\ UNCHANGED <<held, permit, locked>>
    BY <1>0, <1>2, <2>0 DEF Validation, Refuses, Goes, Exits, SourceFailure, Holds, Connected, Permitted, Locked
  <2>1. CASE Goes(t, "validating") /\ exit' = exit /\ held' = [held EXCEPT ![t] = Holds("validating")] /\ UNCHANGED <<permit, locked>>
    <3>1. Kept("validating", exit[t])
      BY <1>0, <1>d, <2>0, <2>1 DEF Holds, Connected, Permitted, Locked
    <3>2. /\ "validating" \in Waits /\ exit[t] \in {None} \union 0 .. 7 /\ exit[t] # 0
          /\ ("validating" \in Permitted => permit[t]) /\ ("validating" \in Locked => locked[t] \/ ~LockTaken(t))
          /\ ("validating" \in (Permitted \ {"rollback"}) \union {"open", "gate"} => Preflighted(doc[t]))
      BY <1>0, <2>0, <2>1, NoneAssumption DEF Waits, Permitted, Locked, Checked
    <3> QED
      BY <1>0, <1>a, <2>0, <2>1, <3>1, <3>2, EffectKeeps DEF Kept, c
  <2>2. CASE Goes(t, "done") /\ (\E x \in {3, 4} : exit' = [exit EXCEPT ![t] = x]) /\ UNCHANGED <<held, permit, locked>>
    <3>1. PICK x \in {3, 4} : exit' = [exit EXCEPT ![t] = x]
      BY <2>2
    <3>2. Kept("done", x)
      BY <1>0, <1>c, <2>0, <2>2, <3>1 DEF Holds, Connected, Permitted, Locked
    <3> QED
      BY <1>f, <3>1, <3>2
  <2> QED
    BY <2>s, <2>1, <2>2
<1>3. CASE Validating(t)
  <2>0. at[t] = "validating" /\ exit[t] # 0 /\ doc[t] \in Document
    BY <1>0, <1>3 DEF Validating, Checked
  <2>s. \/ ~LockTaken(t) /\ Goes(t, "record") /\ exit' = exit /\ locked' = [locked EXCEPT ![t] = TRUE] /\ UNCHANGED <<held, permit>>
        \/ Drops(t) /\ Goes(t, "done") /\ (\E x \in {3, 4} : exit' = [exit EXCEPT ![t] = x])
    BY <1>0, <1>3, <2>0 DEF Validating, Refuses, Goes, Exits, SourceFailure, Holds, Connected, Permitted, Locked
  <2>1. CASE ~LockTaken(t) /\ Goes(t, "record") /\ exit' = exit /\ locked' = [locked EXCEPT ![t] = TRUE] /\ UNCHANGED <<held, permit>>
    <3>1. Kept("record", exit[t])
      BY <1>0, <1>e, <2>0, <2>1 DEF Holds, Connected, Permitted, Locked
    <3>2. /\ "record" \in Waits /\ exit[t] \in {None} \union 0 .. 7 /\ exit[t] # 0
          /\ ("record" \in Permitted => permit[t]) /\ ("record" \in Locked => locked[t] \/ ~LockTaken(t))
          /\ ("record" \in (Permitted \ {"rollback"}) \union {"open", "gate"} => Preflighted(doc[t]))
      BY <1>0, <2>0, <2>1, NoneAssumption DEF Waits, Permitted, Locked, Checked
    <3> QED
      BY <1>0, <1>a, <2>0, <2>1, <3>1, <3>2, EffectKeeps DEF Kept, c
  <2>2. CASE Drops(t) /\ Goes(t, "done") /\ (\E x \in {3, 4} : exit' = [exit EXCEPT ![t] = x])
    <3>1. PICK x \in {3, 4} : exit' = [exit EXCEPT ![t] = x]
      BY <2>2
    <3>2. Kept("done", x)
      BY <1>0, <1>b, <2>0, <2>2, <3>1 DEF Holds, Connected, Permitted, Locked
    <3> QED
      BY <1>f, <3>1, <3>2
  <2> QED
    BY <2>s, <2>1, <2>2
<1>4. CASE Record(t)
  <2>0. at[t] = "record" /\ exit[t] # 0 /\ doc[t] \in Document
    BY <1>0, <1>4 DEF Record, Checked
  <2>s. \/ Drops(t) /\ Goes(t, "done") /\ (\E x \in {3, 4} : exit' = [exit EXCEPT ![t] = x])
    BY <1>0, <1>4, <2>0 DEF Record, Refuses, Goes, Exits, SourceFailure, Holds, Connected, Permitted, Locked
  <2>1. CASE Drops(t) /\ Goes(t, "done") /\ (\E x \in {3, 4} : exit' = [exit EXCEPT ![t] = x])
    <3>1. PICK x \in {3, 4} : exit' = [exit EXCEPT ![t] = x]
      BY <2>1
    <3>2. Kept("done", x)
      BY <1>0, <1>b, <2>0, <2>1, <3>1 DEF Holds, Connected, Permitted, Locked
    <3> QED
      BY <1>f, <3>1, <3>2
  <2> QED
    BY <2>s, <2>1
<1>5. CASE Begin(t)
  <2>0. at[t] = "begin" /\ exit[t] # 0 /\ doc[t] \in Document
    BY <1>0, <1>5 DEF Begin, Checked
  <2>s. \/ Goes(t, "lock") /\ exit' = exit /\ held' = [held EXCEPT ![t] = Holds("lock")] /\ UNCHANGED <<permit, locked>>
        \/ Drops(t) /\ Goes(t, "done") /\ exit' = [exit EXCEPT ![t] = 6]
    BY <1>0, <1>5, <2>0 DEF Begin, Goes, Exits, ImportFailure, Holds, Connected, Permitted, Locked
  <2>1. CASE Goes(t, "lock") /\ exit' = exit /\ held' = [held EXCEPT ![t] = Holds("lock")] /\ UNCHANGED <<permit, locked>>
    <3>1. Kept("lock", exit[t])
      BY <1>0, <1>d, <2>0, <2>1 DEF Holds, Connected, Permitted, Locked
    <3>2. /\ "lock" \in Waits /\ exit[t] \in {None} \union 0 .. 7 /\ exit[t] # 0
          /\ ("lock" \in Permitted => permit[t]) /\ ("lock" \in Locked => locked[t] \/ ~LockTaken(t))
          /\ ("lock" \in (Permitted \ {"rollback"}) \union {"open", "gate"} => Preflighted(doc[t]))
      BY <1>0, <2>0, <2>1, NoneAssumption DEF Waits, Permitted, Locked, Checked
    <3> QED
      BY <1>0, <1>a, <2>0, <2>1, <3>1, <3>2, EffectKeeps DEF Kept, c
  <2>2. CASE Drops(t) /\ Goes(t, "done") /\ exit' = [exit EXCEPT ![t] = 6]
    <3>1. Kept("done", 6)
      BY <1>0, <1>b, <2>0, <2>2 DEF Holds, Connected, Permitted, Locked
    <3> QED
      BY <1>f, <3>1
  <2> QED
    BY <2>s, <2>1, <2>2
<1>6. CASE Lock(t)
  <2>0. at[t] = "lock" /\ exit[t] # 0 /\ doc[t] \in Document
    BY <1>0, <1>6 DEF Lock, Checked
  <2>s. \/ ~LockTaken(t) /\ Goes(t, "check") /\ exit' = exit /\ locked' = [locked EXCEPT ![t] = TRUE] /\ UNCHANGED <<held, permit>>
        \/ Drops(t) /\ Goes(t, "done") /\ exit' = [exit EXCEPT ![t] = 5]
        \/ Drops(t) /\ Goes(t, "done") /\ exit' = [exit EXCEPT ![t] = 6]
    BY <1>0, <1>6, <2>0 DEF Lock, Goes, Exits, ImportFailure, Holds, Connected, Permitted, Locked
  <2>1. CASE ~LockTaken(t) /\ Goes(t, "check") /\ exit' = exit /\ locked' = [locked EXCEPT ![t] = TRUE] /\ UNCHANGED <<held, permit>>
    <3>1. Kept("check", exit[t])
      BY <1>0, <1>e, <2>0, <2>1 DEF Holds, Connected, Permitted, Locked
    <3>2. /\ "check" \in Waits /\ exit[t] \in {None} \union 0 .. 7 /\ exit[t] # 0
          /\ ("check" \in Permitted => permit[t]) /\ ("check" \in Locked => locked[t] \/ ~LockTaken(t))
          /\ ("check" \in (Permitted \ {"rollback"}) \union {"open", "gate"} => Preflighted(doc[t]))
      BY <1>0, <2>0, <2>1, NoneAssumption DEF Waits, Permitted, Locked, Checked
    <3> QED
      BY <1>0, <1>a, <2>0, <2>1, <3>1, <3>2, EffectKeeps DEF Kept, c
  <2>2. CASE Drops(t) /\ Goes(t, "done") /\ exit' = [exit EXCEPT ![t] = 5]
    <3>1. Kept("done", 5)
      BY <1>0, <1>b, <2>0, <2>2 DEF Holds, Connected, Permitted, Locked
    <3> QED
      BY <1>f, <3>1
  <2>3. CASE Drops(t) /\ Goes(t, "done") /\ exit' = [exit EXCEPT ![t] = 6]
    <3>1. Kept("done", 6)
      BY <1>0, <1>b, <2>0, <2>3 DEF Holds, Connected, Permitted, Locked
    <3> QED
      BY <1>f, <3>1
  <2> QED
    BY <2>s, <2>1, <2>2, <2>3
<1>7. CASE Check(t)
  <2>0. at[t] = "check" /\ exit[t] # 0 /\ doc[t] \in Document
    BY <1>0, <1>7 DEF Check, Checked
  <2>s. \/ Imported(doc[t]) /\ Drops(t) /\ Goes(t, "report") /\ exit' = exit
        \/ ~Imported(doc[t]) /\ Goes(t, "audit") /\ exit' = exit /\ UNCHANGED <<held, permit, locked>>
        \/ Drops(t) /\ Goes(t, "done") /\ exit' = [exit EXCEPT ![t] = 6]
    BY <1>0, <1>7, <2>0 DEF Check, Goes, Exits, ImportFailure, Holds, Connected, Permitted, Locked
  <2>1. CASE Imported(doc[t]) /\ Drops(t) /\ Goes(t, "report") /\ exit' = exit
    <3>1. Kept("report", exit[t])
      BY <1>0, <1>b, <2>0, <2>1 DEF Holds, Connected, Permitted, Locked
    <3>2. /\ "report" \in Waits /\ exit[t] \in {None} \union 0 .. 7 /\ exit[t] # 0
          /\ ("report" \in Permitted => permit[t]) /\ ("report" \in Locked => locked[t] \/ ~LockTaken(t))
          /\ ("report" \in (Permitted \ {"rollback"}) \union {"open", "gate"} => Preflighted(doc[t]))
      BY <1>0, <2>0, <2>1, NoneAssumption DEF Waits, Permitted, Locked, Checked
    <3> QED
      BY <1>0, <1>a, <2>0, <2>1, <3>1, <3>2, EffectKeeps DEF Kept, c
  <2>2. CASE ~Imported(doc[t]) /\ Goes(t, "audit") /\ exit' = exit /\ UNCHANGED <<held, permit, locked>>
    <3>1. Kept("audit", exit[t])
      BY <1>0, <1>c, <2>0, <2>2 DEF Holds, Connected, Permitted, Locked
    <3>2. /\ "audit" \in Waits /\ exit[t] \in {None} \union 0 .. 7 /\ exit[t] # 0
          /\ ("audit" \in Permitted => permit[t]) /\ ("audit" \in Locked => locked[t] \/ ~LockTaken(t))
          /\ ("audit" \in (Permitted \ {"rollback"}) \union {"open", "gate"} => Preflighted(doc[t]))
      BY <1>0, <2>0, <2>2, NoneAssumption DEF Waits, Permitted, Locked, Checked
    <3> QED
      BY <1>0, <1>a, <2>0, <2>2, <3>1, <3>2, EffectKeeps DEF Kept, c
  <2>3. CASE Drops(t) /\ Goes(t, "done") /\ exit' = [exit EXCEPT ![t] = 6]
    <3>1. Kept("done", 6)
      BY <1>0, <1>b, <2>0, <2>3 DEF Holds, Connected, Permitted, Locked
    <3> QED
      BY <1>f, <3>1
  <2> QED
    BY <2>s, <2>1, <2>2, <2>3
<1>8. CASE Audit(t)
  <2>0. at[t] = "audit" /\ exit[t] # 0 /\ doc[t] \in Document
    BY <1>0, <1>8 DEF Audit, Checked
  <2>s. \/ Goes(t, "auditing") /\ exit' = exit /\ held' = [held EXCEPT ![t] = Holds("auditing")] /\ UNCHANGED <<permit, locked>>
        \/ Drops(t) /\ Goes(t, "done") /\ exit' = [exit EXCEPT ![t] = 6]
    BY <1>0, <1>8, <2>0 DEF Audit, Goes, Exits, ImportFailure, Holds, Connected, Permitted, Locked
  <2>1. CASE Goes(t, "auditing") /\ exit' = exit /\ held' = [held EXCEPT ![t] = Holds("auditing")] /\ UNCHANGED <<permit, locked>>
    <3>1. Kept("auditing", exit[t])
      BY <1>0, <1>d, <2>0, <2>1 DEF Holds, Connected, Permitted, Locked
    <3>2. /\ "auditing" \in Waits /\ exit[t] \in {None} \union 0 .. 7 /\ exit[t] # 0
          /\ ("auditing" \in Permitted => permit[t]) /\ ("auditing" \in Locked => locked[t] \/ ~LockTaken(t))
          /\ ("auditing" \in (Permitted \ {"rollback"}) \union {"open", "gate"} => Preflighted(doc[t]))
      BY <1>0, <2>0, <2>1, NoneAssumption DEF Waits, Permitted, Locked, Checked
    <3>3. ~Imported(doc[t])
      BY <1>0, <2>0 DEF Checked
    <3> QED
      BY <1>0, <1>a, <2>0, <2>1, <3>1, <3>2, <3>3, EffectKeeps DEF Kept, c
  <2>2. CASE Drops(t) /\ Goes(t, "done") /\ exit' = [exit EXCEPT ![t] = 6]
    <3>1. Kept("done", 6)
      BY <1>0, <1>b, <2>0, <2>2 DEF Holds, Connected, Permitted, Locked
    <3> QED
      BY <1>f, <3>1
  <2> QED
    BY <2>s, <2>1, <2>2
<1>9. CASE Audited(t)
  <2>0. at[t] = "auditing" /\ exit[t] # 0 /\ doc[t] \in Document
    BY <1>0, <1>9 DEF Audited, Checked
  <2>s. \/ Goes(t, "consume") /\ exit' = exit /\ held' = [held EXCEPT ![t] = Holds("consume")] /\ UNCHANGED <<permit, locked>>
        \/ Drops(t) /\ Goes(t, "done") /\ exit' = [exit EXCEPT ![t] = 6]
    BY <1>0, <1>9, <2>0 DEF Audited, Goes, Exits, ImportFailure, Holds, Connected, Permitted, Locked
  <2>1. CASE Goes(t, "consume") /\ exit' = exit /\ held' = [held EXCEPT ![t] = Holds("consume")] /\ UNCHANGED <<permit, locked>>
    <3>1. Kept("consume", exit[t])
      BY <1>0, <1>d, <2>0, <2>1 DEF Holds, Connected, Permitted, Locked
    <3>2. /\ "consume" \in Waits /\ exit[t] \in {None} \union 0 .. 7 /\ exit[t] # 0
          /\ ("consume" \in Permitted => permit[t]) /\ ("consume" \in Locked => locked[t] \/ ~LockTaken(t))
          /\ ("consume" \in (Permitted \ {"rollback"}) \union {"open", "gate"} => Preflighted(doc[t]))
      BY <1>0, <2>0, <2>1, NoneAssumption DEF Waits, Permitted, Locked, Checked
    <3>3. ~Imported(doc[t])
      BY <1>0, <2>0 DEF Checked
    <3> QED
      BY <1>0, <1>a, <2>0, <2>1, <3>1, <3>2, <3>3, EffectKeeps DEF Kept, c
  <2>2. CASE Drops(t) /\ Goes(t, "done") /\ exit' = [exit EXCEPT ![t] = 6]
    <3>1. Kept("done", 6)
      BY <1>0, <1>b, <2>0, <2>2 DEF Holds, Connected, Permitted, Locked
    <3> QED
      BY <1>f, <3>1
  <2> QED
    BY <2>s, <2>1, <2>2
<1>10. CASE EndOfStream(t)
  <2>0. at[t] = "consume" /\ exit[t] # 0 /\ doc[t] \in Document
    BY <1>0, <1>10 DEF EndOfStream, Checked
  <2>s. \/ Goes(t, "rollback") /\ exit' = [exit EXCEPT ![t] = 7] /\ UNCHANGED <<held, permit, locked>>
        \/ Goes(t, "rollback") /\ exit' = [exit EXCEPT ![t] = 6] /\ UNCHANGED <<held, permit, locked>>
        \/ Consistent(t) /\ Goes(t, "commit") /\ exit' = exit /\ UNCHANGED <<held, permit, locked>>
    BY <1>0, <1>10, <2>0 DEF EndOfStream, Goes, Fails, ImportFailure, Holds, Connected, Permitted, Locked
  <2>1. CASE Goes(t, "rollback") /\ exit' = [exit EXCEPT ![t] = 7] /\ UNCHANGED <<held, permit, locked>>
    <3>1. Kept("rollback", 7)
      BY <1>0, <1>c, <2>0, <2>1 DEF Holds, Connected, Permitted, Locked
    <3>2. /\ "rollback" \in Waits /\ 7 \in {None} \union 0 .. 7 /\ 7 # 0
          /\ ("rollback" \in Permitted => permit[t]) /\ ("rollback" \in Locked => locked[t] \/ ~LockTaken(t))
          /\ ("rollback" \in (Permitted \ {"rollback"}) \union {"open", "gate"} => Preflighted(doc[t]))
      BY <1>0, <2>0, <2>1, NoneAssumption DEF Waits, Permitted, Locked, Checked
    <3> QED
      BY <1>0, <1>a, <2>0, <2>1, <3>1, <3>2, EffectKeeps DEF Kept, c
  <2>2. CASE Goes(t, "rollback") /\ exit' = [exit EXCEPT ![t] = 6] /\ UNCHANGED <<held, permit, locked>>
    <3>1. Kept("rollback", 6)
      BY <1>0, <1>c, <2>0, <2>2 DEF Holds, Connected, Permitted, Locked
    <3>2. /\ "rollback" \in Waits /\ 6 \in {None} \union 0 .. 7 /\ 6 # 0
          /\ ("rollback" \in Permitted => permit[t]) /\ ("rollback" \in Locked => locked[t] \/ ~LockTaken(t))
          /\ ("rollback" \in (Permitted \ {"rollback"}) \union {"open", "gate"} => Preflighted(doc[t]))
      BY <1>0, <2>0, <2>2, NoneAssumption DEF Waits, Permitted, Locked, Checked
    <3> QED
      BY <1>0, <1>a, <2>0, <2>2, <3>1, <3>2, EffectKeeps DEF Kept, c
  <2>3. CASE Consistent(t) /\ Goes(t, "commit") /\ exit' = exit /\ UNCHANGED <<held, permit, locked>>
    <3>1. Kept("commit", exit[t])
      BY <1>0, <1>c, <2>0, <2>3 DEF Holds, Connected, Permitted, Locked
    <3>2. /\ "commit" \in Waits /\ exit[t] \in {None} \union 0 .. 7 /\ exit[t] # 0
          /\ ("commit" \in Permitted => permit[t]) /\ ("commit" \in Locked => locked[t] \/ ~LockTaken(t))
          /\ ("commit" \in (Permitted \ {"rollback"}) \union {"open", "gate"} => Preflighted(doc[t]))
      BY <1>0, <2>0, <2>3, NoneAssumption DEF Waits, Permitted, Locked, Checked
    <3>3. ~Imported(doc[t])
      BY <1>0, <2>0 DEF Checked
    <3> QED
      BY <1>0, <1>a, <2>0, <2>3, <3>1, <3>2, <3>3, EffectKeeps DEF Kept, c
  <2> QED
    BY <2>s, <2>1, <2>2, <2>3
<1>11. CASE Report(t)
  <2>0. at[t] = "report" /\ exit[t] # 0 /\ doc[t] \in Document
    BY <1>0, <1>11 DEF Report, Checked
  <2>s. \/ Goes(t, "done") /\ exit' = [exit EXCEPT ![t] = 0] /\ UNCHANGED <<held, permit, locked>>
        \/ Goes(t, "done") /\ exit' = [exit EXCEPT ![t] = 3] /\ UNCHANGED <<held, permit, locked>>
        \/ Goes(t, "done") /\ exit' = [exit EXCEPT ![t] = 7] /\ UNCHANGED <<held, permit, locked>>
    BY <1>0, <1>11, <2>0 DEF Report, Goes, Exits, ReportFailure, Holds, Connected, Permitted, Locked
  <2>1. CASE Goes(t, "done") /\ exit' = [exit EXCEPT ![t] = 0] /\ UNCHANGED <<held, permit, locked>>
    <3>1. Kept("done", 0)
      BY <1>0, <1>c, <2>0, <2>1 DEF Holds, Connected, Permitted, Locked
    <3>2. Imported(doc[t])
      BY <1>0, <2>0 DEF Checked
    <3> QED
      BY <1>0, <1>a, <2>0, <2>1, <3>1, <3>2, EffectKeeps DEF Kept, c, Waits, Permitted, Locked
  <2>2. CASE Goes(t, "done") /\ exit' = [exit EXCEPT ![t] = 3] /\ UNCHANGED <<held, permit, locked>>
    <3>1. Kept("done", 3)
      BY <1>0, <1>c, <2>0, <2>2 DEF Holds, Connected, Permitted, Locked
    <3> QED
      BY <1>f, <3>1
  <2>3. CASE Goes(t, "done") /\ exit' = [exit EXCEPT ![t] = 7] /\ UNCHANGED <<held, permit, locked>>
    <3>1. Kept("done", 7)
      BY <1>0, <1>c, <2>0, <2>3 DEF Holds, Connected, Permitted, Locked
    <3> QED
      BY <1>f, <3>1
  <2> QED
    BY <2>s, <2>1, <2>2, <2>3
<1>12. CASE MarkFailed(t)
  <2>0. at[t] \in {"fail", "failing"} /\ exit[t] # 0 /\ doc[t] \in Document /\ UNCHANGED <<permit, locked, exit>>
    BY <1>0, <1>12 DEF MarkFailed, Checked
  <2>s. \/ Goes(t, "failing") /\ held' = [held EXCEPT ![t] = Holds("failing")]
        \/ Goes(t, "done") /\ held' = [held EXCEPT ![t] = Holds("done")]
    <3>1. Holds("failing") = 1 /\ Holds("done") = 0 /\ Holds("fail") = 0
      BY DEF Holds, Connected
    <3>2. at[t] = "fail" => held = [held EXCEPT ![t] = 0]
      BY <1>0, <3>1 DEF TypeOK
    <3> QED
      BY <1>12, <3>1, <3>2 DEF MarkFailed
  <2>1. CASE Goes(t, "failing") /\ held' = [held EXCEPT ![t] = Holds("failing")]
    <3>1. Kept("failing", exit[t])
      BY <1>d, <2>0, <2>1 DEF Permitted, Locked
    <3>2. "failing" \in Waits /\ "failing" \notin Permitted /\ "failing" \notin Locked
      BY DEF Waits, Permitted, Locked
    <3> QED
      BY <1>0, <1>a, <2>0, <3>1, <3>2, EffectKeeps DEF Kept, c
  <2>2. CASE Goes(t, "done") /\ held' = [held EXCEPT ![t] = Holds("done")]
    <3>1. Kept("done", exit[t])
      BY <1>d, <2>0, <2>2 DEF Permitted, Locked
    <3>2. "done" \in Waits /\ "done" \notin Permitted /\ "done" \notin Locked
      BY DEF Waits, Permitted, Locked
    <3> QED
      BY <1>0, <1>a, <2>0, <3>1, <3>2, EffectKeeps DEF Kept, c
  <2> QED
    BY <2>s, <2>1, <2>2
<1>13. CASE Gate(t)
  <2>0. /\ at[t] = "gate" /\ exit[t] # 0 /\ doc[t] \in Document /\ Preflighted(doc[t])
        /\ PermitsTaken < Permits /\ permit' = [permit EXCEPT ![t] = TRUE] /\ Goes(t, "begin")
        /\ UNCHANGED <<held, locked, exit>>
    BY <1>0, <1>13 DEF Gate, Checked
  <2>1. Kept("begin", exit[t])
    <3>1. /\ permit' \in [Task -> BOOLEAN] /\ locked' \in [Task -> BOOLEAN] /\ permit'[t]
          /\ \A u \in Task \ {t} : permit'[u] <=> permit[u]
      BY <1>0, <2>0 DEF TypeOK
    <3>2. "begin" \in Permitted /\ "begin" \notin Locked /\ Holds("begin") = 0 /\ Holds("gate") = 0
          /\ "gate" \notin Locked
      BY DEF Holds, Connected, Permitted, Locked
    <3>3. held' = [held EXCEPT ![t] = Holds("begin")]
      BY <1>0, <2>0, <3>2 DEF TypeOK
    <3>4. ~locked'[t]
      BY <1>0, <2>0, <3>2
    <3> QED
      BY <1>0, <1>a, <2>0, <3>1, <3>2, <3>3, <3>4 DEF Kept, Stays, Effect, Moves, Goes
  <2>2. PermitsTaken' <= Permits
    <3> DEFINE taken == {u \in Task : permit[u]}
               after == {u \in Task : permit'[u]}
    <3>1. after = taken \union {t}
      BY <1>0, <2>0 DEF TypeOK
    <3>2. IsFiniteSet(taken)
      BY FS_Subset
    <3> HIDE DEF taken, after
    <3>4. Cardinality(taken) \in Nat /\ Cardinality(taken \union {t}) \in Nat
      BY <3>2, FS_AddElement, FS_CardinalityType
    <3>3. Cardinality(taken \union {t}) <= Cardinality(taken) + 1
      <4>1. CASE t \in taken
        <5>1. taken \union {t} = taken
          BY <4>1
        <5> QED
          BY <3>4, <5>1
      <4>2. CASE t \notin taken
        <5>1. Cardinality(taken \union {t}) = Cardinality(taken) + 1
          BY <3>2, <4>2, FS_AddElement
        <5> QED
          BY <3>4, <5>1
      <4> QED
        BY <4>1, <4>2
    <3>5. Cardinality(taken) < Permits /\ PermitsTaken' = Cardinality(after)
      BY <2>0 DEF PermitsTaken, taken, after
    <3> QED
      BY <3>1, <3>3, <3>4, <3>5, PermitsBelowPool
  <2>3. "begin" \in Waits /\ "begin" \notin Locked
    BY DEF Waits, Locked
  <2> QED
    BY <1>0, <1>a, <2>0, <2>1, <2>2, <2>3, EffectKeeps DEF Kept, c
<1> QED
  BY <1>1, <1>2, <1>3, <1>4, <1>5, <1>6, <1>7, <1>8, <1>9, <1>10, <1>11, <1>12, <1>13

(* The capture of the input, which gives the command its document.        *)
LEMMA CaptureKeeps == ASSUME ImportInv, NEW t \in Task, Capture(t) PROVE ImportInv'
<1> DEFINE c == consumed[t]
<1>0. /\ TypeOK /\ Checked(t) /\ ThreadsOK /\ Clean(c) /\ at[t] = "idle" /\ exit[t] # 0
      /\ exit[t] \in {None} \union 0 .. 7
      /\ exit = [exit EXCEPT ![t] = exit[t]] /\ consumed = [consumed EXCEPT ![t] = c]
      /\ UNCHANGED <<consumed, held, permit, locked, stored, threadVars>>
  BY OneTask, Unchanged DEF Capture, Checked
<1>1. ThreadsOK'
  BY <1>0 DEF ThreadsOK, threadVars
<1>2. ASSUME NEW a \in {"preflight", "done"}, NEW x, Goes(t, a), exit' = [exit EXCEPT ![t] = x]
      PROVE  Moves(t, a, x, c)
  <2>1. /\ Holds(a) = Holds(at[t]) /\ (a \in Permitted <=> at[t] \in Permitted)
        /\ (a \in Locked <=> at[t] \in Locked) /\ consumed' = [consumed EXCEPT ![t] = c]
    BY <1>0 DEF Holds, Connected, Permitted, Locked
  <2> QED
    BY <1>0, <1>2, <2>1, Keeping
<1> HIDE DEF c
<1>3. ASSUME NEW x \in {2, 3}, Exits(t, x), doc' = doc
      PROVE  ImportInv'
  <2>1. Effect(t, "done", x, c)
    BY <1>0, <1>2, <1>3 DEF Exits, Effect
  <2>2. x # 0 /\ x \in {None} \union 0 .. 7 /\ "done" \in Waits
        /\ "done" \notin Permitted /\ "done" \notin Locked
    BY DEF Waits, Permitted, Locked
  <2> QED
    BY <1>0, <1>1, <2>1, <2>2, EffectKeeps
<1>4. ASSUME NEW d \in Document, doc' = [doc EXCEPT ![t] = d], Goes(t, "preflight"), exit' = exit
      PROVE  ImportInv'
  <2>0. ImportsAreChecked /\ ImportedOnce /\ StoredIsPreflighted
    BY DEF ImportInv
  <2>1. Moves(t, "preflight", exit[t], c)
    BY <1>0, <1>2, <1>4
  <2>2. /\ doc' \in [Task -> Document \union {None}] /\ \A u \in Task \ {t} : doc'[u] = doc[u]
        /\ stored' \subseteq [doc : Document, records : Seq(Item)]
        /\ doc'[t] = d /\ at'[t] = "preflight"
    BY <1>0, <1>4 DEF TypeOK, Goes
  <2>3. "preflight" \in Waits /\ "preflight" \notin Permitted /\ "preflight" \notin Locked
    BY DEF Waits, Permitted, Locked
  <2>4. TypeOK' /\ HoldingsFollow' /\ LockExclusive'
    BY <1>0, <1>1, <2>1, <2>2, <2>3, MoveKeeps
  <2>5. ImportsAreChecked'
    <3> SUFFICES ASSUME NEW u \in Task PROVE Checked(u)'
      BY DEF ImportsAreChecked
    <3>0. Checked(u) /\ (thread'[u] = "parsing" => second'[u] \in Document) /\ exit' = exit
          /\ consumed' = consumed /\ stored' = stored
      BY <1>0, <1>1, <1>4, <2>0 DEF ImportsAreChecked, ThreadsOK
    <3>1. CASE u = t
      BY <1>0, <2>2, <3>0, <3>1 DEF Checked, Permitted
    <3>2. CASE u # t
      <4>1. at'[u] = at[u] /\ doc'[u] = doc[u]
        BY <1>0, <1>4, <2>2, <3>2 DEF Goes, TypeOK
      <4> QED
        BY <3>0, <4>1 DEF Checked, Imported, Consistent
    <3> QED
      BY <3>1, <3>2
  <2>6. ImportedOnce'
    BY <1>0, <2>0 DEF ImportedOnce
  <2>7. StoredIsPreflighted'
    BY <1>0, <1>4, <2>0, <2>2 DEF StoredIsPreflighted, Imported
  <2> QED
    BY <2>4, <2>5, <2>6, <2>7 DEF ImportInv
<1> QED
  BY <1>3, <1>4 DEF Capture, Exits

(* Starting the second pass, whatever the file reads by then.              *)
LEMMA OpenKeeps == ASSUME ImportInv, NEW t \in Task, OpenRecords(t) PROVE ImportInv'
<1> DEFINE c == consumed[t]
<1>0. /\ TypeOK /\ Checked(t) /\ ThreadsOK /\ Clean(c) /\ at[t] = "open" /\ exit[t] # 0
      /\ exit[t] \in {None} \union 0 .. 7 /\ doc[t] \in Document /\ Preflighted(doc[t])
      /\ exit = [exit EXCEPT ![t] = exit[t]] /\ consumed = [consumed EXCEPT ![t] = c]
      /\ UNCHANGED <<doc, consumed, held, permit, locked, stored, channel, sent>>
  BY OneTask, Unchanged DEF OpenRecords, Checked
<1>2. ASSUME NEW a \in {"gate", "done"}, NEW x, Goes(t, a), exit' = [exit EXCEPT ![t] = x]
      PROVE  Effect(t, a, x, c)
  <2>1. /\ Holds(a) = Holds(at[t]) /\ (a \in Permitted <=> at[t] \in Permitted)
        /\ (a \in Locked <=> at[t] \in Locked) /\ consumed' = [consumed EXCEPT ![t] = c]
    BY <1>0 DEF Holds, Connected, Permitted, Locked
  <2> QED
    BY <1>0, <1>2, <2>1, Keeping DEF Effect
<1> HIDE DEF c
<1>3. ASSUME NEW x \in {3, 7}, Exits(t, x), UNCHANGED <<second, thread>>
      PROVE  ImportInv'
  <2>1. Effect(t, "done", x, c)
    BY <1>2, <1>3 DEF Exits
  <2>2. x # 0 /\ x \in {None} \union 0 .. 7 /\ "done" \in Waits
        /\ "done" \notin Permitted /\ "done" \notin Locked
    BY DEF Waits, Permitted, Locked
  <2>3. ThreadsOK'
    BY <1>0, <1>3 DEF ThreadsOK
  <2> QED
    BY <1>0, <2>1, <2>2, <2>3, EffectKeeps
<1>4. ASSUME NEW d \in Document, second' = [second EXCEPT ![t] = d],
             thread' = [thread EXCEPT ![t] = "parsing"], Goes(t, "gate"), exit' = exit
      PROVE  ImportInv'
  <2>1. Effect(t, "gate", exit[t], c)
    BY <1>0, <1>2, <1>4
  <2>2. "gate" \in Waits /\ "gate" \notin Permitted /\ "gate" \notin Locked
    BY DEF Waits, Permitted, Locked
  <2>3. ThreadsOK'
    BY <1>0, <1>4 DEF ThreadsOK
  <2> QED
    BY <1>0, <2>1, <2>2, <2>3, EffectKeeps
<1> QED
  BY <1>3, <1>4 DEF OpenRecords, Exits, SourceFailure

(* Consuming what the channel has, record or error.                        *)
LEMMA ConsumeKeeps == ASSUME ImportInv, NEW t \in Task, Consume(t) PROVE ImportInv'
<1> DEFINE r == Head(channel[t])
<1>0. /\ TypeOK /\ Checked(t) /\ ThreadsOK /\ Clean(consumed[t]) /\ at[t] = "consume" /\ exit[t] # 0
      /\ exit[t] \in {None} \union 0 .. 7 /\ doc[t] \in Document /\ Preflighted(doc[t])
      /\ ~Imported(doc[t]) /\ permit[t] /\ locked[t] /\ channel[t] # <<>>
      /\ channel' = [channel EXCEPT ![t] = Tail(@)]
      /\ exit = [exit EXCEPT ![t] = exit[t]] /\ consumed = [consumed EXCEPT ![t] = consumed[t]]
      /\ UNCHANGED <<doc, held, permit, locked, stored, second, thread, sent>>
  BY OneTask, Unchanged DEF Consume, Checked, Permitted, Locked
<1>1. channel[t] \in Seq(Item \union {None}) /\ Len(channel[t]) <= ChannelBound
  BY <1>0 DEF ThreadsOK
<1>2. /\ r \in Item \union {None} /\ Tail(channel[t]) \in Seq(Item \union {None})
      /\ Len(Tail(channel[t])) <= ChannelBound
  BY <1>0, <1>1
<1>3. ThreadsOK'
  BY <1>0, <1>2 DEF ThreadsOK
<1>4. ASSUME NEW a \in {"consume", "rollback"}, NEW x, NEW c, Goes(t, a),
             exit' = [exit EXCEPT ![t] = x], consumed' = [consumed EXCEPT ![t] = c]
      PROVE  Effect(t, a, x, c)
  <2>1. /\ Holds(a) = Holds(at[t]) /\ (a \in Permitted <=> at[t] \in Permitted)
        /\ (a \in Locked <=> at[t] \in Locked)
    BY <1>0 DEF Holds, Connected, Permitted, Locked
  <2> QED
    BY <1>0, <1>4, <2>1, Keeping DEF Effect
<1>5. ASSUME NEW x \in {4, 6}, Fails(t, x), consumed' = consumed
      PROVE  ImportInv'
  <2>1. Effect(t, "rollback", x, consumed[t])
    BY <1>0, <1>4, <1>5 DEF Fails
  <2>2. x # 0 /\ x \in {None} \union 0 .. 7 /\ "rollback" \in Waits
    BY DEF Waits
  <2> QED
    BY <1>0, <1>3, <2>1, <2>2, EffectKeeps
<1>6. ASSUME r \in Item, ~r.error, consumed' = [consumed EXCEPT ![t] = Append(@, r)], UNCHANGED <<at, exit>>
      PROVE  ImportInv'
  <2> DEFINE c == Append(consumed[t], r)
  <2>1. at' = [at EXCEPT ![t] = "consume"] /\ exit' = [exit EXCEPT ![t] = exit[t]]
        /\ consumed' = [consumed EXCEPT ![t] = c]
    BY <1>0, <1>6 DEF TypeOK
  <2>2. Effect(t, "consume", exit[t], c)
    BY <1>4, <2>1 DEF Goes
  <2>3. Clean(c)
    BY <1>0, <1>6 DEF Clean
  <2>4. "consume" \in Waits
    BY DEF Waits
  <2> HIDE DEF c
  <2> QED
    BY <1>0, <1>3, <2>2, <2>3, <2>4, EffectKeeps
<1> HIDE DEF r
<1>7. \/ Fails(t, 4) /\ consumed' = consumed
      \/ Fails(t, 6) /\ consumed' = consumed
      \/ r # None /\ ~r.error /\ consumed' = [consumed EXCEPT ![t] = Append(@, r)] /\ UNCHANGED <<at, exit>>
  BY DEF Consume, ImportFailure, r
<1> QED
  BY <1>2, <1>5, <1>6, <1>7

(* Rolling back, with which everything consumed is forgotten.              *)
LEMMA RollbackKeeps == ASSUME ImportInv, NEW t \in Task, Rollback(t) PROVE ImportInv'
<1>0. /\ TypeOK /\ Checked(t) /\ ThreadsOK /\ at[t] = "rollback" /\ exit[t] # 0
      /\ exit[t] \in {None} \union 0 .. 7 /\ doc[t] \in Document
      /\ exit' = [exit EXCEPT ![t] = exit[t]]
      /\ Drops(t) /\ consumed' = [consumed EXCEPT ![t] = <<>>] /\ Goes(t, "fail")
      /\ UNCHANGED <<doc, stored, threadVars>>
  BY OneTask, Unchanged DEF Rollback, Checked
<1>1. ThreadsOK'
  BY <1>0 DEF ThreadsOK, threadVars
<1>2. Effect(t, "fail", exit[t], <<>>)
  BY <1>0, Dropping DEF Effect
<1>3. "fail" \in Waits /\ "fail" \notin Permitted /\ "fail" \notin Locked /\ Clean(<<>>)
  BY DEF Waits, Permitted, Locked, Clean
<1> QED
  BY <1>0, <1>1, <1>2, <1>3, EffectKeeps

(* The commit: what is stored was compared with its preflight, and the     *)
(* lock kept everybody else from importing the document.                   *)
LEMMA CommitKeeps == ASSUME ImportInv, NEW t \in Task, Commit(t) PROVE ImportInv'
<1> DEFINE new == [doc |-> doc[t], records |-> consumed[t]]
<1>0. /\ TypeOK /\ Checked(t) /\ ThreadsOK /\ at[t] = "commit" /\ exit[t] # 0 /\ locked[t]
      /\ exit[t] \in {None} \union 0 .. 7 /\ doc[t] \in Document /\ Preflighted(doc[t])
      /\ ~Imported(doc[t]) /\ Consistent(t) /\ Clean(consumed[t])
      /\ exit = [exit EXCEPT ![t] = exit[t]]
      /\ Drops(t) /\ consumed' = [consumed EXCEPT ![t] = <<>>]
      /\ UNCHANGED <<doc, threadVars>>
  BY OneTask, Unchanged DEF Commit, Checked, Permitted, Locked
<1>1. /\ LockExclusive /\ HoldingsFollow /\ ImportsAreChecked /\ ImportedOnce /\ StoredIsPreflighted
  BY DEF ImportInv
<1>2. ThreadsOK'
  BY <1>0 DEF ThreadsOK, threadVars
<1>3. PICK a \in {"report", "fail"}, x \in {exit[t], 6} :
         /\ Goes(t, a) /\ exit' = [exit EXCEPT ![t] = x]
         /\ stored' \in {stored, stored \union {new}}
         /\ a = "report" => stored' = stored \union {new}
  BY <1>0 DEF Commit
<1>4. Moves(t, a, x, <<>>)
  <2>1. a \in {"done", "report", "fail"}
    OBVIOUS
  <2> QED
    BY <1>0, <1>3, <2>1, Dropping
<1>5. /\ new \in [doc : Document, records : Seq(Item)] /\ stored' \subseteq stored \union {new}
      /\ stored \subseteq stored' /\ (a = "report" => new \in stored')
  BY <1>0, <1>3 DEF Clean
<1>6. TypeOK' /\ HoldingsFollow' /\ LockExclusive'
  <2>1. a \in Waits /\ a \notin Permitted /\ a \notin Locked /\ Clean(<<>>)
    BY DEF Waits, Permitted, Locked, Clean
  <2>3. x \in {None} \union 0 .. 7
    BY <1>0
  <2>4. (a \in Permitted => permit[t]) /\ (a \in Locked => doc' = doc /\ (locked[t] \/ ~LockTaken(t)))
    BY <2>1
  <2>2. /\ doc' \in [Task -> Document \union {None}]
        /\ \A u \in Task \ {t} : doc'[u] = doc[u]
        /\ stored' \subseteq [doc : Document, records : Seq(Item)]
    BY <1>0, <1>5 DEF TypeOK
  <2> QED
    BY <1>2, <1>4, <2>1, <2>2, <2>3, <2>4, MoveKeeps
<1>7. /\ at'[t] = a /\ exit'[t] = x /\ x # 0 /\ consumed'[t] = <<>> /\ doc' = doc
      /\ \A u \in Task : u # t => at'[u] = at[u] /\ exit'[u] = exit[u] /\ consumed'[u] = consumed[u]
  BY <1>0, <1>3 DEF Goes, TypeOK
<1>8. \A d : Imported(d)' => Imported(d) \/ d = doc[t]
  BY <1>5 DEF Imported
<1>9. \A d : Imported(d) => Imported(d)'
  BY <1>5 DEF Imported
<1>10. ImportsAreChecked'
  <2> SUFFICES ASSUME NEW u \in Task PROVE Checked(u)'
    BY DEF ImportsAreChecked
  <2>0. Checked(u) /\ (thread'[u] = "parsing" => second'[u] \in Document)
    BY <1>1, <1>2 DEF ImportsAreChecked, ThreadsOK
  <2>1. CASE u = t
    <3>1. a = "report" => Imported(doc[t])'
      BY <1>5, <1>7 DEF Imported
    <3> QED
      BY <1>0, <1>3, <1>7, <2>0, <2>1, <3>1 DEF Checked, Imported, Permitted
  <2>2. CASE u # t
    <3>1. at[u] \in {"audit", "auditing", "consume", "commit"} => doc[u] # doc[t]
      <4>1. at[u] \in {"audit", "auditing", "consume", "commit"} => locked[u]
        BY <1>1 DEF HoldingsFollow, Locked
      <4> QED
        BY <1>0, <1>1, <2>2, <4>1 DEF LockExclusive
    <3>2. at[u] \in {"audit", "auditing", "consume", "commit"} => ~Imported(doc[u])'
      BY <1>7, <1>8, <2>0, <3>1 DEF Checked, Imported
    <3>3. at[u] = "report" => Imported(doc[u])'
      BY <1>7, <1>9, <2>0 DEF Checked, Imported
    <3> QED
      BY <1>7, <2>0, <2>2, <3>2, <3>3 DEF Checked, Consistent
  <2> QED
    BY <2>1, <2>2
<1>11. ImportedOnce'
  BY <1>0, <1>1, <1>5 DEF ImportedOnce, Imported
<1>12. StoredIsPreflighted'
  <2>1. Preflighted(new.doc) /\ Summary(new) = Summary(new.doc)
        /\ \A i \in DOMAIN new.records : ~new.records[i].error
    BY <1>0 DEF Clean, Consistent, Summary
  <2>2. \A s \in stored' : Preflighted(s.doc) /\ Summary(s) = Summary(s.doc)
                           /\ \A i \in DOMAIN s.records : ~s.records[i].error
    BY <1>1, <1>5, <2>1 DEF StoredIsPreflighted
  <2>3. ASSUME NEW u \in Task, exit'[u] = 0 PROVE Imported(doc[u])'
    BY <1>1, <1>5, <1>7, <2>3 DEF StoredIsPreflighted, Imported
  <2> QED
    BY <2>2, <2>3 DEF StoredIsPreflighted
<1> QED
  BY <1>1, <1>6, <1>10, <1>11, <1>12 DEF ImportInv

(* Every step of a parser thread keeps the invariant.                      *)
LEMMA ThreadKeeps ==
  ASSUME ImportInv, NEW t \in Task, ThreadStep(t) \/ Panics(t)
  PROVE  ImportInv'
<1>0. /\ TypeOK /\ HoldingsFollow /\ LockExclusive /\ ImportsAreChecked
      /\ ImportedOnce /\ StoredIsPreflighted
  BY DEF ImportInv
<1> USE DEF taskVars
<1>1. UNCHANGED taskVars
  BY DEF ThreadStep, Produce, Parsed, SendError, ConsumerClosed, Panics
<1>2. HoldingsFollow' /\ LockExclusive' /\ ImportedOnce' /\ StoredIsPreflighted'
  BY <1>0, <1>1 DEF HoldingsFollow, LockExclusive, ImportedOnce, StoredIsPreflighted,
                    PermitsTaken, Imported
<1>3. TypeOK'
  <2>1. CASE Produce(t)
    <3>1. second[t] \in Document /\ second[t].records \in Seq(Item)
      BY <1>0, <2>1, DocumentAssumption DEF Produce, ImportsAreChecked, Checked
    <3>2. second[t].records[sent[t] + 1] \in Item
      BY <1>0, <2>1, <3>1 DEF Produce, TypeOK
    <3> QED
      BY <1>0, <1>1, <2>1, <3>2 DEF Produce, TypeOK
  <2>2. CASE SendError(t)
    BY <1>0, <1>1, <2>2 DEF SendError, Ended, TypeOK
  <2>3. CASE Parsed(t) \/ ConsumerClosed(t) \/ Panics(t)
    <3>1. Ended(t) /\ channel' = channel
      BY <2>3 DEF Parsed, ConsumerClosed, Panics
    <3> QED
      BY <1>0, <1>1, <3>1 DEF Ended, TypeOK
  <2> QED
    BY <2>1, <2>2, <2>3 DEF ThreadStep
<1>4. \A u \in Task : thread'[u] = "parsing" => thread[u] = "parsing" /\ second'[u] = second[u]
  BY <1>0 DEF ThreadStep, Produce, Parsed, SendError, ConsumerClosed, Panics, Ended, TypeOK
<1>5. ImportsAreChecked'
  BY <1>0, <1>1, <1>4 DEF ImportsAreChecked, Checked, Imported, Consistent
<1> QED
  BY <1>2, <1>3, <1>5 DEF ImportInv

(* The invariant holds throughout.                                         *)
THEOREM ImportInvariant == Spec => []ImportInv
<1>1. ImportInv /\ [Next]_vars => ImportInv'
  <2> SUFFICES ASSUME ImportInv, [Next]_vars PROVE ImportInv'
    OBVIOUS
  <2>1. CASE UNCHANGED vars
    BY <2>1 DEF vars, ImportInv, TypeOK, HoldingsFollow, PermitsTaken, LockExclusive,
                ImportsAreChecked, Checked, Consistent, Imported, ImportedOnce, StoredIsPreflighted
  <2> QED
    BY <2>1, ThreadKeeps, AwaitKeeps, CaptureKeeps, OpenKeeps, ConsumeKeeps, RollbackKeeps, CommitKeeps
       DEF Next, TaskStep, Finished
<1> QED
  BY <1>1, ImportInit, PTL DEF Spec

-----------------------------------------------------------------------------
(* Whatever the second pass over the file reads, and however its thread    *)
(* ends, an import stores the records its preflight validated, and exit    *)
(* code 0 means that the document has been imported.                       *)
THEOREM ImportsArePreflighted == Spec => []StoredIsPreflighted
<1>1. ImportInv => StoredIsPreflighted
  BY DEF ImportInv
<1> QED
  BY <1>1, ImportInvariant, PTL

(* However many commands are given a document, it is imported once.        *)
THEOREM DocumentsImportedOnce == Spec => []ImportedOnce
<1>1. ImportInv => ImportedOnce
  BY DEF ImportInv
<1> QED
  BY <1>1, ImportInvariant, PTL

(* With half as many permits as connections, at any pool size, the imports *)
(* that wait for their second connection leave one of the pool to others.  *)
THEOREM PoolNeverDeadlocks == Spec => []NoPoolDeadlock
<1>1. ImportInv => NoPoolDeadlock
  <2> SUFFICES ASSUME ImportInv PROVE NoPoolDeadlock
    OBVIOUS
  <2> DEFINE taken == {t \in Task : permit[t]}
             waiting == {c \in Connections : at[c[1]] = "audit"}
  <2>1. waiting \subseteq taken \X {1}
    <3>1. SUFFICES ASSUME NEW c \in Task \X {1, 2}, c[2] <= held[c[1]], at[c[1]] = "audit"
                   PROVE  c \in taken \X {1}
      BY DEF Connections
    <3>2. c[1] \in Task /\ c[2] \in {1, 2} /\ c = <<c[1], c[2]>>
      OBVIOUS
    <3>3. held[c[1]] = 1 /\ permit[c[1]]
      BY <3>1, <3>2 DEF ImportInv, HoldingsFollow, Connected, Permitted
    <3> QED
      BY <3>1, <3>2, <3>3
  <2>2. IsFiniteSet(taken)
    BY FS_Subset
  <2>3. IsFiniteSet({1}) /\ Cardinality({1}) = 1
    BY FS_Singleton
  <2>4. IsFiniteSet(taken \X {1}) /\ Cardinality(taken \X {1}) = Cardinality(taken) * 1
    BY <2>2, <2>3, FS_Product
  <2>5. Cardinality(waiting) <= Cardinality(taken \X {1}) /\ Cardinality(waiting) \in Nat
    BY <2>1, <2>4, FS_Subset, FS_CardinalityType
  <2>6. Cardinality(taken) \in Nat /\ Cardinality(taken) <= Permits
    BY <2>2, FS_CardinalityType DEF ImportInv, HoldingsFollow, PermitsTaken
  <2>7. Cardinality(waiting) < PoolSize
    BY <2>4, <2>5, <2>6, PermitsBelowPool
  <2> QED
    BY <2>7 DEF NoPoolDeadlock
<1> QED
  BY <1>1, ImportInvariant, PTL

(* A command that ended, or that turns to the audit of its failure, holds  *)
(* nothing of the store.                                                   *)
THEOREM CommandsReturnResources == Spec => []ResourcesReturned
<1>1. ImportInv => ResourcesReturned
  BY DEF ImportInv, HoldingsFollow, ResourcesReturned, Connected, Permitted, Locked
<1> QED
  BY <1>1, ImportInvariant, PTL
=============================================================================
