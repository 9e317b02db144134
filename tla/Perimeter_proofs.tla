--------------------------- MODULE Perimeter_proofs ---------------------------
(***************************************************************************)
(* Proofs about Perimeter, for every number of requests, permits and       *)
(* chunks, and every set of inputs.                                        *)
(*                                                                         *)
(* PerimeterInv is inductive.  The counters are related to the stages of   *)
(* all requests, so each step of a request is proved to move at most that  *)
(* request in or out of the sets that are counted.                         *)
(***************************************************************************)
EXTENDS Perimeter, FiniteSetTheorems, TLAPS

USE LimitAssumption, RequestAssumption

(* One request moves: the sets that are counted gain or lose that request. *)
LEMMA StageCounts ==
  ASSUME TypeOK, NEW r \in Request, NEW s \in Stage, stage' = [stage EXCEPT ![r] = s]
  PROVE  /\ Cardinality(Carried) \in Nat /\ Cardinality(Counted) \in Nat
         /\ Cardinality(Counted)' <= Cardinality(Request)
         /\ stage[r] \in Inside => Cardinality(Carried) > 0
         /\ stage[r] \in Tracked => Cardinality(Counted) > 0
         /\ stage[r] \in Inside /\ s \in Inside => Cardinality(Carried)' = Cardinality(Carried)
         /\ stage[r] \notin Inside /\ s \notin Inside => Cardinality(Carried)' = Cardinality(Carried)
         /\ stage[r] \notin Inside /\ s \in Inside => Cardinality(Carried)' = Cardinality(Carried) + 1
         /\ stage[r] \in Inside /\ s \notin Inside => Cardinality(Carried)' = Cardinality(Carried) - 1
         /\ stage[r] \in Tracked /\ s \in Tracked => Cardinality(Counted)' = Cardinality(Counted)
         /\ stage[r] \notin Tracked /\ s \notin Tracked => Cardinality(Counted)' = Cardinality(Counted)
         /\ stage[r] \notin Tracked /\ s \in Tracked => Cardinality(Counted)' = Cardinality(Counted) + 1
         /\ stage[r] \in Tracked /\ s \notin Tracked => Cardinality(Counted)' = Cardinality(Counted) - 1
<1>1. /\ IsFiniteSet(Carried) /\ IsFiniteSet(Counted)
      /\ Cardinality(Carried) \in Nat /\ Cardinality(Counted) \in Nat
  <2>1. Carried \subseteq Request /\ Counted \subseteq Request
    BY DEF Carried, Counted
  <2> QED
    BY <2>1, FS_Subset, FS_CardinalityType
<1>2. /\ Carried' = IF s \in Inside THEN Carried \union {r} ELSE Carried \ {r}
      /\ Counted' = IF s \in Tracked THEN Counted \union {r} ELSE Counted \ {r}
  BY DEF Carried, Counted, TypeOK
<1>3. Cardinality(Counted') <= Cardinality(Request)
  <2>1. Counted' \subseteq Request
    BY DEF Counted
  <2> QED
    BY <2>1, FS_Subset
<1>4. /\ Cardinality(Carried \union {r}) =
            IF r \in Carried THEN Cardinality(Carried) ELSE Cardinality(Carried) + 1
      /\ Cardinality(Carried \ {r}) =
            IF r \in Carried THEN Cardinality(Carried) - 1 ELSE Cardinality(Carried)
      /\ Cardinality(Counted \union {r}) =
            IF r \in Counted THEN Cardinality(Counted) ELSE Cardinality(Counted) + 1
      /\ Cardinality(Counted \ {r}) =
            IF r \in Counted THEN Cardinality(Counted) - 1 ELSE Cardinality(Counted)
  BY <1>1, FS_AddElement, FS_RemoveElement
<1>5. (stage[r] \in Inside <=> r \in Carried) /\ (stage[r] \in Tracked <=> r \in Counted)
  BY DEF Carried, Counted
<1>6. /\ r \in Carried => Cardinality(Carried) > 0
      /\ r \in Counted => Cardinality(Counted) > 0
  BY <1>1, FS_EmptySet
<1> QED
  BY <1>1, <1>2, <1>3, <1>4, <1>5, <1>6

(* An idle server satisfies the invariant.                                 *)
LEMMA PerimeterInit == Init => PerimeterInv
<1> SUFFICES ASSUME Init PROVE PerimeterInv
  OBVIOUS
<1>1. Carried = {} /\ Counted = {}
  BY DEF Init, Carried, Counted, Inside, Tracked, Cancellable
<1>2. Cardinality({}) = 0 /\ Cardinality(Request) \in Nat
  BY FS_EmptySet, FS_CardinalityType
<1>3. main \in Boot /\ main = "settings"
  BY DEF Init, Boot, BootSteps
<1>4. TypeOK
  <2>1. permits \in 0 .. MaxConcurrent /\ inFlight \in 0 .. Cardinality(Request)
    BY <1>2 DEF Init
  <2>2. stage \in [Request -> Stage] /\ main \in Boot
    BY <1>3 DEF Init, Stage
  <2> QED
    BY <2>1, <2>2 DEF Init, TypeOK, Phase
<1>5. RequestsAreSound /\ ArrivalsAreStamped /\ ProcessIsOrdered
  BY <1>3 DEF Init, RequestsAreSound, ArrivalsAreStamped, ProcessIsOrdered, Cancellable
<1>6. ReadyIsCurrent /\ GracefulStop
  BY <1>3, NoneAssumption DEF Init, ReadyIsCurrent, GracefulStop, Answers
<1> QED
  BY <1>1, <1>2, <1>4, <1>5, <1>6 DEF PerimeterInv, Init

(* Every step of a request keeps the invariant.                            *)
LEMMA RequestStep ==
  ASSUME PerimeterInv, NEW r \in Request, Step(r)
  PROVE  PerimeterInv'
<1>0. /\ TypeOK /\ RequestsAreSound /\ ArrivalsAreStamped /\ ProcessIsOrdered
      /\ permits = MaxConcurrent - Cardinality(Carried) /\ inFlight = Cardinality(Counted)
      /\ ReadyIsCurrent /\ GracefulStop
  BY DEF PerimeterInv
<1> USE <1>0 DEF Stage, Inside, Tracked, Cancellable, Up
<1>00. main \in Up /\ main \notin Boot /\ main # "exited" /\ UNCHANGED <<phase, main, listening>>
  BY DEF Step, Boot, BootSteps, Arrive, Preflight, ShedWhenSaturated, Enter, RefuseOversizedBody, Route, Ready, Check, Handle, EnforceDeadline, Cancelled, Leave, Release, Written, Disconnect
<1>1. CASE Arrive(r)
  <2> USE <1>1 DEF Arrive, Moves
  <2>1. /\ stage' \in [Request -> Stage] /\ input' \in [Request -> Input \union {None}]
        /\ buffered' \in [Request -> Nat] /\ answer' \in [Request -> Answers \union {None}]
        /\ servedIn' \in [Request -> Phase \union {None}]
    BY InputAssumption DEF TypeOK, Answers
  <2>2. \E s \in Stage : stage' = [stage EXCEPT ![r] = s]
    BY DEF TypeOK
  <2>3. /\ permits' = MaxConcurrent - Cardinality(Carried)' /\ inFlight' = Cardinality(Counted)'
        /\ permits' \in 0 .. MaxConcurrent /\ inFlight' \in 0 .. Cardinality(Request)
    <3>1. PICK s \in Stage : stage' = [stage EXCEPT ![r] = s] /\ s = "arrived" /\ stage[r] = "idle"
      BY DEF TypeOK
    <3>2. /\ Cardinality(Carried) \in Nat /\ Cardinality(Counted) \in Nat
          /\ Cardinality(Carried)' = Cardinality(Carried)
          /\ Cardinality(Counted)' = Cardinality(Counted)
          /\ Cardinality(Counted)' <= Cardinality(Request)
          /\ stage[r] \in Inside => Cardinality(Carried) > 0
          /\ stage[r] \in Tracked => Cardinality(Counted) > 0
      BY <3>1, StageCounts
    <3> QED
      BY <3>1, <3>2, FS_CardinalityType DEF TypeOK
  <2>4. RequestsAreSound'
    BY NoneAssumption, InputAssumption DEF TypeOK, RequestsAreSound, Answers
  <2>5. ArrivalsAreStamped' /\ ReadyIsCurrent'
    <3>1. /\ \A q \in Request : q # r => servedIn'[q] = servedIn[q] /\ stage'[q] = stage[q]
          /\ servedIn'[r] = phase /\ stage'[r] = "arrived" /\ answer[r] = None /\ answer' = answer
      BY DEF TypeOK, RequestsAreSound
    <3>2. phase # None /\ None # "ready"
      BY NoneAssumption DEF TypeOK, Phase, Answers
    <3> QED
      BY <3>1, <3>2 DEF ArrivalsAreStamped, ReadyIsCurrent
  <2>6. TypeOK' /\ ProcessIsOrdered' /\ GracefulStop'
    BY <1>00, <2>1, <2>3 DEF TypeOK, ProcessIsOrdered, GracefulStop
  <2> QED
    BY <2>3, <2>4, <2>5, <2>6 DEF PerimeterInv
<1>2. CASE Preflight(r)
  <2> USE <1>2 DEF Preflight, Moves, Says, DeclaresMoreThan
  <2>1. /\ stage' \in [Request -> Stage] /\ input' \in [Request -> Input \union {None}]
        /\ buffered' \in [Request -> Nat] /\ answer' \in [Request -> Answers \union {None}]
        /\ servedIn' \in [Request -> Phase \union {None}]
    BY InputAssumption DEF TypeOK, Answers
  <2>2. \E s \in Stage : stage' = [stage EXCEPT ![r] = s]
    BY DEF TypeOK
  <2>3. /\ permits' = MaxConcurrent - Cardinality(Carried)' /\ inFlight' = Cardinality(Counted)'
        /\ permits' \in 0 .. MaxConcurrent /\ inFlight' \in 0 .. Cardinality(Request)
    BY StageCounts, FS_CardinalityType DEF TypeOK
  <2>4. RequestsAreSound'
    BY NoneAssumption, InputAssumption DEF TypeOK, RequestsAreSound, Answers
  <2>5. ArrivalsAreStamped' /\ ReadyIsCurrent'
    BY NoneAssumption DEF TypeOK, ArrivalsAreStamped, ReadyIsCurrent, Phase, Answers, Rank
  <2>6. TypeOK' /\ ProcessIsOrdered' /\ GracefulStop'
    BY <1>00, <2>1, <2>3 DEF TypeOK, ProcessIsOrdered, GracefulStop
  <2> QED
    BY <2>3, <2>4, <2>5, <2>6 DEF PerimeterInv
<1>3. CASE ShedWhenSaturated(r)
  <2> USE <1>3 DEF ShedWhenSaturated, Moves, Says
  <2>1. /\ stage' \in [Request -> Stage] /\ input' \in [Request -> Input \union {None}]
        /\ buffered' \in [Request -> Nat] /\ answer' \in [Request -> Answers \union {None}]
        /\ servedIn' \in [Request -> Phase \union {None}]
    BY InputAssumption DEF TypeOK, Answers
  <2>2. \E s \in Stage : stage' = [stage EXCEPT ![r] = s]
    BY DEF TypeOK
  <2>3. /\ permits' = MaxConcurrent - Cardinality(Carried)' /\ inFlight' = Cardinality(Counted)'
        /\ permits' \in 0 .. MaxConcurrent /\ inFlight' \in 0 .. Cardinality(Request)
    BY StageCounts, FS_CardinalityType DEF TypeOK
  <2>4. RequestsAreSound'
    BY NoneAssumption, InputAssumption DEF TypeOK, RequestsAreSound, Answers
  <2>5. ArrivalsAreStamped' /\ ReadyIsCurrent'
    BY NoneAssumption DEF TypeOK, ArrivalsAreStamped, ReadyIsCurrent, Phase, Answers, Rank
  <2>6. TypeOK' /\ ProcessIsOrdered' /\ GracefulStop'
    BY <1>00, <2>1, <2>3 DEF TypeOK, ProcessIsOrdered, GracefulStop
  <2> QED
    BY <2>3, <2>4, <2>5, <2>6 DEF PerimeterInv
<1>4. CASE Enter(r)
  <2> USE <1>4 DEF Enter, Moves
  <2>1. /\ stage' \in [Request -> Stage] /\ input' \in [Request -> Input \union {None}]
        /\ buffered' \in [Request -> Nat] /\ answer' \in [Request -> Answers \union {None}]
        /\ servedIn' \in [Request -> Phase \union {None}]
    BY InputAssumption DEF TypeOK, Answers
  <2>2. \E s \in Stage : stage' = [stage EXCEPT ![r] = s]
    BY DEF TypeOK
  <2>3. /\ permits' = MaxConcurrent - Cardinality(Carried)' /\ inFlight' = Cardinality(Counted)'
        /\ permits' \in 0 .. MaxConcurrent /\ inFlight' \in 0 .. Cardinality(Request)
    <3>1. PICK s \in Stage : stage' = [stage EXCEPT ![r] = s] /\ s = "body" /\ stage[r] = "admitted"
      BY DEF TypeOK
    <3>2. /\ Cardinality(Carried) \in Nat /\ Cardinality(Counted) \in Nat
          /\ Cardinality(Carried)' = Cardinality(Carried)
          /\ Cardinality(Counted)' = Cardinality(Counted) + 1
          /\ Cardinality(Counted)' <= Cardinality(Request)
          /\ stage[r] \in Inside => Cardinality(Carried) > 0
          /\ stage[r] \in Tracked => Cardinality(Counted) > 0
      BY <3>1, StageCounts
    <3> QED
      BY <3>1, <3>2, FS_CardinalityType DEF TypeOK
  <2>4. RequestsAreSound'
    BY NoneAssumption, InputAssumption DEF TypeOK, RequestsAreSound, Answers
  <2>5. ArrivalsAreStamped' /\ ReadyIsCurrent'
    BY NoneAssumption DEF TypeOK, ArrivalsAreStamped, ReadyIsCurrent, Phase, Answers, Rank
  <2>6. TypeOK' /\ ProcessIsOrdered' /\ GracefulStop'
    BY <1>00, <2>1, <2>3 DEF TypeOK, ProcessIsOrdered, GracefulStop
  <2> QED
    BY <2>3, <2>4, <2>5, <2>6 DEF PerimeterInv
<1>5. CASE RefuseOversizedBody(r)
  <2> USE <1>5 DEF RefuseOversizedBody, Moves, Says, Returns, DeclaresMoreThan
  <2>1. /\ stage' \in [Request -> Stage] /\ input' \in [Request -> Input \union {None}]
        /\ buffered' \in [Request -> Nat] /\ answer' \in [Request -> Answers \union {None}]
        /\ servedIn' \in [Request -> Phase \union {None}]
    BY InputAssumption DEF TypeOK, Answers
  <2>2. \E s \in Stage : stage' = [stage EXCEPT ![r] = s]
    BY DEF TypeOK
  <2>3. /\ permits' = MaxConcurrent - Cardinality(Carried)' /\ inFlight' = Cardinality(Counted)'
        /\ permits' \in 0 .. MaxConcurrent /\ inFlight' \in 0 .. Cardinality(Request)
    BY StageCounts, FS_CardinalityType DEF TypeOK
  <2>4. RequestsAreSound'
    BY NoneAssumption, InputAssumption DEF TypeOK, RequestsAreSound, Answers
  <2>5. ArrivalsAreStamped' /\ ReadyIsCurrent'
    BY NoneAssumption DEF TypeOK, ArrivalsAreStamped, ReadyIsCurrent, Phase, Answers, Rank
  <2>6. TypeOK' /\ ProcessIsOrdered' /\ GracefulStop'
    BY <1>00, <2>1, <2>3 DEF TypeOK, ProcessIsOrdered, GracefulStop
  <2> QED
    BY <2>3, <2>4, <2>5, <2>6 DEF PerimeterInv
<1>6. CASE Route(r)
  <2> USE <1>6 DEF Route, Moves, Says, Returns
  <2>1. /\ stage' \in [Request -> Stage] /\ input' \in [Request -> Input \union {None}]
        /\ buffered' \in [Request -> Nat] /\ answer' \in [Request -> Answers \union {None}]
        /\ servedIn' \in [Request -> Phase \union {None}]
    BY InputAssumption DEF TypeOK, Answers
  <2>2. \E s \in Stage : stage' = [stage EXCEPT ![r] = s]
    BY DEF TypeOK
  <2>3. /\ permits' = MaxConcurrent - Cardinality(Carried)' /\ inFlight' = Cardinality(Counted)'
        /\ permits' \in 0 .. MaxConcurrent /\ inFlight' \in 0 .. Cardinality(Request)
    BY StageCounts, FS_CardinalityType DEF TypeOK
  <2>4. RequestsAreSound'
    BY NoneAssumption, InputAssumption DEF TypeOK, RequestsAreSound, Answers
  <2>5. ArrivalsAreStamped' /\ ReadyIsCurrent'
    BY NoneAssumption DEF TypeOK, ArrivalsAreStamped, ReadyIsCurrent, Phase, Answers, Rank
  <2>6. TypeOK' /\ ProcessIsOrdered' /\ GracefulStop'
    BY <1>00, <2>1, <2>3 DEF TypeOK, ProcessIsOrdered, GracefulStop
  <2> QED
    BY <2>3, <2>4, <2>5, <2>6 DEF PerimeterInv
<1>7. CASE Ready(r)
  <2> USE <1>7 DEF Ready, Moves, Says, Returns, IsDraining
  <2>1. /\ stage' \in [Request -> Stage] /\ input' \in [Request -> Input \union {None}]
        /\ buffered' \in [Request -> Nat] /\ answer' \in [Request -> Answers \union {None}]
        /\ servedIn' \in [Request -> Phase \union {None}]
    BY InputAssumption DEF TypeOK, Answers
  <2>2. \E s \in Stage : stage' = [stage EXCEPT ![r] = s]
    BY DEF TypeOK
  <2>3. /\ permits' = MaxConcurrent - Cardinality(Carried)' /\ inFlight' = Cardinality(Counted)'
        /\ permits' \in 0 .. MaxConcurrent /\ inFlight' \in 0 .. Cardinality(Request)
    BY StageCounts, FS_CardinalityType DEF TypeOK
  <2>4. RequestsAreSound'
    BY NoneAssumption, InputAssumption DEF TypeOK, RequestsAreSound, Answers
  <2>5. ArrivalsAreStamped' /\ ReadyIsCurrent'
    BY NoneAssumption DEF TypeOK, ArrivalsAreStamped, ReadyIsCurrent, Phase, Answers, Rank
  <2>6. TypeOK' /\ ProcessIsOrdered' /\ GracefulStop'
    BY <1>00, <2>1, <2>3 DEF TypeOK, ProcessIsOrdered, GracefulStop
  <2> QED
    BY <2>3, <2>4, <2>5, <2>6 DEF PerimeterInv
<1>8. CASE Check(r)
  <2> USE <1>8 DEF Check, Says, Returns, Moves
  <2>1. /\ stage' \in [Request -> Stage] /\ input' \in [Request -> Input \union {None}]
        /\ buffered' \in [Request -> Nat] /\ answer' \in [Request -> Answers \union {None}]
        /\ servedIn' \in [Request -> Phase \union {None}]
    BY InputAssumption DEF TypeOK, Answers
  <2>2. \E s \in Stage : stage' = [stage EXCEPT ![r] = s]
    BY DEF TypeOK
  <2>3. /\ permits' = MaxConcurrent - Cardinality(Carried)' /\ inFlight' = Cardinality(Counted)'
        /\ permits' \in 0 .. MaxConcurrent /\ inFlight' \in 0 .. Cardinality(Request)
    BY StageCounts, FS_CardinalityType DEF TypeOK
  <2>4. RequestsAreSound'
    BY NoneAssumption, InputAssumption DEF TypeOK, RequestsAreSound, Answers
  <2>5. ArrivalsAreStamped' /\ ReadyIsCurrent'
    BY NoneAssumption DEF TypeOK, ArrivalsAreStamped, ReadyIsCurrent, Phase, Answers, Rank
  <2>6. TypeOK' /\ ProcessIsOrdered' /\ GracefulStop'
    BY <1>00, <2>1, <2>3 DEF TypeOK, ProcessIsOrdered, GracefulStop
  <2> QED
    BY <2>3, <2>4, <2>5, <2>6 DEF PerimeterInv
<1>9. CASE Handle(r)
  <2> USE <1>9 DEF Handle, Says, Returns, Moves
  <2>1. /\ stage' \in [Request -> Stage] /\ input' \in [Request -> Input \union {None}]
        /\ buffered' \in [Request -> Nat] /\ answer' \in [Request -> Answers \union {None}]
        /\ servedIn' \in [Request -> Phase \union {None}]
    BY InputAssumption DEF TypeOK, Answers
  <2>2. \E s \in Stage : stage' = [stage EXCEPT ![r] = s]
    BY DEF TypeOK
  <2>3. /\ permits' = MaxConcurrent - Cardinality(Carried)' /\ inFlight' = Cardinality(Counted)'
        /\ permits' \in 0 .. MaxConcurrent /\ inFlight' \in 0 .. Cardinality(Request)
    BY StageCounts, FS_CardinalityType DEF TypeOK
  <2>4. RequestsAreSound'
    BY NoneAssumption, InputAssumption DEF TypeOK, RequestsAreSound, Answers
  <2>5. ArrivalsAreStamped' /\ ReadyIsCurrent'
    BY NoneAssumption DEF TypeOK, ArrivalsAreStamped, ReadyIsCurrent, Phase, Answers, Rank
  <2>6. TypeOK' /\ ProcessIsOrdered' /\ GracefulStop'
    BY <1>00, <2>1, <2>3 DEF TypeOK, ProcessIsOrdered, GracefulStop
  <2> QED
    BY <2>3, <2>4, <2>5, <2>6 DEF PerimeterInv
<1>10. CASE EnforceDeadline(r)
  <2> USE <1>10 DEF EnforceDeadline, Says, Returns, Moves
  <2>1. /\ stage' \in [Request -> Stage] /\ input' \in [Request -> Input \union {None}]
        /\ buffered' \in [Request -> Nat] /\ answer' \in [Request -> Answers \union {None}]
        /\ servedIn' \in [Request -> Phase \union {None}]
    BY InputAssumption DEF TypeOK, Answers
  <2>2. \E s \in Stage : stage' = [stage EXCEPT ![r] = s]
    BY DEF TypeOK
  <2>3. /\ permits' = MaxConcurrent - Cardinality(Carried)' /\ inFlight' = Cardinality(Counted)'
        /\ permits' \in 0 .. MaxConcurrent /\ inFlight' \in 0 .. Cardinality(Request)
    BY StageCounts, FS_CardinalityType DEF TypeOK
  <2>4. RequestsAreSound'
    BY NoneAssumption, InputAssumption DEF TypeOK, RequestsAreSound, Answers
  <2>5. ArrivalsAreStamped' /\ ReadyIsCurrent'
    BY NoneAssumption DEF TypeOK, ArrivalsAreStamped, ReadyIsCurrent, Phase, Answers, Rank
  <2>6. TypeOK' /\ ProcessIsOrdered' /\ GracefulStop'
    BY <1>00, <2>1, <2>3 DEF TypeOK, ProcessIsOrdered, GracefulStop
  <2> QED
    BY <2>3, <2>4, <2>5, <2>6 DEF PerimeterInv
<1>11. CASE Cancelled(r)
  <2> USE <1>11 DEF Cancelled, Says, Returns, Moves
  <2>1. /\ stage' \in [Request -> Stage] /\ input' \in [Request -> Input \union {None}]
        /\ buffered' \in [Request -> Nat] /\ answer' \in [Request -> Answers \union {None}]
        /\ servedIn' \in [Request -> Phase \union {None}]
    BY InputAssumption DEF TypeOK, Answers
  <2>2. \E s \in Stage : stage' = [stage EXCEPT ![r] = s]
    BY DEF TypeOK
  <2>3. /\ permits' = MaxConcurrent - Cardinality(Carried)' /\ inFlight' = Cardinality(Counted)'
        /\ permits' \in 0 .. MaxConcurrent /\ inFlight' \in 0 .. Cardinality(Request)
    BY StageCounts, FS_CardinalityType DEF TypeOK
  <2>4. RequestsAreSound'
    BY NoneAssumption, InputAssumption DEF TypeOK, RequestsAreSound, Answers
  <2>5. ArrivalsAreStamped' /\ ReadyIsCurrent'
    BY NoneAssumption DEF TypeOK, ArrivalsAreStamped, ReadyIsCurrent, Phase, Answers, Rank
  <2>6. TypeOK' /\ ProcessIsOrdered' /\ GracefulStop'
    BY <1>00, <2>1, <2>3 DEF TypeOK, ProcessIsOrdered, GracefulStop
  <2> QED
    BY <2>3, <2>4, <2>5, <2>6 DEF PerimeterInv
<1>12. CASE Leave(r)
  <2> USE <1>12 DEF Leave, Moves
  <2>1. /\ stage' \in [Request -> Stage] /\ input' \in [Request -> Input \union {None}]
        /\ buffered' \in [Request -> Nat] /\ answer' \in [Request -> Answers \union {None}]
        /\ servedIn' \in [Request -> Phase \union {None}]
    BY InputAssumption DEF TypeOK, Answers
  <2>2. \E s \in Stage : stage' = [stage EXCEPT ![r] = s]
    BY DEF TypeOK
  <2>3. /\ permits' = MaxConcurrent - Cardinality(Carried)' /\ inFlight' = Cardinality(Counted)'
        /\ permits' \in 0 .. MaxConcurrent /\ inFlight' \in 0 .. Cardinality(Request)
    <3>1. PICK s \in Stage : stage' = [stage EXCEPT ![r] = s] /\ s = "release" /\ stage[r] = "unwind"
      BY DEF TypeOK
    <3>2. /\ Cardinality(Carried) \in Nat /\ Cardinality(Counted) \in Nat
          /\ Cardinality(Carried)' = Cardinality(Carried)
          /\ Cardinality(Counted)' = Cardinality(Counted) - 1
          /\ Cardinality(Counted)' <= Cardinality(Request)
          /\ stage[r] \in Inside => Cardinality(Carried) > 0
          /\ stage[r] \in Tracked => Cardinality(Counted) > 0
      BY <3>1, StageCounts
    <3> QED
      BY <3>1, <3>2, FS_CardinalityType DEF TypeOK
  <2>4. RequestsAreSound'
    BY NoneAssumption, InputAssumption DEF TypeOK, RequestsAreSound, Answers
  <2>5. ArrivalsAreStamped' /\ ReadyIsCurrent'
    BY NoneAssumption DEF TypeOK, ArrivalsAreStamped, ReadyIsCurrent, Phase, Answers, Rank
  <2>6. TypeOK' /\ ProcessIsOrdered' /\ GracefulStop'
    BY <1>00, <2>1, <2>3 DEF TypeOK, ProcessIsOrdered, GracefulStop
  <2> QED
    BY <2>3, <2>4, <2>5, <2>6 DEF PerimeterInv
<1>13. CASE Release(r)
  <2> USE <1>13 DEF Release, Moves
  <2>1. /\ stage' \in [Request -> Stage] /\ input' \in [Request -> Input \union {None}]
        /\ buffered' \in [Request -> Nat] /\ answer' \in [Request -> Answers \union {None}]
        /\ servedIn' \in [Request -> Phase \union {None}]
    BY InputAssumption DEF TypeOK, Answers
  <2>2. \E s \in Stage : stage' = [stage EXCEPT ![r] = s]
    BY DEF TypeOK
  <2>3. /\ permits' = MaxConcurrent - Cardinality(Carried)' /\ inFlight' = Cardinality(Counted)'
        /\ permits' \in 0 .. MaxConcurrent /\ inFlight' \in 0 .. Cardinality(Request)
    <3>1. PICK s \in Stage : stage' = [stage EXCEPT ![r] = s] /\ s \in {"done", "writing"} /\ stage[r] = "release"
      BY DEF TypeOK
    <3>2. /\ Cardinality(Carried) \in Nat /\ Cardinality(Counted) \in Nat
          /\ Cardinality(Carried)' = Cardinality(Carried) - 1
          /\ Cardinality(Counted)' = Cardinality(Counted)
          /\ Cardinality(Counted)' <= Cardinality(Request)
          /\ stage[r] \in Inside => Cardinality(Carried) > 0
          /\ stage[r] \in Tracked => Cardinality(Counted) > 0
      BY <3>1, StageCounts
    <3> QED
      BY <3>1, <3>2, FS_CardinalityType DEF TypeOK
  <2>4. RequestsAreSound'
    BY NoneAssumption, InputAssumption DEF TypeOK, RequestsAreSound, Answers
  <2>5. ArrivalsAreStamped' /\ ReadyIsCurrent'
    BY NoneAssumption DEF TypeOK, ArrivalsAreStamped, ReadyIsCurrent, Phase, Answers, Rank
  <2>6. TypeOK' /\ ProcessIsOrdered' /\ GracefulStop'
    BY <1>00, <2>1, <2>3 DEF TypeOK, ProcessIsOrdered, GracefulStop
  <2> QED
    BY <2>3, <2>4, <2>5, <2>6 DEF PerimeterInv
<1>14. CASE Written(r)
  <2> USE <1>14 DEF Written, Moves
  <2>1. /\ stage' \in [Request -> Stage] /\ input' \in [Request -> Input \union {None}]
        /\ buffered' \in [Request -> Nat] /\ answer' \in [Request -> Answers \union {None}]
        /\ servedIn' \in [Request -> Phase \union {None}]
    BY InputAssumption DEF TypeOK, Answers
  <2>2. \E s \in Stage : stage' = [stage EXCEPT ![r] = s]
    BY DEF TypeOK
  <2>3. /\ permits' = MaxConcurrent - Cardinality(Carried)' /\ inFlight' = Cardinality(Counted)'
        /\ permits' \in 0 .. MaxConcurrent /\ inFlight' \in 0 .. Cardinality(Request)
    <3>1. PICK s \in Stage : stage' = [stage EXCEPT ![r] = s] /\ s = "done" /\ stage[r] = "writing"
      BY DEF TypeOK
    <3>2. /\ Cardinality(Carried) \in Nat /\ Cardinality(Counted) \in Nat
          /\ Cardinality(Carried)' = Cardinality(Carried)
          /\ Cardinality(Counted)' = Cardinality(Counted)
          /\ Cardinality(Counted)' <= Cardinality(Request)
          /\ stage[r] \in Inside => Cardinality(Carried) > 0
          /\ stage[r] \in Tracked => Cardinality(Counted) > 0
      BY <3>1, StageCounts
    <3> QED
      BY <3>1, <3>2, FS_CardinalityType DEF TypeOK
  <2>4. RequestsAreSound'
    BY NoneAssumption, InputAssumption DEF TypeOK, RequestsAreSound, Answers
  <2>5. ArrivalsAreStamped' /\ ReadyIsCurrent'
    BY NoneAssumption DEF TypeOK, ArrivalsAreStamped, ReadyIsCurrent, Phase, Answers, Rank
  <2>6. TypeOK' /\ ProcessIsOrdered' /\ GracefulStop'
    BY <1>00, <2>1, <2>3 DEF TypeOK, ProcessIsOrdered, GracefulStop
  <2> QED
    BY <2>3, <2>4, <2>5, <2>6 DEF PerimeterInv
<1>15. CASE Disconnect(r)
  <2> USE <1>15 DEF Disconnect, Says, Moves
  <2>1. /\ stage' \in [Request -> Stage] /\ input' \in [Request -> Input \union {None}]
        /\ buffered' \in [Request -> Nat] /\ answer' \in [Request -> Answers \union {None}]
        /\ servedIn' \in [Request -> Phase \union {None}]
    BY InputAssumption DEF TypeOK, Answers
  <2>2. \E s \in Stage : stage' = [stage EXCEPT ![r] = s]
    BY DEF TypeOK
  <2>3. /\ permits' = MaxConcurrent - Cardinality(Carried)' /\ inFlight' = Cardinality(Counted)'
        /\ permits' \in 0 .. MaxConcurrent /\ inFlight' \in 0 .. Cardinality(Request)
    <3>1. PICK s \in Stage : /\ stage' = [stage EXCEPT ![r] = s]
                             /\ s \in Inside <=> stage[r] \in Inside
                             /\ s \in Tracked <=> stage[r] \in Tracked
      <4>1. CASE stage[r] \in Cancellable
        <5>1. stage' = [stage EXCEPT ![r] = "unwind"]
          BY <4>1
        <5> QED
          BY <4>1, <5>1
      <4>2. CASE stage[r] = "admitted"
        <5>1. stage' = [stage EXCEPT ![r] = "release"]
          BY <4>2
        <5> QED
          BY <4>2, <5>1
      <4>3. CASE stage[r] \in {"arrived", "admission"}
        <5>1. stage' = [stage EXCEPT ![r] = "done"]
          BY <4>3
        <5>2. "done" \in Stage /\ "done" \notin Inside /\ "done" \notin Tracked
          OBVIOUS
        <5>3. stage[r] \notin Inside /\ stage[r] \notin Tracked
          BY <4>3
        <5> HIDE DEF Stage, Inside, Tracked
        <5> QED
          BY <5>1, <5>2, <5>3
      <4> QED
        BY <4>1, <4>2, <4>3
    <3>2. /\ Cardinality(Carried) \in Nat /\ Cardinality(Counted) \in Nat
          /\ Cardinality(Carried)' = Cardinality(Carried)
          /\ Cardinality(Counted)' = Cardinality(Counted)
          /\ Cardinality(Counted)' <= Cardinality(Request)
          /\ stage[r] \in Inside => Cardinality(Carried) > 0
          /\ stage[r] \in Tracked => Cardinality(Counted) > 0
      BY <3>1, StageCounts
    <3> QED
      BY <3>1, <3>2, FS_CardinalityType DEF TypeOK
  <2>4. RequestsAreSound'
    BY NoneAssumption, InputAssumption DEF TypeOK, RequestsAreSound, Answers
  <2>5. ArrivalsAreStamped' /\ ReadyIsCurrent'
    BY NoneAssumption DEF TypeOK, ArrivalsAreStamped, ReadyIsCurrent, Phase, Answers, Rank
  <2>6. TypeOK' /\ ProcessIsOrdered' /\ GracefulStop'
    BY <1>00, <2>1, <2>3 DEF TypeOK, ProcessIsOrdered, GracefulStop
  <2> QED
    BY <2>3, <2>4, <2>5, <2>6 DEF PerimeterInv
<1> QED
  BY <1>1, <1>2, <1>3, <1>4, <1>5, <1>6, <1>7, <1>8, <1>9, <1>10, <1>11, <1>12, <1>13, <1>14, <1>15 DEF Step

(* Startup, signals, the drain and the end of the process keep it.         *)
LEMMA ProcessStep ==
  ASSUME PerimeterInv, Process
  PROVE  PerimeterInv'
<1>0. /\ TypeOK /\ RequestsAreSound /\ ArrivalsAreStamped /\ ProcessIsOrdered
      /\ permits = MaxConcurrent - Cardinality(Carried) /\ inFlight = Cardinality(Counted)
      /\ ReadyIsCurrent /\ GracefulStop
  BY DEF PerimeterInv
<1>1. UNCHANGED requestVars
  BY DEF Process, BootStep, Signal, StopAccepting, ServerDone, ObserveDraining,
         GraceExpires, FlushExpires
<1>2. RequestsAreSound' /\ ReadyIsCurrent' /\ Carried' = Carried /\ Counted' = Counted
  BY <1>0, <1>1 DEF requestVars, RequestsAreSound, ReadyIsCurrent, Carried, Counted
<1>3. /\ phase' \in Phase /\ (phase' = "Serving" => phase = "Serving")
      /\ phase = "Cancelled" => phase' = "Cancelled"
  BY <1>0 DEF Process, BootStep, Signal, StopAccepting, ServerDone, ObserveDraining,
              GraceExpires, FlushExpires, AdvanceTo, Rank, Phase, TypeOK
<1>4. ArrivalsAreStamped'
  BY <1>0, <1>1, <1>3 DEF requestVars, ArrivalsAreStamped
<1> USE DEF Boot, BootSteps, Up
<1>5. TypeOK' /\ ProcessIsOrdered' /\ GracefulStop'
  <2>1. CASE BootStep
    <3>1. /\ main \in Boot /\ phase' = phase
          /\ \/ main' \in Boot /\ listening' = listening
             \/ main' = "serving" /\ listening' = TRUE
             \/ main' = "exited" /\ listening' = listening
      BY <2>1 DEF BootStep
    <3>2. \A r \in Request : stage'[r] = "idle"
      BY <1>0, <1>1, <3>1 DEF ProcessIsOrdered, requestVars
    <3>3. /\ main' \in Boot \union Up \union {"exited"} /\ listening' \in BOOLEAN
          /\ main' \in Boot => ~listening'
      <4>1. ~listening /\ "serving" \notin Boot /\ "exited" \notin Boot
        BY <1>0, <3>1 DEF ProcessIsOrdered
      <4> HIDE DEF Boot
      <4>2. main' \in Boot \union Up \union {"exited"}
        BY <3>1
      <4>3. listening' \in BOOLEAN
        BY <1>0, <3>1, Zenon DEF TypeOK
      <4>4. main' \in Boot => ~listening'
        BY <3>1, <4>1, Zenon
      <4> QED
        BY <4>2, <4>3, <4>4
    <3>4. TypeOK'
      BY <1>0, <1>1, <1>3, <3>3 DEF TypeOK, requestVars
    <3>5. ProcessIsOrdered' /\ GracefulStop'
      BY <3>1, <3>2, <3>3 DEF ProcessIsOrdered, GracefulStop
    <3> QED
      BY <3>4, <3>5
  <2>2. CASE Signal
    BY <1>0, <1>1, <1>3, <2>2 DEF Signal, TypeOK, ProcessIsOrdered, GracefulStop, requestVars
  <2>3. CASE StopAccepting
    BY <1>0, <1>1, <1>3, <2>3 DEF StopAccepting, TypeOK, ProcessIsOrdered, GracefulStop, requestVars
  <2>4. CASE ServerDone
    <3>1. \A r \in Request : stage[r] # "idle" => stage[r] = "done" /\ answer[r] # None
      BY <1>0, <2>4 DEF ServerDone, Drained, RequestsAreSound
    <3> QED
      BY <1>0, <1>1, <1>3, <2>4, <3>1
         DEF ServerDone, TypeOK, ProcessIsOrdered, GracefulStop, requestVars
  <2>5. CASE ObserveDraining
    BY <1>0, <1>1, <1>3, <2>5 DEF ObserveDraining, TypeOK, ProcessIsOrdered, GracefulStop, requestVars
  <2>6. CASE GraceExpires
    <3>1. phase' = "Cancelled"
      BY <1>0, <2>6 DEF GraceExpires, AdvanceTo, Rank, TypeOK, Phase
    <3> QED
      BY <1>0, <1>1, <1>3, <2>6, <3>1
         DEF GraceExpires, TypeOK, ProcessIsOrdered, GracefulStop, requestVars
  <2>7. CASE FlushExpires
    BY <1>0, <1>1, <1>3, <2>7 DEF FlushExpires, TypeOK, ProcessIsOrdered, GracefulStop, requestVars
  <2> QED
    BY <2>1, <2>2, <2>3, <2>4, <2>5, <2>6, <2>7 DEF Process
<1> QED
  BY <1>0, <1>1, <1>2, <1>4, <1>5 DEF PerimeterInv, requestVars

(* The invariant holds throughout.                                         *)
THEOREM PerimeterInvariant == Spec => []PerimeterInv
<1>1. PerimeterInv /\ [Next]_vars => PerimeterInv'
  <2> SUFFICES ASSUME PerimeterInv, [Next]_vars PROVE PerimeterInv'
    OBVIOUS
  <2>1. CASE UNCHANGED vars
    BY <2>1 DEF vars, PerimeterInv, TypeOK, RequestsAreSound, ArrivalsAreStamped,
                ProcessIsOrdered, Carried, Counted, ReadyIsCurrent, GracefulStop
  <2> QED
    BY <2>1, RequestStep, ProcessStep DEF Next, Stopped
<1> QED
  BY <1>1, PerimeterInit, PTL DEF Spec

-----------------------------------------------------------------------------
(* Whatever ends a request, and however many there are: its permit comes   *)
(* back exactly once, the drain's count is exact, and the bodies in memory *)
(* never exceed max_concurrent_requests times max_request_body_bytes.      *)
THEOREM LoadAccounted == Spec => []LoadIsAccounted
<1>1. PerimeterInv => LoadIsAccounted
  <2> SUFFICES ASSUME PerimeterInv PROVE LoadIsAccounted
    OBVIOUS
  <2>0. /\ TypeOK /\ RequestsAreSound
        /\ permits = MaxConcurrent - Cardinality(Carried) /\ inFlight = Cardinality(Counted)
    BY DEF PerimeterInv
  <2>1. IsFiniteSet(Carried) /\ Cardinality(Carried) \in Nat
    <3>1. Carried \subseteq Request
      BY DEF Carried
    <3> QED
      BY <3>1, FS_Subset, FS_CardinalityType
  <2>2. Cardinality(Counted) <= Cardinality(Carried)
    <3>1. Counted \subseteq Carried
      BY DEF Counted, Carried, Inside
    <3> QED
      BY <2>1, <3>1, FS_Subset
  <2>3. Cardinality(Retained) <= MaxConcurrent * MaxBody
    <3>1. Retained \subseteq Carried \X (1 .. MaxBody)
      <4>1. SUFFICES ASSUME NEW r \in Request, NEW c \in 1 .. buffered[r]
                     PROVE  r \in Carried /\ c \in 1 .. MaxBody
        BY DEF Retained
      <4>2. buffered[r] \in Nat /\ buffered[r] # 0 /\ buffered[r] <= MaxBody
        BY <2>0 DEF TypeOK, RequestsAreSound
      <4> QED
        BY <2>0, <4>2 DEF RequestsAreSound, Carried, Inside, Tracked
    <3>2. IsFiniteSet(1 .. MaxBody) /\ Cardinality(1 .. MaxBody) = MaxBody
      BY FS_Interval
    <3>3. /\ IsFiniteSet(Carried \X (1 .. MaxBody))
          /\ Cardinality(Carried \X (1 .. MaxBody)) = Cardinality(Carried) * MaxBody
      BY <2>1, <3>2, FS_Product
    <3>4. IsFiniteSet(Retained) /\ Cardinality(Retained) <= Cardinality(Carried) * MaxBody
      BY <3>1, <3>3, FS_Subset
    <3>5. Cardinality(Carried) <= MaxConcurrent
      BY <2>0, <2>1 DEF TypeOK
    <3>6. Cardinality(Retained) \in Nat
      BY <3>4, FS_CardinalityType
    <3>7. \A n, m, b \in Nat : n <= m => n * b <= m * b
      OBVIOUS
    <3>8. Cardinality(Carried) * MaxBody <= MaxConcurrent * MaxBody
      BY <2>1, <3>5, <3>7
    <3> QED
      BY <2>1, <3>4, <3>6, <3>8
  <2>4. Cardinality(Counted) \in Nat
    <3>1. Counted \subseteq Request
      BY DEF Counted
    <3> QED
      BY <3>1, FS_Subset, FS_CardinalityType
  <2> QED
    BY <2>0, <2>1, <2>2, <2>3, <2>4 DEF LoadIsAccounted
<1> QED
  BY <1>1, PerimeterInvariant, PTL

(* /ready never says ready to a request that arrived after the drain began.*)
THEOREM ReadinessIsCurrent == Spec => []ReadyIsCurrent
<1>1. PerimeterInv => ReadyIsCurrent
  BY DEF PerimeterInv
<1> QED
  BY <1>1, PerimeterInvariant, PTL

(* A process that ends without cancelling has answered what it accepted.   *)
THEOREM StopsGracefully == Spec => []GracefulStop
<1>1. PerimeterInv => GracefulStop
  BY DEF PerimeterInv
<1> QED
  BY <1>1, PerimeterInvariant, PTL
=============================================================================
