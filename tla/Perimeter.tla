------------------------------ MODULE Perimeter ------------------------------
(***************************************************************************)
(* The HTTP perimeter of aircraft_api and the shutdown of aircraft-server. *)
(* A request passes the layers router_with_routes stacks, outermost first: *)
(* correlate, refuse_oversized_preflight, CORS, shed_when_saturated (which *)
(* takes an admission permit), track_in_flight (which counts it),          *)
(* enforce_deadline, refuse_oversized_body, then a route; and its answer   *)
(* passes back through them, giving up the count and then the permit. The  *)
(* future of a request may be dropped at any await: by its deadline, by    *)
(* the cancellation of a shutdown, or by the client going away. Beside the *)
(* requests runs serve, which drains, cancels and stops.                   *)
(*                                                                         *)
(* Time is left out: a timeout may fire at any moment after it was armed,  *)
(* and fairness says that it does.                                         *)
(***************************************************************************)
EXTENDS Integers, Sequences, FiniteSets

CONSTANTS
    Request,         \* requests, each on a connection of its own
    Input,           \* what a request may bring: a set of records (InputAssumption)
    MaxConcurrent,   \* http.max_concurrent_requests: the permits of the semaphore
    MaxBody,         \* http.max_request_body_bytes, in chunks of the body
    None

\* A request brings its method, its content-length header if it has one that
\* parses, the chunks its body really has (hyper holds a body to the length it
\* declares), whether the body breaks off, and the route its path matches.
ASSUME InputAssumption ==
    /\ Input \subseteq [options : BOOLEAN, declared : Nat \union {None}, chunks : Nat,
                        broken : BOOLEAN,
                        route : {"public", "ready", "scoped", "unknown", "method"}]
    /\ \A i \in Input : i.declared # None => i.chunks = i.declared
ASSUME LimitAssumption == MaxConcurrent \in Nat \ {0} /\ MaxBody \in Nat
ASSUME RequestAssumption == IsFiniteSet(Request)

VARIABLES
    phase,      \* ShutdownState's watch channel
    inFlight,   \* ShutdownState's counter
    permits,    \* free permits of the admission semaphore
    stage,      \* stage[r]: how far the future of r has come
    input,      \* input[r]: what r brought
    buffered,   \* buffered[r]: chunks refuse_oversized_body retains for r
    answer,     \* answer[r]: the response on its way out, or None
    servedIn,   \* history: the phase in which r arrived
    main,       \* the main task: a startup step, or where serve awaits
    listening   \* axum still accepts connections

vars == <<phase, inFlight, permits, stage, input, buffered, answer, servedIn, main, listening>>
requestVars == <<inFlight, permits, stage, input, buffered, answer, servedIn>>

Phase == {"Serving", "Draining", "Cancelled"}
Rank == [Serving |-> 0, Draining |-> 1, Cancelled |-> 2]

(* Where a future can be suspended.  Inside it holds a permit, Tracked it   *)
(* is counted, and within Cancellable the deadline and the cancellation     *)
(* race the work.                                                           *)
Cancellable == {"body", "route", "probe", "handler"}
Tracked == Cancellable \union {"unwind"}
Inside == Tracked \union {"admitted", "release"}
Stage == Inside \union {"idle", "arrived", "admission", "writing", "done"}

Answers == {"preflight", "too_large", "malformed", "overloaded", "deadline", "cancelled",
            "not_found", "method_not_allowed", "ok", "ready", "shutting_down", "unavailable",
            "handled", "gone"}

(* Startup (main): every setting, then the pool, then what is built from    *)
(* the settings, then the socket, then the signal handlers.                 *)
BootSteps == <<"settings", "database", "pool", "limits", "quota", "policy", "bind", "signals">>
Boot == {BootSteps[i] : i \in DOMAIN BootSteps}
Up == {"serving", "draining", "flushing"}

ASSUME NoneAssumption == None \notin Answers \union Phase

TypeOK ==
    /\ phase \in Phase
    /\ inFlight \in 0..Cardinality(Request)
    /\ permits \in 0..MaxConcurrent
    /\ stage \in [Request -> Stage]
    /\ input \in [Request -> Input \union {None}]
    /\ buffered \in [Request -> Nat]
    /\ answer \in [Request -> Answers \union {None}]
    /\ servedIn \in [Request -> Phase \union {None}]
    /\ main \in Boot \union Up \union {"exited"}
    /\ listening \in BOOLEAN

Init ==
    /\ phase = "Serving" /\ inFlight = 0 /\ permits = MaxConcurrent
    /\ stage = [r \in Request |-> "idle"]
    /\ input = [r \in Request |-> None]
    /\ buffered = [r \in Request |-> 0]
    /\ answer = [r \in Request |-> None]
    /\ servedIn = [r \in Request |-> None]
    /\ main = BootSteps[1] /\ listening = FALSE

-----------------------------------------------------------------------------
(* The way in.                                                             *)

Moves(r, s) == stage' = [stage EXCEPT ![r] = s]

\* The layer answers: the request it was given is gone.
Says(r, a, s) ==
    /\ Moves(r, s)
    /\ answer' = [answer EXCEPT ![r] = a]
    /\ input' = [input EXCEPT ![r] = None]

(* The answer leaves the cancellable part: its future, and the body it had *)
(* buffered, are dropped on the way to track_in_flight's guard.            *)
Returns(r, a) == Says(r, a, "unwind") /\ buffered' = [buffered EXCEPT ![r] = 0]

\* A request is accepted and enters correlate.
Arrive(r) ==
    /\ main \in Up /\ listening /\ stage[r] = "idle"
    /\ \E i \in Input : input' = [input EXCEPT ![r] = i]
    /\ servedIn' = [servedIn EXCEPT ![r] = phase]
    /\ Moves(r, "arrived")
    /\ UNCHANGED <<phase, inFlight, permits, buffered, answer, main, listening>>

DeclaresMoreThan(r) == input[r].declared # None /\ input[r].declared > MaxBody

\* refuse_oversized_preflight, then CorsLayer, which answers every OPTIONS.
Preflight(r) ==
    /\ main \in Up /\ stage[r] = "arrived"
    /\ IF input[r].options
         THEN Says(r, IF DeclaresMoreThan(r) THEN "too_large" ELSE "preflight", "writing")
         ELSE Moves(r, "admission") /\ UNCHANGED <<input, answer>>
    /\ UNCHANGED <<phase, inFlight, permits, buffered, servedIn, main, listening>>

\* shed_when_saturated: a permit now or a refusal now, never a queue.
ShedWhenSaturated(r) ==
    /\ main \in Up /\ stage[r] = "admission"
    /\ \/ permits > 0 /\ permits' = permits - 1 /\ Moves(r, "admitted")
          /\ UNCHANGED <<input, answer>>
       \/ permits = 0 /\ Says(r, "overloaded", "writing") /\ UNCHANGED permits
    /\ UNCHANGED <<phase, inFlight, buffered, servedIn, main, listening>>

\* track_in_flight: enter, then the race with the cancellation is armed.
Enter(r) ==
    /\ main \in Up /\ stage[r] = "admitted"
    /\ inFlight' = inFlight + 1
    /\ Moves(r, "body")
    /\ UNCHANGED <<phase, permits, input, buffered, answer, servedIn, main, listening>>

-----------------------------------------------------------------------------
(* The body and the route.                                                 *)

\* refuse_oversized_body, one chunk a step: a declared excess is refused
\* before anything is read, a counted one before the chunk is kept, and a
\* stream that breaks off is malformed.
RefuseOversizedBody(r) ==
    /\ main \in Up /\ stage[r] = "body"
    /\ \/ /\ DeclaresMoreThan(r) \/ (buffered[r] < input[r].chunks /\ buffered[r] + 1 > MaxBody)
          /\ Returns(r, "too_large")
       \/ /\ ~DeclaresMoreThan(r) /\ buffered[r] < input[r].chunks /\ buffered[r] + 1 <= MaxBody
          /\ buffered' = [buffered EXCEPT ![r] = @ + 1]
          /\ UNCHANGED <<stage, input, answer>>
       \/ /\ ~DeclaresMoreThan(r) /\ buffered[r] = input[r].chunks
          /\ IF input[r].broken THEN Returns(r, "malformed")
                                ELSE Moves(r, "route") /\ UNCHANGED <<input, buffered, answer>>
    /\ UNCHANGED <<phase, inFlight, permits, servedIn, main, listening>>

(* The router: /health and /version answer at once, both fallbacks answer  *)
(* for themselves, a scoped route goes through Policed (module Access).    *)
Route(r) ==
    /\ main \in Up /\ stage[r] = "route" /\ input[r].route # "ready"
    /\ \/ input[r].route = "public" /\ Returns(r, "ok")
       \/ input[r].route = "unknown" /\ Returns(r, "not_found")
       \/ input[r].route = "method" /\ Returns(r, "method_not_allowed")
       \/ input[r].route = "scoped" /\ Moves(r, "handler") /\ UNCHANGED <<input, buffered, answer>>
    /\ UNCHANGED <<phase, inFlight, permits, servedIn, main, listening>>

IsDraining == Rank[phase] >= Rank["Draining"]

\* Fault: the drain is not looked at.
Ready_probeAlways(r) ==
    /\ main \in Up /\ stage[r] = "route" /\ input[r].route = "ready"
    /\ Moves(r, "probe") /\ UNCHANGED <<input, buffered, answer>>
    /\ UNCHANGED <<phase, inFlight, permits, servedIn, main, listening>>

\* ready: a draining process is unready before the database is asked.
Ready(r) ==
    /\ main \in Up /\ stage[r] = "route" /\ input[r].route = "ready"
    /\ IF IsDraining THEN Returns(r, "shutting_down")
                     ELSE Moves(r, "probe") /\ UNCHANGED <<input, buffered, answer>>
    /\ UNCHANGED <<phase, inFlight, permits, servedIn, main, listening>>

\* PoolReadiness::check: the database answers, fails, or is out of time.
Check(r) ==
    /\ main \in Up /\ stage[r] = "probe"
    /\ Returns(r, "ready") \/ Returns(r, "unavailable")
    /\ UNCHANGED <<phase, inFlight, permits, servedIn, main, listening>>

\* A scoped handler answers, if it ever does.
Handle(r) ==
    /\ main \in Up /\ stage[r] = "handler"
    /\ Returns(r, "handled")
    /\ UNCHANGED <<phase, inFlight, permits, servedIn, main, listening>>

-----------------------------------------------------------------------------
(* The ways out.                                                           *)

\* Fault: the deadline covers the handler and not the body.
EnforceDeadline_handlerOnly(r) ==
    /\ main \in Up /\ stage[r] \in Cancellable \ {"body"}
    /\ Returns(r, "deadline")
    /\ UNCHANGED <<phase, inFlight, permits, servedIn, main, listening>>

\* enforce_deadline: the timeout drops the body read or the handler.
EnforceDeadline(r) ==
    /\ main \in Up /\ stage[r] \in Cancellable
    /\ Returns(r, "deadline")
    /\ UNCHANGED <<phase, inFlight, permits, servedIn, main, listening>>

\* track_in_flight's other arm; a late subscriber sees the phase as well.
Cancelled(r) ==
    /\ main \in Up /\ stage[r] \in Cancellable /\ phase = "Cancelled"
    /\ Returns(r, "cancelled")
    /\ UNCHANGED <<phase, inFlight, permits, servedIn, main, listening>>

\* InFlightGuard is dropped, whatever ended the request.
Leave(r) ==
    /\ main \in Up /\ stage[r] = "unwind"
    /\ inFlight' = inFlight - 1
    /\ Moves(r, "release")
    /\ UNCHANGED <<phase, permits, input, buffered, answer, servedIn, main, listening>>

\* Fault: the permit of a dropped future is forgotten.
Release_answersOnly(r) ==
    /\ main \in Up /\ stage[r] = "release"
    /\ permits' = IF answer[r] = "gone" THEN permits ELSE permits + 1
    /\ Moves(r, IF answer[r] = "gone" THEN "done" ELSE "writing")
    /\ UNCHANGED <<phase, inFlight, input, buffered, answer, servedIn, main, listening>>

\* The permit is dropped, correlate stamps the response, hyper writes it.
Release(r) ==
    /\ main \in Up /\ stage[r] = "release"
    /\ permits' = permits + 1
    /\ Moves(r, IF answer[r] = "gone" THEN "done" ELSE "writing")
    /\ UNCHANGED <<phase, inFlight, input, buffered, answer, servedIn, main, listening>>

\* The client took the whole response, or went away while it was written.
Written(r) ==
    /\ main \in Up /\ stage[r] = "writing"
    /\ Moves(r, "done")
    /\ UNCHANGED <<phase, inFlight, permits, input, buffered, answer, servedIn, main, listening>>

\* The client closes its connection and hyper drops the future, whose locals
\* go from the inside out: the guard first, then the permit.
Disconnect(r) ==
    /\ main \in Up /\ stage[r] \in {"arrived", "admission", "admitted"} \union Cancellable
    /\ Says(r, "gone", CASE stage[r] \in Cancellable -> "unwind"
                        [] stage[r] = "admitted" -> "release"
                        [] OTHER -> "done")
    /\ buffered' = [buffered EXCEPT ![r] = 0]
    /\ UNCHANGED <<phase, inFlight, permits, servedIn, main, listening>>

-----------------------------------------------------------------------------
(* The process.                                                            *)

AdvanceTo(p) == phase' = IF Rank[p] > Rank[phase] THEN p ELSE phase

\* main: the next startup step succeeds, or ends the process.
BootStep ==
    \E i \in DOMAIN BootSteps :
        /\ main = BootSteps[i]
        /\ \/ IF i = Len(BootSteps) THEN main' = "serving" /\ listening' = TRUE
              ELSE main' = BootSteps[i + 1] /\ UNCHANGED listening
           \/ main' = "exited" /\ UNCHANGED listening
        /\ UNCHANGED <<phase, requestVars>>

\* SIGTERM or SIGINT: with its handlers installed the server starts to drain,
\* before axum is told to stop accepting.
Signal ==
    /\ main = "serving" /\ phase = "Serving"
    /\ AdvanceTo("Draining")
    /\ UNCHANGED <<requestVars, main, listening>>

\* axum's graceful shutdown: no more connections.
StopAccepting ==
    /\ main \in Up /\ listening /\ IsDraining
    /\ listening' = FALSE
    /\ UNCHANGED <<phase, requestVars, main>>

\* Fault: a response that is still being written is not waited for.
Drained_unwritten ==
    ~listening /\ \A r \in Request : stage[r] \in {"idle", "writing", "done"}

\* Idle or finished: nothing axum would still wait for.
Drained == ~listening /\ \A r \in Request : stage[r] \in {"idle", "done"}

\* The server future is ready: in the first select, in the grace period or
\* in the flush.
ServerDone ==
    /\ main \in Up /\ Drained
    /\ main' = "exited"
    /\ UNCHANGED <<phase, requestVars, listening>>

\* Fault: the main task waits for the server itself, without the phase.
ObserveDraining_late ==
    /\ main = "serving" /\ Drained
    /\ main' = "draining"
    /\ UNCHANGED <<phase, requestVars, listening>>

\* The first select wakes on draining and the grace period starts.
ObserveDraining ==
    /\ main = "serving" /\ IsDraining
    /\ main' = "draining"
    /\ UNCHANGED <<phase, requestVars, listening>>

\* The grace period is over: what is still in flight is cancelled.
GraceExpires ==
    /\ main = "draining"
    /\ AdvanceTo("Cancelled")
    /\ main' = "flushing"
    /\ UNCHANGED <<requestVars, listening>>

\* CANCELLED_FLUSH is over: clients that do not read are left behind.
FlushExpires ==
    /\ main = "flushing"
    /\ main' = "exited"
    /\ UNCHANGED <<phase, requestVars, listening>>

-----------------------------------------------------------------------------
Step(r) ==
    \/ Arrive(r) \/ Preflight(r) \/ ShedWhenSaturated(r) \/ Enter(r)
    \/ RefuseOversizedBody(r) \/ Route(r) \/ Ready(r) \/ Check(r) \/ Handle(r)
    \/ EnforceDeadline(r) \/ Cancelled(r) \/ Leave(r) \/ Release(r)
    \/ Written(r) \/ Disconnect(r)

Process ==
    \/ BootStep \/ Signal \/ StopAccepting \/ ServerDone
    \/ ObserveDraining \/ GraceExpires \/ FlushExpires

\* The process has ended.
Stopped == main = "exited" /\ UNCHANGED vars

Next == (\E r \in Request : Step(r)) \/ Process \/ Stopped

Spec == Init /\ [][Next]_vars

(* A deadline fires, an unwinding future runs on, and the timeouts of serve *)
(* fire. Nothing is assumed of clients, handlers, the database or signals.  *)
Fairness ==
    /\ \A r \in Request : WF_vars(EnforceDeadline(r)) /\ WF_vars(Enter(r) \/ Leave(r) \/ Release(r))
    /\ WF_vars(ObserveDraining) /\ WF_vars(GraceExpires) /\ WF_vars(FlushExpires)

LiveSpec == Spec /\ Fairness

-----------------------------------------------------------------------------
(* Properties.                                                             *)

\* The requests with a permit, those in the count, and the chunks in memory.
Carried == {r \in Request : stage[r] \in Inside}
Counted == {r \in Request : stage[r] \in Tracked}
Retained == UNION {{r} \X (1 .. buffered[r]) : r \in Request}

\* The books of the perimeter balance. Every way a request ends (an answer, a
\* refusal of its body, its deadline, the cancellation, a client gone) gives
\* its permit back exactly once; the count the drain reports is the number of
\* requests carried; and as the semaphore wraps body buffering, all bodies
\* together stay within the permits times the body limit, also when nothing
\* declares its length.
LoadIsAccounted ==
    /\ permits = MaxConcurrent - Cardinality(Carried)
    /\ inFlight = Cardinality(Counted)
    /\ inFlight <= MaxConcurrent - permits
    /\ Cardinality(Retained) <= MaxConcurrent * MaxBody

\* /ready says ready only to a request that arrived before the drain began,
\* although the probe of such a request may outlive that moment.
ReadyIsCurrent == \A r \in Request : answer[r] = "ready" => servedIn[r] = "Serving"

\* A server that stopped without cancelling has given every request it
\* accepted an answer, or lost its client.
GracefulStop ==
    main = "exited" /\ phase # "Cancelled" =>
        \A r \in Request : stage[r] # "idle" => stage[r] = "done" /\ answer[r] # None

\* A wedged handler or a stalled upload does not keep its permit.
PermitReturns ==
    \A r \in Request : stage[r] \in Inside ~> stage[r] \notin Inside \/ main = "exited"

\* Once a signal arrived the process ends, whatever handlers and clients do.
ShutdownEnds == phase # "Serving" ~> main = "exited"

-----------------------------------------------------------------------------
(* The inductive invariant behind the properties.                          *)

\* A request brought something while it is judged by it, retains chunks only
\* where its body is alive and never more than the limit, and has an answer
\* from the moment it turns back.
RequestsAreSound ==
    \A r \in Request :
        /\ stage[r] \in {"arrived", "admission", "admitted"} \union Cancellable => input[r] \in Input
        /\ stage[r] \notin Cancellable => buffered[r] = 0
        /\ buffered[r] <= MaxBody
        /\ stage[r] \in {"unwind", "release", "writing", "done"} => answer[r] # None
        /\ stage[r] \notin {"unwind", "release", "writing", "done"} => answer[r] = None

\* Before the drain every request arrived in service; a probe that runs was
\* started in service.
ArrivalsAreStamped ==
    \A r \in Request :
        /\ stage[r] # "idle" => servedIn[r] # None
        /\ phase = "Serving" => servedIn[r] \in {"Serving", None}
        /\ stage[r] = "probe" => servedIn[r] = "Serving"

\* Nothing is accepted before startup is over, and the flush follows the
\* cancellation.
ProcessIsOrdered ==
    /\ main \in Boot => ~listening /\ \A r \in Request : stage[r] = "idle"
    /\ main = "flushing" => phase = "Cancelled"

PerimeterInv ==
    /\ TypeOK
    /\ RequestsAreSound
    /\ ArrivalsAreStamped
    /\ ProcessIsOrdered
    /\ permits = MaxConcurrent - Cardinality(Carried)
    /\ inFlight = Cardinality(Counted)
    /\ ReadyIsCurrent
    /\ GracefulStop
=============================================================================
