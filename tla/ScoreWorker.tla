----------------------------- MODULE ScoreWorker -----------------------------
(***************************************************************************)
(* A lane's PersistentScoreWorker (score_worker.py), the sglab-score-worker *)
(* process behind its two pipes (cpp/sglab_score_worker.cpp, --serve), and  *)
(* the retry of _LaneKernel._cpp_score around it.                           *)
(*                                                                         *)
(* A response is two frames in the pipe, its header and its payload, which  *)
(* the client reads apart.  The pipes belong to one process: a new process  *)
(* starts with empty ones, and what an old one holds goes with it.          *)
(***************************************************************************)
EXTENDS Naturals, Sequences

CONSTANTS
    Graphs,
    MaxCalls,       \* bound: calls of _cpp_score
    MaxFaults       \* bound: faults in a behaviour

None == "none"

ASSUME GraphsAssumption == None \notin Graphs

VARIABLES
    child,          \* the process, if any: "up", "dead" or "none", and its two pipes
    request_id,
    call,           \* the running _cpp_score, or how the last one ended
    faults,         \* faults since the last call that returned or raised
    calls, total    \* count calls and faults

vars == <<child, request_id, call, faults, calls, total>>

Spawned == [state |-> "up", requests |-> <<>>, responses |-> <<>>]
NoChild == [state |-> "none", requests |-> <<>>, responses |-> <<>>]
Waiting == call.pc \in {"header", "payload"}
Returned == call.pc \in {"done", "failed", "interrupted"}

Init ==
    /\ child = NoChild /\ request_id = 0
    /\ call = [pc |-> "done", graph |-> None, attempt |-> 0, result |-> None]
    /\ faults = 0 /\ calls = 0 /\ total = 0

Faulty == total < MaxFaults /\ faults' = faults + 1 /\ total' = total + 1
Faultless == UNCHANGED <<faults, total>>

-----------------------------------------------------------------------------
(* The client.                                                              *)

(* score: start when there is no process, refuse one that has exited, write *)
(* the request.                                                             *)
Sent(process, n, g) == [process EXCEPT !.requests = Append(@, [id |-> n, graph |-> g])]

Request(process, g, n) ==
    /\ request_id' = request_id + 1
    /\ child' = Sent(process, request_id + 1, g)
    /\ call' = [pc |-> "header", graph |-> g, attempt |-> n, result |-> None]

(* The exception of an attempt: the first one leads to restart, after the   *)
(* second one the worker is closed and the call fails.                      *)
Raises(g, n) ==
    /\ UNCHANGED request_id
    /\ IF n = 1 THEN /\ call' = [pc |-> "restart", graph |-> g, attempt |-> 1, result |-> None]
                     /\ UNCHANGED child
       ELSE /\ call' = [pc |-> "failed", graph |-> g, attempt |-> 2, result |-> None]
            /\ child' = NoChild

(* restart: close ends the old process, start gives a new one.              *)
RestartedKept == child      \* variant: the retry goes to the process that failed
Restarted == Spawned

Restart ==
    /\ call.pc = "restart"
    /\ Request(Restarted, call.graph, 2)
    /\ Faultless /\ UNCHANGED calls

(* restart's start raises: there is no second attempt.                      *)
RestartUnstartable ==
    /\ call.pc = "restart"
    /\ Faulty
    /\ Raises(call.graph, 2)
    /\ UNCHANGED calls

Call(g) ==
    /\ Returned /\ calls < MaxCalls
    /\ calls' = calls + 1
    /\ faults' = IF call.pc = "interrupted" THEN faults ELSE IF child.state = "dead" THEN 1 ELSE 0
    /\ IF child.state = "dead" THEN Raises(g, 1)
       ELSE Request(IF child.state = "none" THEN Spawned ELSE child, g, 1)
    /\ UNCHANGED total

(* The binary cannot be started: Popen raises in start.                     *)
CallUnstartable(g) ==
    /\ Returned /\ calls < MaxCalls /\ child.state = "none"
    /\ total < MaxFaults /\ total' = total + 1 /\ faults' = 1
    /\ calls' = calls + 1
    /\ Raises(g, 1)

(* A timeout, or the end of the pipe, in either read.                       *)
Timeout == Waiting /\ Faulty /\ Raises(call.graph, call.attempt) /\ UNCHANGED calls

Eof ==
    /\ Waiting /\ child.state = "dead" /\ child.responses = <<>>
    /\ Raises(call.graph, call.attempt)
    /\ Faultless /\ UNCHANGED calls

(* The header the request waits for.                                        *)
HeaderAcceptedAny(frame) == frame.part = "header"   \* variant: the identifier is not compared
HeaderAccepted(frame) == frame.part = "header" /\ frame.id = request_id

ReadHeader ==
    /\ call.pc = "header" /\ child.responses # <<>>
    /\ Faultless /\ UNCHANGED calls
    /\ IF HeaderAccepted(Head(child.responses))
       THEN /\ child' = [child EXCEPT !.responses = Tail(@)]
            /\ call' = [call EXCEPT !.pc = "payload"]
            /\ UNCHANGED request_id
       ELSE Raises(call.graph, call.attempt)

(* An error response has no results; the results of an OK or dominated one  *)
(* are those of the graph the process counted.                              *)
ReadPayload ==
    /\ call.pc = "payload" /\ child.responses # <<>>
    /\ Faultless /\ UNCHANGED calls
    /\ IF Head(child.responses).graph = None THEN Raises(call.graph, call.attempt)
       ELSE /\ child' = [child EXCEPT !.responses = Tail(@)]
            /\ call' = [call EXCEPT !.pc = "done", !.result = Head(child.responses).graph]
            /\ UNCHANGED request_id

(* The call is left by an exception that _cpp_score does not handle (a      *)
(* MemoryError): _apply_commands catches it during a restart command, and   *)
(* the process keeps what was not read.                                     *)
Interrupt ==
    /\ Waiting /\ Faulty
    /\ call' = [call EXCEPT !.pc = "interrupted"]
    /\ UNCHANGED <<child, request_id, calls>>

-----------------------------------------------------------------------------
(* The process.                                                             *)
Response(request, counted) ==
    << [part |-> "header", id |-> request.id, graph |-> None],
       [part |-> "payload", id |-> request.id, graph |-> counted] >>

Serving == child.state = "up" /\ child.requests # <<>>

Serve ==
    /\ Serving
    /\ child' = [child EXCEPT !.requests = Tail(@),
                    !.responses = @ \o Response(Head(child.requests), Head(child.requests).graph)]
    /\ UNCHANGED <<request_id, call, faults, calls, total>>

(* A std::exception (out of memory) is answered with an error status.       *)
ServeError ==
    /\ Serving /\ Faulty
    /\ child' = [child EXCEPT !.requests = Tail(@), !.responses = @ \o Response(Head(child.requests), None)]
    /\ UNCHANGED <<request_id, call, calls>>

(* The process dies, perhaps within a response; what it wrote can be read.  *)
Crash ==
    /\ child.state = "up" /\ Faulty
    /\ \E written \in 0 .. 1 :
        /\ written = 1 => Serving
        /\ child' = [child EXCEPT !.state = "dead", !.requests = <<>>,
                        !.responses = IF written = 0 THEN @ ELSE Append(@, Response(Head(child.requests), None)[1])]
    /\ UNCHANGED <<request_id, call, calls>>

Next ==
    \/ \E g \in Graphs : Call(g) \/ CallUnstartable(g)
    \/ Restart \/ RestartUnstartable
    \/ Timeout \/ Eof \/ ReadHeader \/ ReadPayload
    \/ Interrupt \/ Serve \/ ServeError \/ Crash

Spec == Init /\ [][Next]_vars

-----------------------------------------------------------------------------
(* A call returns the counts of the graph it was given, whatever timed out, *)
(* crashed or was left unread before: no late answer of an earlier request  *)
(* is taken for the answer.  score, _cpp_score.                             *)
AnswerIsForRequest == call.pc = "done" /\ call.result # None => call.result = call.graph

(* The one restart absorbs any single fault: a call fails only when two     *)
(* faults happened since the last call ended (a dead process it left counts *)
(* as one).  _cpp_score, restart.                                           *)
OneFaultAbsorbed == call.pc = "failed" => faults >= 2
=============================================================================
