------------------------- MODULE LegacyEngineProofs --------------------------
(***************************************************************************)
(* Machine-checked proofs about the legacy engine and the score worker it  *)
(* shares with the lanes: ScoreWorker answers the request it was given and *)
(* absorbs one fault (any graphs, calls and faults); a stopped LegacySearch *)
(* leaves its loop unless the queue dropped an exit message (any workers,  *)
(* budgets, capacity, failures); LegacyRun keeps its best candidate on disk *)
(* (any ordering keys, any archive of at least two, any crashes).          *)
(***************************************************************************)
EXTENDS ScoreWorker, LegacySearch, LegacyRun, FiniteSetTheorems, SequenceTheorems,
        WellFoundedInduction, TLAPS

-----------------------------------------------------------------------------
(***************************************************************************)
(* The score worker                                                        *)
(***************************************************************************)

Requests == [id : Nat, graph : Graphs]
Frames == [part : {"header", "payload"}, id : Nat, graph : Graphs \cup {None}]

Processes == [state : {"up", "dead", "none"}, requests : Seq(Requests), responses : Seq(Frames)]

(* Every variable has its type.                                            *)
ScoreTypeOK ==
    /\ child \in Processes
    /\ request_id \in Nat
    /\ call \in [pc : {"header", "payload", "restart", "done", "failed", "interrupted"},
                 graph : Graphs \cup {None}, attempt : 0 .. 2, result : Graphs \cup {None}]
    /\ (Waiting \/ call.pc = "restart" => call.graph \in Graphs)
    /\ faults \in Nat /\ total \in Nat /\ calls \in Nat

(* The newest request is the last thing the process reads and writes, and  *)
(* is about the graph of the call that waits for it.                       *)
RequestsOrdered ==
    \A i \in 1 .. Len(child.requests) :
        /\ child.requests[i].id <= request_id
        /\ child.requests[i].id = request_id =>
             i = Len(child.requests) /\ (Waiting => child.requests[i].graph = call.graph)

ResponsesOrdered ==
    \A i \in 1 .. Len(child.responses) :
        /\ child.responses[i].id <= request_id
        /\ child.responses[i].id = request_id =>
             /\ child.requests = <<>>
             /\ child.responses[i].part = "payload" => i = Len(child.responses)
             /\ Waiting => child.responses[i].graph \in {None, call.graph}

(* A header is followed by the payload of the same response; only a dead   *)
(* process leaves one alone.                                               *)
FramesPaired ==
    /\ \A i \in 1 .. Len(child.responses) - 1 :
        child.responses[i].part = "header" =>
            child.responses[i+1].part = "payload" /\ child.responses[i+1].id = child.responses[i].id
    /\ child.responses # <<>> /\ child.responses[Len(child.responses)].part = "header"
         => child.state = "dead"

(* Behind an accepted header comes its payload or the end of the pipe.     *)
PayloadNext ==
    call.pc = "payload" =>
        IF child.responses = <<>> THEN child.state = "dead"
        ELSE child.responses[1].part = "payload" /\ child.responses[1].id = request_id

PipeInv == RequestsOrdered /\ ResponsesOrdered /\ FramesPaired /\ PayloadNext

(* The pipes between a request and its answer when nothing went wrong.     *)
Undisturbed ==
    /\ child.state = "up"
    /\ \/ /\ call.pc = "header" /\ child.responses = <<>>
          /\ child.requests = <<[id |-> request_id, graph |-> call.graph]>>
       \/ /\ call.pc = "header" /\ child.requests = <<>>
          /\ child.responses = Response([id |-> request_id, graph |-> call.graph], call.graph)
       \/ /\ call.pc = "payload" /\ child.requests = <<>>
          /\ child.responses = <<Response([id |-> request_id, graph |-> call.graph], call.graph)[2]>>

(* Each attempt but the first has cost a fault, an attempt without a fault *)
(* of its own goes well, and a call that returns leaves empty pipes.       *)
FaultsCounted ==
    /\ Waiting => call.attempt \in 1 .. 2 /\ faults >= call.attempt - 1
    /\ Waiting /\ faults = call.attempt - 1 => Undisturbed
    /\ call.pc \in {"restart", "interrupted"} => faults >= 1
    /\ call.pc \in {"done", "failed"} /\ child.state = "up" =>
         child.requests = <<>> /\ child.responses = <<>>

ScoreInv == ScoreTypeOK /\ PipeInv /\ FaultsCounted /\ AnswerIsForRequest /\ OneFaultAbsorbed

-----------------------------------------------------------------------------
(* The rest of a sequence.                                                 *)
LEMMA TailFacts ==
    ASSUME NEW S, NEW s \in Seq(S), s # <<>>
    PROVE  /\ Len(s) \in Nat /\ Len(s) >= 1 /\ Len(Tail(s)) = Len(s) - 1
           /\ \A i \in 1 .. Len(s) - 1 : Tail(s)[i] = s[i + 1]
           /\ Tail(s) = <<>> <=> Len(s) = 1
           /\ Head(s) = s[1]
<1>1. Len(s) \in Nat /\ Len(s) >= 1
  OBVIOUS
<1>2. Len(Tail(s)) = Len(s) - 1
  BY <1>1
<1>3. \A i \in 1 .. Len(s) - 1 : Tail(s)[i] = s[i + 1]
  BY <1>1
<1>4. Head(s) = s[1]
  OBVIOUS
<1>5. Tail(s) = <<>> <=> Len(s) = 1
  <2>1. Tail(s) \in Seq(S)
    OBVIOUS
  <2>2. ASSUME Len(Tail(s)) = 0 PROVE Tail(s) = <<>>
    <3>1. CASE Tail(s) # <<>>
      BY <2>1, <2>2, <3>1, EmptySeq
    <3> QED
      BY <3>1
  <2>3. ASSUME Tail(s) = <<>> PROVE Len(Tail(s)) = 0
    BY <2>3, EmptySeq
  <2>4. Len(s) = 1 <=> Len(Tail(s)) = 0
    BY <1>1, <1>2
  <2> QED
    BY <2>2, <2>3, <2>4
<1> QED
  BY <1>1, <1>2, <1>3, <1>4, <1>5

(* An element of the second of two sequences put together.                 *)
LEMMA ConcatElement ==
    ASSUME NEW S, NEW s \in Seq(S), NEW t \in Seq(S), NEW i \in 1 .. Len(t)
    PROVE  (s \o t)[Len(s) + i] = t[i]
OBVIOUS

(* Two elements put behind a sequence.                                     *)
LEMMA ConcatFacts ==
    ASSUME NEW S, NEW s \in Seq(S), NEW t \in Seq(S), Len(t) = 2
    PROVE  /\ Len(s \o t) = Len(s) + 2 /\ Len(s) \in Nat
           /\ \A i \in 1 .. Len(s) : (s \o t)[i] = s[i]
           /\ (s \o t)[Len(s) + 1] = t[1] /\ (s \o t)[Len(s) + 2] = t[2]
           /\ s \o t # <<>>
<1>1. Len(s) \in Nat /\ Len(s \o t) = Len(s) + Len(t)
  BY ConcatProperties, LenProperties
<1>2. \A i \in 1 .. Len(s) : (s \o t)[i] = s[i]
  OBVIOUS
<1>3. \A i \in 1 .. Len(t) : (s \o t)[Len(s) + i] = t[i]
  BY ConcatElement
<1>4. 1 \in 1 .. Len(t) /\ 2 \in 1 .. Len(t)
  OBVIOUS
<1>5. (s \o t)[Len(s) + 1] = t[1] /\ (s \o t)[Len(s) + 2] = t[2]
  BY <1>3, <1>4
<1>6. s \o t # <<>>
  <2>1. Len(s \o t) # 0
    BY <1>1
  <2> QED
    BY <2>1, EmptySeq
<1> QED
  BY <1>1, <1>2, <1>5, <1>6

(* Every variable has its type at the start and after each step: what a    *)
(* request, a response and the record of a call are made of.               *)
LEMMA ScoreTypeInit == Init => ScoreTypeOK
BY DEF Init, ScoreTypeOK, Processes, NoChild, Waiting, None

(* What a request adds to a process, field by field.                       *)
LEMMA SentTyped ==
    ASSUME NEW process \in Processes, NEW n \in Nat, NEW g \in Graphs
    PROVE  /\ Sent(process, n, g) \in Processes
           /\ Sent(process, n, g) =
                [state |-> process.state, responses |-> process.responses,
                 requests |-> Append(process.requests, [id |-> n, graph |-> g])]
<1>1. [id |-> n, graph |-> g] \in Requests
  BY DEF Requests
<1>2. Append(process.requests, [id |-> n, graph |-> g]) \in Seq(Requests)
  BY <1>1 DEF Processes
<1>3. Sent(process, n, g) =
        [state |-> process.state, responses |-> process.responses,
         requests |-> Append(process.requests, [id |-> n, graph |-> g])]
  <2>1. \A q : [process EXCEPT !.requests = q] =
                [state |-> process.state, responses |-> process.responses, requests |-> q]
    BY DEF Processes
  <2> QED
    BY <2>1 DEF Sent
<1> QED
  BY <1>2, <1>3 DEF Processes

(* The process a start leaves has empty pipes.                             *)
LEMMA SpawnedTyped ==
    /\ Spawned \in Processes /\ Spawned.state = "up"
    /\ NoChild \in Processes /\ NoChild.state = "none"
    /\ Spawned.requests = <<>> /\ Spawned.responses = <<>>
    /\ NoChild.requests = <<>> /\ NoChild.responses = <<>>
BY DEF Spawned, NoChild, Processes

(* A response is its header and its payload.                               *)
LEMMA ResponseTyped ==
    ASSUME NEW r \in Requests, NEW g \in Graphs \cup {None}
    PROVE  /\ Response(r, g) \in Seq(Frames)
           /\ Len(Response(r, g)) = 2
           /\ Response(r, g)[1] = [part |-> "header", id |-> r.id, graph |-> None]
           /\ Response(r, g)[2] = [part |-> "payload", id |-> r.id, graph |-> g]
           /\ Response(r, g)[1] \in Frames
BY DEF Response, Requests, Frames

(* What each step that reads or writes a pipe makes of the process and of  *)
(* the call, field by field.                                               *)
LEMMA ReadHeaderEffect ==
    ASSUME ScoreTypeOK, ReadHeader
    PROVE  /\ child.responses # <<>> /\ call.pc = "header" /\ UNCHANGED <<faults, total, calls>>
           /\ \/ /\ HeaderAccepted(Head(child.responses)) /\ UNCHANGED request_id
                 /\ child' = [state |-> child.state, requests |-> child.requests,
                              responses |-> Tail(child.responses)]
                 /\ call' = [pc |-> "payload", graph |-> call.graph, attempt |-> call.attempt,
                             result |-> call.result]
              \/ ~HeaderAccepted(Head(child.responses)) /\ Raises(call.graph, call.attempt)
BY DEF ReadHeader, ScoreTypeOK, Processes, Faultless

(* The same for the read of a payload,                                     *)
LEMMA ReadPayloadEffect ==
    ASSUME ScoreTypeOK, ReadPayload
    PROVE  /\ child.responses # <<>> /\ call.pc = "payload" /\ UNCHANGED <<faults, total, calls>>
           /\ Head(child.responses) \in Frames
           /\ \/ /\ Head(child.responses).graph # None /\ UNCHANGED request_id
                 /\ child' = [state |-> child.state, requests |-> child.requests,
                              responses |-> Tail(child.responses)]
                 /\ call' = [pc |-> "done", graph |-> call.graph, attempt |-> call.attempt,
                             result |-> Head(child.responses).graph]
              \/ Head(child.responses).graph = None /\ Raises(call.graph, call.attempt)
<1>1. Head(child.responses) \in Frames
  BY DEF ReadPayload, ScoreTypeOK, Processes
<1> QED
  BY <1>1 DEF ReadPayload, ScoreTypeOK, Processes, Faultless

(* for an interruption,                                                    *)
LEMMA InterruptEffect ==
    ASSUME ScoreTypeOK, Interrupt
    PROVE  /\ Waiting /\ Faulty /\ UNCHANGED <<child, request_id, calls>>
           /\ call' = [pc |-> "interrupted", graph |-> call.graph, attempt |-> call.attempt,
                       result |-> call.result]
BY DEF Interrupt, ScoreTypeOK, Processes

(* for an answer, of results or of an error,                               *)
LEMMA ServeEffect ==
    ASSUME ScoreTypeOK, Serve \/ ServeError
    PROVE  /\ child.state = "up" /\ child.requests # <<>> /\ Head(child.requests) \in Requests
           /\ UNCHANGED <<request_id, call, calls>>
           /\ \E counted \in Graphs \cup {None} :
                /\ \/ counted = Head(child.requests).graph /\ UNCHANGED <<faults, total>>
                   \/ counted = None /\ Faulty
                /\ child' = [state |-> child.state, requests |-> Tail(child.requests),
                             responses |-> child.responses \o Response(Head(child.requests), counted)]
<1>1. child.requests # <<>> /\ Head(child.requests) \in Requests /\ child.state = "up"
  BY DEF Serve, ServeError, Serving, ScoreTypeOK, Processes
<1>2. CASE Serve
  <2>1. child' = [state |-> child.state, requests |-> Tail(child.requests),
                  responses |-> child.responses \o Response(Head(child.requests), Head(child.requests).graph)]
    BY <1>2 DEF Serve, ScoreTypeOK, Processes
  <2>2. Head(child.requests).graph \in Graphs
    BY <1>1 DEF Requests
  <2> QED
    BY <1>1, <1>2, <2>1, <2>2 DEF Serve
<1>3. CASE ServeError
  <2>1. child' = [state |-> child.state, requests |-> Tail(child.requests),
                  responses |-> child.responses \o Response(Head(child.requests), None)]
    BY <1>3 DEF ServeError, ScoreTypeOK, Processes
  <2> QED
    BY <1>1, <1>3, <2>1 DEF ServeError
<1> QED
  BY <1>2, <1>3

(* and for the death of the process, within a response or not.             *)
LEMMA CrashEffect ==
    ASSUME ScoreTypeOK, Crash
    PROVE  /\ child.state = "up" /\ Faulty /\ UNCHANGED <<request_id, call, calls>>
           /\ \/ child' = [state |-> "dead", requests |-> <<>>, responses |-> child.responses]
              \/ /\ child.requests # <<>> /\ Head(child.requests) \in Requests
                 /\ child' = [state |-> "dead", requests |-> <<>>,
                              responses |-> Append(child.responses, Response(Head(child.requests), None)[1])]
<1>1. PICK written \in 0 .. 1 :
        /\ written = 1 => Serving
        /\ child' = [child EXCEPT !.state = "dead", !.requests = <<>>,
                        !.responses = IF written = 0 THEN @ ELSE Append(@, Response(Head(child.requests), None)[1])]
  BY DEF Crash
<1>2. CASE written = 0
  <2>1. child' = [state |-> "dead", requests |-> <<>>, responses |-> child.responses]
    BY <1>1, <1>2 DEF ScoreTypeOK, Processes
  <2> QED
    BY <2>1 DEF Crash
<1>3. CASE written = 1
  <2>1. child' = [state |-> "dead", requests |-> <<>>,
                  responses |-> Append(child.responses, Response(Head(child.requests), None)[1])]
    <3>1. child' = [child EXCEPT !.state = "dead", !.requests = <<>>,
                      !.responses = Append(@, Response(Head(child.requests), None)[1])]
      BY <1>1, <1>3
    <3> QED
      BY <3>1 DEF ScoreTypeOK, Processes
  <2>2. child.requests # <<>> /\ Head(child.requests) \in Requests
    BY <1>1, <1>3 DEF Serving, ScoreTypeOK, Processes
  <2> QED
    BY <2>1, <2>2 DEF Crash
<1> QED
  BY <1>2, <1>3

(* Every step keeps the types.                                             *)
LEMMA ScoreTypeNext == ScoreTypeOK /\ [Next]_vars => ScoreTypeOK'
<1> SUFFICES ASSUME ScoreTypeOK, [Next]_vars PROVE ScoreTypeOK'
  OBVIOUS
<1>1. ASSUME NEW g \in Graphs, Call(g) PROVE ScoreTypeOK'
  <2>1. CASE child.state = "dead"
    BY <1>1, <2>1, SpawnedTyped DEF Call, Raises, ScoreTypeOK, Processes, Waiting
  <2>2. CASE child.state # "dead"
    <3> DEFINE process == IF child.state = "none" THEN Spawned ELSE child
    <3>1. process \in Processes
      BY SpawnedTyped DEF ScoreTypeOK, Processes
    <3>2. Request(process, g, 1) /\ UNCHANGED total /\ calls' = calls + 1 /\ faults' \in Nat
      BY <1>1, <2>2 DEF Call, ScoreTypeOK, Processes
    <3> HIDE DEF process
    <3>3. /\ child' \in Processes
          /\ request_id' \in Nat
          /\ call' \in [pc : {"header"}, graph : Graphs, attempt : 1 .. 2, result : {None}]
      <4>1. /\ request_id' = request_id + 1 /\ child' = Sent(process, request_id + 1, g)
            /\ call' = [pc |-> "header", graph |-> g, attempt |-> 1, result |-> None]
        BY <3>2 DEF Request
      <4>2. request_id + 1 \in Nat
        BY DEF ScoreTypeOK
      <4>3. Sent(process, request_id + 1, g) \in Processes
        BY <3>1, <4>2, SentTyped
      <4> QED
        BY <4>1, <4>2, <4>3
    <3> QED
      BY <3>2, <3>3 DEF ScoreTypeOK, Processes, Waiting
  <2> QED
    BY <2>1, <2>2
<1>2. ASSUME NEW g \in Graphs, CallUnstartable(g) PROVE ScoreTypeOK'
  BY <1>2, SpawnedTyped DEF CallUnstartable, Raises, ScoreTypeOK, Processes, Waiting
<1>3. CASE Restart
  <2>1. Request(Spawned, call.graph, 2) /\ call.graph \in Graphs /\ UNCHANGED <<faults, total, calls>>
    BY <1>3 DEF Restart, Restarted, Faultless, ScoreTypeOK, Processes
  <2>2. /\ child' \in Processes
        /\ request_id' \in Nat
        /\ call' \in [pc : {"header"}, graph : Graphs, attempt : 1 .. 2, result : {None}]
    <3>1. /\ request_id' = request_id + 1 /\ child' = Sent(Spawned, request_id + 1, call.graph)
          /\ call' = [pc |-> "header", graph |-> call.graph, attempt |-> 2, result |-> None]
      BY <2>1 DEF Request
    <3>2. request_id + 1 \in Nat
      BY DEF ScoreTypeOK
    <3>3. Sent(Spawned, request_id + 1, call.graph) \in Processes
      BY <2>1, <3>2, SpawnedTyped, SentTyped
    <3> QED
      BY <2>1, <3>1, <3>2, <3>3
  <2> QED
    BY <2>1, <2>2 DEF ScoreTypeOK, Processes, Waiting
<1>4. CASE RestartUnstartable
  BY <1>4, SpawnedTyped DEF RestartUnstartable, Raises, Faulty, ScoreTypeOK, Processes, Waiting
<1>5. CASE Timeout
  BY <1>5, SpawnedTyped DEF Timeout, Raises, Faulty, ScoreTypeOK, Processes, Waiting
<1>6. CASE Eof
  BY <1>6, SpawnedTyped DEF Eof, Raises, Faultless, ScoreTypeOK, Processes, Waiting
<1>7. CASE ReadHeader
  <2>1. CASE Raises(call.graph, call.attempt)
    BY <1>7, <2>1, ReadHeaderEffect, SpawnedTyped DEF Raises, ScoreTypeOK, Processes, Waiting
  <2>2. CASE ~Raises(call.graph, call.attempt)
    <3>1. /\ child' = [state |-> child.state, requests |-> child.requests,
                       responses |-> Tail(child.responses)]
          /\ UNCHANGED <<request_id, faults, total, calls>>
          /\ child.responses # <<>>
      BY <1>7, <2>2, ReadHeaderEffect
    <3>2. Tail(child.responses) \in Seq(Frames)
      BY <3>1 DEF ScoreTypeOK, Processes
    <3>3. call' \in [pc : {"payload", "done"}, graph : Graphs \cup {None}, attempt : 0 .. 2,
                     result : Graphs \cup {None}] /\ call'.graph = call.graph /\ call.graph \in Graphs
      BY <1>7, <2>2, ReadHeaderEffect DEF ScoreTypeOK, Processes, Waiting
    <3> QED
      BY <3>1, <3>2, <3>3 DEF ScoreTypeOK, Processes, Waiting
  <2> QED
    BY <2>1, <2>2
<1>8. CASE ReadPayload
  <2>1. CASE Raises(call.graph, call.attempt)
    BY <1>8, <2>1, ReadPayloadEffect, SpawnedTyped DEF Raises, ScoreTypeOK, Processes, Waiting
  <2>2. CASE ~Raises(call.graph, call.attempt)
    <3>1. /\ child' = [state |-> child.state, requests |-> child.requests,
                       responses |-> Tail(child.responses)]
          /\ UNCHANGED <<request_id, faults, total, calls>>
          /\ child.responses # <<>>
      BY <1>8, <2>2, ReadPayloadEffect
    <3>2. Tail(child.responses) \in Seq(Frames)
      BY <3>1 DEF ScoreTypeOK, Processes
    <3>3. call' \in [pc : {"payload", "done"}, graph : Graphs \cup {None}, attempt : 0 .. 2,
                     result : Graphs \cup {None}] /\ call'.graph = call.graph /\ call.graph \in Graphs
      BY <1>8, <2>2, ReadPayloadEffect DEF ScoreTypeOK, Processes, Waiting, Frames
    <3> QED
      BY <3>1, <3>2, <3>3 DEF ScoreTypeOK, Processes, Waiting
  <2> QED
    BY <2>1, <2>2
<1>9. CASE Interrupt
  BY <1>9, InterruptEffect DEF Faulty, ScoreTypeOK, Processes, Waiting
<1>10. CASE Serve \/ ServeError
  <2>1. PICK counted \in Graphs \cup {None} :
           child' = [state |-> child.state, requests |-> Tail(child.requests),
                     responses |-> child.responses \o Response(Head(child.requests), counted)]
    BY <1>10, ServeEffect
  <2>2. Response(Head(child.requests), counted) \in Seq(Frames)
    BY <1>10, ServeEffect, ResponseTyped
  <2>3. child.responses \o Response(Head(child.requests), counted) \in Seq(Frames)
    BY <2>2 DEF ScoreTypeOK, Processes
  <2>4. UNCHANGED <<request_id, call, calls>> /\ faults' \in Nat /\ total' \in Nat
    BY <1>10, ServeEffect DEF Faulty, ScoreTypeOK, Processes
  <2>5. child.requests # <<>>
    BY <1>10, ServeEffect
  <2> QED
    BY <2>1, <2>3, <2>4, <2>5 DEF ScoreTypeOK, Processes, Waiting
<1>11. CASE Crash
  <2>1. child.requests # <<>> /\ Head(child.requests) \in Requests =>
          Response(Head(child.requests), None)[1] \in Frames
    BY ResponseTyped
  <2>2. PICK written \in Seq(Frames) :
          child' = [state |-> "dead", requests |-> <<>>, responses |-> written]
    <3>1. CASE child' = [state |-> "dead", requests |-> <<>>, responses |-> child.responses]
      BY <3>1 DEF ScoreTypeOK, Processes
    <3>2. CASE child' # [state |-> "dead", requests |-> <<>>, responses |-> child.responses]
      <4>1. /\ Response(Head(child.requests), None)[1] \in Frames
            /\ child' = [state |-> "dead", requests |-> <<>>,
                         responses |-> Append(child.responses, Response(Head(child.requests), None)[1])]
        BY <1>11, <2>1, <3>2, CrashEffect
      <4>2. Append(child.responses, Response(Head(child.requests), None)[1]) \in Seq(Frames)
        BY <4>1 DEF ScoreTypeOK, Processes
      <4> QED
        BY <4>1, <4>2
    <3> QED
      BY <3>1, <3>2
  <2>3. UNCHANGED <<request_id, call, calls>> /\ faults' \in Nat /\ total' \in Nat
    BY <1>11, CrashEffect DEF Faulty, ScoreTypeOK, Processes
  <2> QED
    BY <2>2, <2>3 DEF ScoreTypeOK, Processes, Waiting
<1>12. CASE UNCHANGED vars
  BY <1>12 DEF vars, ScoreTypeOK, Processes, Waiting
<1> QED
  BY <1>1, <1>2, <1>3, <1>4, <1>5, <1>6, <1>7, <1>8, <1>9, <1>10, <1>11, <1>12 DEF Next

-----------------------------------------------------------------------------
(* The pipes.                                                              *)

(* What the sequences of a typed process are made of.                      *)
LEMMA PipeTypes ==
    ASSUME ScoreTypeOK
    PROVE  /\ request_id \in Nat
           /\ child.requests \in Seq(Requests) /\ child.responses \in Seq(Frames)
           /\ Len(child.requests) \in Nat /\ Len(child.responses) \in Nat
           /\ \A i \in 1 .. Len(child.requests) :
                child.requests[i].id \in Nat /\ child.requests[i].graph \in Graphs
           /\ \A i \in 1 .. Len(child.responses) :
                child.responses[i].id \in Nat /\ child.responses[i].graph \in Graphs \cup {None}
<1>1. /\ child.requests \in Seq(Requests) /\ child.responses \in Seq(Frames) /\ request_id \in Nat
  BY DEF ScoreTypeOK, Processes
<1>2. \A i \in 1 .. Len(child.requests) : child.requests[i] \in Requests
  BY <1>1
<1>3. \A i \in 1 .. Len(child.responses) : child.responses[i] \in Frames
  BY <1>1
<1> QED
  BY <1>1, <1>2, <1>3 DEF Requests, Frames

(* A request that is written to a process whose pipes are in order.        *)
LEMMA RequestOrder ==
    ASSUME ScoreTypeOK, PipeInv, NEW g \in Graphs, NEW n \in 1 .. 2,
           Request(child, g, n) \/ Request(Spawned, g, n)
    PROVE  PipeInv'
<1>1. /\ request_id' = request_id + 1
      /\ call' = [pc |-> "header", graph |-> g, attempt |-> n, result |-> None]
  BY DEF Request
<1>2. PICK process \in {child, Spawned} : child' = Sent(process, request_id + 1, g)
  BY DEF Request
<1>3. process \in Processes /\ request_id \in Nat
  BY SpawnedTyped DEF ScoreTypeOK
<1> DEFINE q == process.requests
           r == process.responses
           x == [id |-> request_id + 1, graph |-> g]
<1>4. q \in Seq(Requests) /\ r \in Seq(Frames)
  BY <1>3 DEF Processes
<1>5. child' = [state |-> process.state, responses |-> r, requests |-> Append(q, x)]
  <2>1. request_id + 1 \in Nat
    BY <1>3
  <2>2. Sent(process, request_id + 1, g) =
          [state |-> process.state, responses |-> r, requests |-> Append(q, x)]
    BY <1>3, <2>1, SentTyped
  <2> QED
    BY <1>2, <2>2
<1>6. /\ \A i \in 1 .. Len(q) : q[i].id \in Nat /\ q[i].id <= request_id
      /\ \A i \in 1 .. Len(r) : r[i].id \in Nat /\ r[i].id <= request_id
      /\ \A i \in 1 .. Len(r) - 1 :
           r[i].part = "header" => r[i+1].part = "payload" /\ r[i+1].id = r[i].id
      /\ r # <<>> /\ r[Len(r)].part = "header" => process.state = "dead"
  <2>1. CASE process = child
    BY <2>1, PipeTypes DEF PipeInv, RequestsOrdered, ResponsesOrdered, FramesPaired
  <2>2. CASE process = Spawned
    BY <2>2 DEF Spawned
  <2> QED
    BY <2>1, <2>2
<1>7. /\ child'.requests = Append(q, x) /\ child'.responses = r /\ child'.state = process.state
      /\ call'.pc = "header" /\ call'.graph = g
  BY <1>1, <1>5
<1>8. /\ Len(Append(q, x)) = Len(q) + 1 /\ Len(q) \in Nat
      /\ \A i \in 1 .. Len(q) : Append(q, x)[i] = q[i]
      /\ Append(q, x)[Len(q) + 1] = x
  BY <1>4
<1>9. x.id = request_id + 1 /\ x.graph = g
  OBVIOUS
<1> HIDE DEF q, r, x
<1>10. RequestsOrdered'
  BY <1>1, <1>3, <1>6, <1>7, <1>8, <1>9 DEF RequestsOrdered, Waiting
<1>11. ResponsesOrdered'
  BY <1>1, <1>3, <1>6, <1>7 DEF ResponsesOrdered
<1>12. FramesPaired'
  BY <1>6, <1>7 DEF FramesPaired
<1>13. PayloadNext'
  BY <1>7 DEF PayloadNext
<1> QED
  BY <1>10, <1>11, <1>12, <1>13 DEF PipeInv

(* An exception leaves the pipes as they are, or closes them.              *)
LEMMA RaisesOrder ==
    ASSUME ScoreTypeOK, PipeInv, NEW g, NEW n, Raises(g, n)
    PROVE  PipeInv'
<1>1. request_id' = request_id /\ call'.pc \in {"restart", "failed"}
  BY DEF Raises
<1>2. CASE UNCHANGED child
  BY <1>1, <1>2 DEF PipeInv, RequestsOrdered, ResponsesOrdered, FramesPaired, PayloadNext, Waiting
<1>3. CASE child' = NoChild
  <2>1. child'.requests = <<>> /\ child'.responses = <<>>
    BY <1>3, SpawnedTyped
  <2> QED
    BY <1>1, <2>1 DEF PipeInv, RequestsOrdered, ResponsesOrdered, FramesPaired, PayloadNext, Waiting
<1> QED
  BY <1>2, <1>3 DEF Raises

(* The client reads a header or a payload, or is interrupted.              *)
LEMMA ReadOrder ==
    ASSUME ScoreTypeOK, PipeInv, ReadHeader \/ ReadPayload \/ Interrupt
    PROVE  PipeInv'
<1> DEFINE r == child.responses
<1>1. r \in Seq(Frames) /\ request_id \in Nat
  BY PipeTypes
<1>2. CASE Interrupt
  <2>1. UNCHANGED <<child, request_id>> /\ call'.pc = "interrupted"
    BY <1>2, InterruptEffect
  <2> QED
    BY <2>1 DEF PipeInv, RequestsOrdered, ResponsesOrdered, FramesPaired, PayloadNext, Waiting
<1>3. CASE Raises(call.graph, call.attempt)
  BY <1>3, RaisesOrder
<1>4. CASE ~Interrupt /\ ~Raises(call.graph, call.attempt)
  <2>1. /\ r # <<>> /\ UNCHANGED request_id /\ Waiting
        /\ child' = [state |-> child.state, requests |-> child.requests, responses |-> Tail(r)]
        /\ call'.graph = call.graph
    BY <1>4, ReadHeaderEffect, ReadPayloadEffect DEF Waiting
  <2>2. /\ child'.requests = child.requests /\ child'.responses = Tail(r)
        /\ child'.state = child.state
    BY <2>1
  <2>3. /\ Len(Tail(r)) = Len(r) - 1 /\ Len(r) \in Nat /\ Len(r) >= 1
        /\ \A i \in 1 .. Len(r) - 1 : Tail(r)[i] = r[i + 1]
        /\ Tail(r) = <<>> <=> Len(r) = 1
        /\ Head(r) = r[1]
    BY <1>1, <2>1, TailFacts
  <2>4. r = child.responses
    OBVIOUS
  <2> HIDE DEF r
  <2>5. RequestsOrdered'
    BY <2>1, <2>2 DEF PipeInv, RequestsOrdered, Waiting
  <2>6. ResponsesOrdered'
    BY <1>1, <2>1, <2>2, <2>3, <2>4 DEF PipeInv, ResponsesOrdered, Waiting
  <2>7. FramesPaired'
    <3>1. /\ \A i \in 1 .. Len(r) - 1 :
                r[i].part = "header" => r[i + 1].part = "payload" /\ r[i + 1].id = r[i].id
          /\ r # <<>> /\ r[Len(r)].part = "header" => child.state = "dead"
      BY <2>4 DEF PipeInv, FramesPaired
    <3>2. ASSUME NEW i \in 1 .. Len(Tail(r)) - 1, Tail(r)[i].part = "header"
          PROVE  Tail(r)[i + 1].part = "payload" /\ Tail(r)[i + 1].id = Tail(r)[i].id
      <4>1. i \in 1 .. Len(r) - 1 /\ i + 1 \in 1 .. Len(r) - 1
        BY <2>3, <3>2
      <4>2. Tail(r)[i] = r[i + 1] /\ Tail(r)[i + 1] = r[i + 1 + 1]
        BY <2>3, <4>1
      <4> QED
        BY <3>1, <3>2, <4>1, <4>2
    <3>3. ASSUME Tail(r) # <<>>, Tail(r)[Len(Tail(r))].part = "header"
          PROVE  child.state = "dead"
      <4>1. Len(r) - 1 \in 1 .. Len(r) - 1 /\ Len(r) - 1 + 1 = Len(r)
        BY <2>3, <3>3
      <4>2. Tail(r)[Len(Tail(r))] = r[Len(r)]
        BY <2>3, <4>1
      <4> QED
        BY <2>1, <3>1, <3>3, <4>2
    <3> QED
      BY <2>2, <3>2, <3>3 DEF FramesPaired
  <2>8. PayloadNext'
    <3> SUFFICES ASSUME call'.pc = "payload"
                 PROVE  IF child'.responses = <<>> THEN child'.state = "dead"
                        ELSE child'.responses[1].part = "payload" /\ child'.responses[1].id = request_id'
      BY DEF PayloadNext
    <3>1. HeaderAccepted(Head(r))
      BY <1>4, <2>4, ReadHeaderEffect, ReadPayloadEffect
    <3>2. r[1].part = "header" /\ r[1].id = request_id
      BY <2>3, <3>1 DEF HeaderAccepted
    <3>3. CASE Len(r) = 1
      BY <2>1, <2>2, <2>3, <2>4, <3>2, <3>3 DEF PipeInv, FramesPaired
    <3>4. CASE Len(r) > 1
      <4>1. r[2].part = "payload" /\ r[2].id = request_id
        BY <2>3, <2>4, <3>2, <3>4 DEF PipeInv, FramesPaired
      <4> QED
        BY <2>1, <2>2, <2>3, <3>4, <4>1
    <3> QED
      BY <2>3, <3>3, <3>4
  <2> QED
    BY <2>5, <2>6, <2>7, <2>8 DEF PipeInv
<1> QED
  BY <1>2, <1>3, <1>4

(* The process answers the oldest request, or dies while it does.          *)
LEMMA ServeOrder ==
    ASSUME ScoreTypeOK, PipeInv, Serve \/ ServeError
    PROVE  PipeInv'
<1> DEFINE q == child.requests
           r == child.responses
<1>1. PICK counted \in Graphs \cup {None} :
        /\ counted \in {Head(q).graph, None}
        /\ child' = [state |-> child.state, requests |-> Tail(q),
                     responses |-> r \o Response(Head(q), counted)]
  BY ServeEffect
<1>2. /\ child.state = "up" /\ q # <<>> /\ Head(q) \in Requests
      /\ UNCHANGED <<request_id, call>>
  BY ServeEffect
<1>3. q \in Seq(Requests) /\ r \in Seq(Frames) /\ request_id \in Nat
  BY PipeTypes
<1> DEFINE w == Response(Head(q), counted)
<1>4. /\ w \in Seq(Frames) /\ Len(w) = 2
      /\ w[1] = [part |-> "header", id |-> Head(q).id, graph |-> None]
      /\ w[2] = [part |-> "payload", id |-> Head(q).id, graph |-> counted]
  BY <1>2, ResponseTyped
<1> HIDE DEF w
<1>5. /\ Len(r \o w) = Len(r) + 2 /\ Len(r) \in Nat
      /\ \A i \in 1 .. Len(r) : (r \o w)[i] = r[i]
      /\ (r \o w)[Len(r) + 1] = w[1] /\ (r \o w)[Len(r) + 2] = w[2]
  BY <1>3, <1>4, ConcatFacts
<1>6. /\ Len(Tail(q)) = Len(q) - 1 /\ Len(q) \in Nat /\ Len(q) >= 1
      /\ \A i \in 1 .. Len(q) - 1 : Tail(q)[i] = q[i + 1]
      /\ Tail(q) = <<>> <=> Len(q) = 1
      /\ Head(q) = q[1]
  BY <1>2, <1>3, TailFacts
<1>7. /\ child'.requests = Tail(q) /\ child'.responses = r \o w /\ child'.state = "up"
  BY <1>1, <1>2 DEF w
<1>8. /\ q = child.requests /\ r = child.responses
      /\ w[1].part = "header" /\ w[1].id = q[1].id /\ w[1].graph = None
      /\ w[2].part = "payload" /\ w[2].id = q[1].id /\ w[2].graph \in {q[1].graph, None}
  BY <1>1, <1>4, <1>6
<1> HIDE DEF q, r
<1>9. RequestsOrdered'
  <2> SUFFICES ASSUME NEW i \in 1 .. Len(q) - 1
               PROVE  /\ q[i + 1].id <= request_id
                      /\ q[i + 1].id = request_id =>
                           i = Len(q) - 1 /\ (Waiting => q[i + 1].graph = call.graph)
    BY <1>2, <1>6, <1>7 DEF RequestsOrdered, Waiting
  <2>1. i + 1 \in 1 .. Len(q)
    BY <1>6
  <2>2. /\ q[i + 1].id <= request_id
        /\ q[i + 1].id = request_id =>
             i + 1 = Len(q) /\ (Waiting => q[i + 1].graph = call.graph)
    BY <1>8, <2>1 DEF PipeInv, RequestsOrdered
  <2> QED
    BY <1>6, <2>2
<1>10. ResponsesOrdered'
  <2> SUFFICES ASSUME NEW i \in 1 .. Len(r) + 2
               PROVE  /\ (r \o w)[i].id <= request_id
                      /\ (r \o w)[i].id = request_id =>
                           /\ Tail(q) = <<>>
                           /\ (r \o w)[i].part = "payload" => i = Len(r) + 2
                           /\ Waiting => (r \o w)[i].graph \in {None, call.graph}
    BY <1>2, <1>5, <1>7 DEF ResponsesOrdered, Waiting
  <2>1. CASE i \in 1 .. Len(r)
    <3>1. r[i].id <= request_id /\ r[i].id # request_id
      BY <1>2, <1>8, <2>1 DEF PipeInv, ResponsesOrdered
    <3> QED
      BY <1>5, <2>1, <3>1
  <2>2. CASE i \in {Len(r) + 1, Len(r) + 2}
    <3>1. /\ q[1].id <= request_id
          /\ q[1].id = request_id => Len(q) = 1 /\ (Waiting => q[1].graph = call.graph)
      BY <1>6, <1>8 DEF PipeInv, RequestsOrdered
    <3> QED
      BY <1>5, <1>6, <1>8, <2>2, <3>1
  <2> QED
    BY <1>5, <2>1, <2>2
<1>11. FramesPaired'
  <2>1. ASSUME NEW i \in 1 .. Len(r) + 1, (r \o w)[i].part = "header"
        PROVE  (r \o w)[i+1].part = "payload" /\ (r \o w)[i+1].id = (r \o w)[i].id
    <3>1. CASE i \in 1 .. Len(r) - 1
      <4>1. i + 1 \in 1 .. Len(r) /\ i \in 1 .. Len(r)
        BY <1>5, <3>1
      <4>2. (r \o w)[i] = r[i] /\ (r \o w)[i + 1] = r[i + 1]
        BY <1>5, <4>1
      <4>3. r[i].part = "header" => r[i+1].part = "payload" /\ r[i+1].id = r[i].id
        BY <1>8, <3>1 DEF PipeInv, FramesPaired
      <4> QED
        BY <2>1, <4>2, <4>3
    <3>2. CASE i = Len(r)
      BY <1>2, <1>5, <1>8, <2>1, <3>2 DEF PipeInv, FramesPaired
    <3>3. CASE i = Len(r) + 1
      BY <1>5, <1>8, <3>3
    <3> QED
      BY <1>5, <3>1, <3>2, <3>3
  <2>2. Len(r \o w) - 1 = Len(r) + 1 /\ (r \o w)[Len(r \o w)].part = "payload"
    BY <1>5, <1>8
  <2> QED
    BY <1>7, <2>1, <2>2 DEF FramesPaired
<1>12. PayloadNext'
  <2> SUFFICES ASSUME call.pc = "payload"
               PROVE  (r \o w)[1].part = "payload" /\ (r \o w)[1].id = request_id /\ r \o w # <<>>
    BY <1>2, <1>7 DEF PayloadNext
  <2>1. r # <<>> /\ r[1].part = "payload" /\ r[1].id = request_id
    BY <1>2, <1>8 DEF PipeInv, PayloadNext
  <2>2. Len(r) >= 1
    BY <1>3, <2>1
  <2> QED
    BY <1>5, <2>1, <2>2
<1> QED
  BY <1>9, <1>10, <1>11, <1>12 DEF PipeInv

(* A process that dies leaves its pipe in order, perhaps with a lone header. *)
LEMMA CrashOrder ==
    ASSUME ScoreTypeOK, PipeInv, Crash
    PROVE  PipeInv'
<1> DEFINE q == child.requests
           r == child.responses
           w == Append(r, Response(Head(q), None)[1])
<1>1. r \in Seq(Frames) /\ q \in Seq(Requests) /\ request_id \in Nat
  BY PipeTypes
<1>2. child.state = "up" /\ UNCHANGED <<request_id, call>>
  BY CrashEffect
<1>3. CASE child' = [state |-> "dead", requests |-> <<>>, responses |-> r]
  <2>1. child'.state = "dead" /\ child'.requests = <<>> /\ child'.responses = child.responses
    BY <1>3
  <2> QED
    BY <1>1, <1>2, <2>1
    DEF PipeInv, RequestsOrdered, ResponsesOrdered, FramesPaired, PayloadNext, Waiting
<1>4. CASE /\ q # <<>> /\ Head(q) \in Requests
           /\ child' = [state |-> "dead", requests |-> <<>>, responses |-> w]
  <2>1. child'.state = "dead" /\ child'.requests = <<>> /\ child'.responses = w
    BY <1>4
  <2>2. /\ Response(Head(q), None)[1] = [part |-> "header", id |-> Head(q).id, graph |-> None]
        /\ Response(Head(q), None)[1] \in Frames /\ Head(q) = q[1] /\ Len(q) >= 1 /\ Len(q) \in Nat
    BY <1>1, <1>4, ResponseTyped, TailFacts
  <2>3. /\ Len(w) = Len(r) + 1 /\ Len(r) \in Nat
        /\ \A i \in 1 .. Len(r) : w[i] = r[i]
        /\ w[Len(r) + 1] = [part |-> "header", id |-> q[1].id, graph |-> None]
    BY <1>1, <2>2
  <2>4. q = child.requests /\ r = child.responses
    OBVIOUS
  <2> HIDE DEF q, r, w
  <2>5. /\ q[1].id <= request_id
        /\ q[1].id = request_id => Len(q) = 1 /\ (Waiting => q[1].graph = call.graph)
    <3>1. 1 \in 1 .. Len(q)
      BY <2>2
    <3> QED
      BY <2>4, <3>1 DEF PipeInv, RequestsOrdered
  <2>6. /\ w[Len(r) + 1].part = "header" /\ w[Len(r) + 1].id = q[1].id
        /\ w[Len(r) + 1].graph = None
    BY <2>3
  <2>7. RequestsOrdered'
    BY <2>1 DEF RequestsOrdered
  <2>8. ResponsesOrdered'
    <3> SUFFICES ASSUME NEW i \in 1 .. Len(r) + 1
                 PROVE  /\ w[i].id <= request_id
                        /\ w[i].id = request_id =>
                             /\ w[i].part = "payload" => i = Len(r) + 1
                             /\ Waiting => w[i].graph \in {None, call.graph}
      BY <1>2, <2>1, <2>3 DEF ResponsesOrdered, Waiting
    <3>1. CASE i \in 1 .. Len(r)
      <4>1. r[i].id <= request_id /\ r[i].id # request_id
        BY <1>4, <2>4, <3>1 DEF PipeInv, ResponsesOrdered
      <4> QED
        BY <2>3, <3>1, <4>1
    <3>2. CASE i = Len(r) + 1
      BY <2>5, <2>6, <3>2
    <3> QED
      BY <2>3, <3>1, <3>2
  <2>9. FramesPaired'
    <3>1. ASSUME NEW i \in 1 .. Len(r), w[i].part = "header"
          PROVE  w[i+1].part = "payload" /\ w[i+1].id = w[i].id
      <4>1. i # Len(r)
        BY <1>2, <2>3, <2>4, <3>1 DEF PipeInv, FramesPaired
      <4> QED
        BY <2>3, <2>4, <3>1, <4>1, SMTT(30) DEF PipeInv, FramesPaired
    <3> QED
      BY <2>1, <2>3, <3>1 DEF FramesPaired
  <2>10. PayloadNext'
    <3> SUFFICES ASSUME call.pc = "payload"
                 PROVE  w[1].part = "payload" /\ w[1].id = request_id /\ w # <<>>
      BY <1>2, <2>1 DEF PayloadNext
    <3>1. r # <<>> /\ r[1].part = "payload" /\ r[1].id = request_id
      BY <1>2, <2>4 DEF PipeInv, PayloadNext
    <3>2. Len(r) >= 1
      BY <1>1, <3>1
    <3> QED
      BY <2>3, <3>1, <3>2
  <2> QED
    BY <2>7, <2>8, <2>9, <2>10 DEF PipeInv
<1> QED
  BY <1>3, <1>4, CrashEffect

(* Every step keeps the pipes in order.                                    *)
LEMMA PipeNext == ScoreTypeOK /\ PipeInv /\ [Next]_vars => PipeInv'
<1> SUFFICES ASSUME ScoreTypeOK, PipeInv, [Next]_vars PROVE PipeInv'
  OBVIOUS
<1>1. ASSUME NEW g \in Graphs, Call(g) PROVE PipeInv'
  <2>1. \/ Raises(g, 1)
        \/ Request(child, g, 1) \/ Request(Spawned, g, 1)
    BY <1>1 DEF Call
  <2> QED
    BY <2>1, RaisesOrder, RequestOrder
<1>2. ASSUME NEW g \in Graphs, CallUnstartable(g) PROVE PipeInv'
  BY <1>2, RaisesOrder DEF CallUnstartable
<1>3. CASE Restart
  <2>1. Request(Spawned, call.graph, 2) /\ call.graph \in Graphs
    BY <1>3 DEF Restart, Restarted, ScoreTypeOK
  <2> QED
    BY <2>1, RequestOrder
<1>4. CASE RestartUnstartable \/ Timeout \/ Eof
  <2>1. Raises(call.graph, 2) \/ Raises(call.graph, call.attempt)
    BY <1>4 DEF RestartUnstartable, Timeout, Eof
  <2> QED
    BY <2>1, RaisesOrder
<1>5. CASE ReadHeader \/ ReadPayload \/ Interrupt
  BY <1>5, ReadOrder
<1>6. CASE Serve \/ ServeError
  BY <1>6, ServeOrder
<1>7. CASE Crash
  BY <1>7, CrashOrder
<1>8. CASE UNCHANGED vars
  BY <1>8 DEF vars, PipeInv, RequestsOrdered, ResponsesOrdered, FramesPaired, PayloadNext, Waiting
<1> QED
  BY <1>1, <1>2, <1>3, <1>4, <1>5, <1>6, <1>7, <1>8 DEF Next

-----------------------------------------------------------------------------
(* The faults.                                                             *)

(* A call begins on empty pipes unless something went wrong since the last *)
(* one that ended, and a restart always does.                              *)
LEMMA RequestCounted ==
    ASSUME ScoreTypeOK, NEW g \in Graphs, NEW n \in 1 .. 2, faults' \in Nat,
           \/ Request(Spawned, g, n)
           \/ /\ Request(child, g, n) /\ child.state = "up"
              /\ faults' = n - 1 => child.requests = <<>> /\ child.responses = <<>>,
           faults' >= n - 1
    PROVE  FaultsCounted' /\ AnswerIsForRequest' /\ OneFaultAbsorbed'
<1>1. /\ request_id' = request_id + 1 /\ call'.pc = "header" /\ call'.graph = g /\ call'.attempt = n
  BY DEF Request
<1>2. ASSUME faults' = n - 1 PROVE Undisturbed'
  <2>1. PICK process \in {child, Spawned} :
          /\ child' = Sent(process, request_id + 1, g) /\ process.state = "up"
          /\ process.requests = <<>> /\ process.responses = <<>>
    BY <1>2, SpawnedTyped DEF Request
  <2>2. process \in Processes /\ request_id + 1 \in Nat
    BY SpawnedTyped DEF ScoreTypeOK
  <2>3. child' = [state |-> "up", responses |-> <<>>,
                  requests |-> Append(<<>>, [id |-> request_id + 1, graph |-> g])]
    BY <2>1, <2>2, SentTyped
  <2>4. Append(<<>>, [id |-> request_id + 1, graph |-> g]) = <<[id |-> request_id + 1, graph |-> g]>>
    OBVIOUS
  <2> QED
    BY <1>1, <2>3, <2>4 DEF Undisturbed
<1> QED
  BY <1>1, <1>2 DEF FaultsCounted, Waiting, AnswerIsForRequest, OneFaultAbsorbed

(* An attempt that raises has met a fault of its own.                      *)
LEMMA RaisesCounted ==
    ASSUME ScoreTypeOK, NEW g, NEW n \in 1 .. 2, faults' \in Nat, faults' >= n, Raises(g, n)
    PROVE  FaultsCounted' /\ AnswerIsForRequest' /\ OneFaultAbsorbed'
<1>1. CASE n = 1
  BY <1>1 DEF Raises, FaultsCounted, Waiting, AnswerIsForRequest, OneFaultAbsorbed
<1>2. CASE n = 2
  BY <1>2, SpawnedTyped DEF Raises, FaultsCounted, Waiting, AnswerIsForRequest, OneFaultAbsorbed
<1> QED
  BY <1>1, <1>2

(* An attempt that no fault disturbed does not raise.                      *)
LEMMA DisturbedCounted ==
    ASSUME ScoreTypeOK, FaultsCounted, Waiting, ~Undisturbed, UNCHANGED faults,
           Raises(call.graph, call.attempt)
    PROVE  FaultsCounted' /\ AnswerIsForRequest' /\ OneFaultAbsorbed'
<1>1. call.attempt \in 1 .. 2 /\ faults' \in Nat /\ faults' >= call.attempt
  BY DEF FaultsCounted, ScoreTypeOK
<1> QED
  BY <1>1, RaisesCounted

(* A fault that the call has not noticed yet counts against its attempt.   *)
LEMMA FaultyCounted ==
    ASSUME ScoreTypeOK, FaultsCounted, AnswerIsForRequest, OneFaultAbsorbed, Faulty, UNCHANGED call,
           child'.state # "up" \/ (child.state = "up" /\ child.requests # <<>>)
    PROVE  FaultsCounted' /\ AnswerIsForRequest' /\ OneFaultAbsorbed'
<1>1. faults' = faults + 1 /\ faults \in Nat
  BY DEF Faulty, ScoreTypeOK
<1>2. Waiting' = Waiting
  BY DEF Waiting
<1>3. AnswerIsForRequest' /\ OneFaultAbsorbed'
  BY <1>1 DEF AnswerIsForRequest, OneFaultAbsorbed
<1>4. call.attempt \in 0 .. 2
  BY DEF ScoreTypeOK
<1> QED
  BY <1>1, <1>2, <1>3, <1>4 DEF FaultsCounted

(* The answer of an undisturbed request, step by step through the pipes.   *)
LEMMA HeaderCounted ==
    ASSUME ScoreTypeOK, FaultsCounted, ReadHeader
    PROVE  FaultsCounted' /\ AnswerIsForRequest' /\ OneFaultAbsorbed'
<1>1. Waiting /\ UNCHANGED faults /\ call.pc = "header" /\ child.responses # <<>>
  BY ReadHeaderEffect DEF Waiting
<1>2. CASE Raises(call.graph, call.attempt) /\ ~HeaderAccepted(Head(child.responses))
  <2>1. ~Undisturbed
    BY <1>1, <1>2 DEF Undisturbed, HeaderAccepted, Response
  <2> QED
    BY <1>1, <1>2, <2>1, DisturbedCounted
<1>3. CASE /\ UNCHANGED request_id
           /\ child' = [state |-> child.state, requests |-> child.requests,
                        responses |-> Tail(child.responses)]
           /\ call' = [pc |-> "payload", graph |-> call.graph, attempt |-> call.attempt,
                       result |-> call.result]
  <2>1. ASSUME Undisturbed PROVE Undisturbed'
    <3> DEFINE w == Response([id |-> request_id, graph |-> call.graph], call.graph)
    <3>1. child.state = "up" /\ child.requests = <<>> /\ child.responses = w
      BY <1>1, <2>1 DEF Undisturbed
    <3>2. Tail(w) = <<w[2]>>
      BY DEF Response
    <3>3. child'.state = "up" /\ child'.requests = <<>> /\ child'.responses = <<w[2]>>
      BY <1>3, <3>1, <3>2
    <3>4. call'.pc = "payload" /\ request_id' = request_id /\ call'.graph = call.graph
      BY <1>3
    <3> QED
      BY <3>3, <3>4 DEF Undisturbed, Response
  <2>2. call'.pc = "payload" /\ call'.attempt = call.attempt
    BY <1>3
  <2> QED
    BY <1>1, <2>1, <2>2 DEF FaultsCounted, Waiting, AnswerIsForRequest, OneFaultAbsorbed
<1> QED
  BY <1>2, <1>3, ReadHeaderEffect

(* The payload is the last frame, and of the graph of the call.            *)
LEMMA PayloadCounted ==
    ASSUME ScoreTypeOK, PipeInv, FaultsCounted, ReadPayload
    PROVE  FaultsCounted' /\ AnswerIsForRequest' /\ OneFaultAbsorbed'
<1>1. Waiting /\ UNCHANGED faults /\ call.pc = "payload" /\ child.responses # <<>>
  BY ReadPayloadEffect DEF Waiting
<1>2. CASE Raises(call.graph, call.attempt) /\ Head(child.responses).graph = None
  <2>1. ~Undisturbed
    BY <1>1, <1>2, GraphsAssumption DEF Undisturbed, ScoreTypeOK, Response
  <2> QED
    BY <1>1, <1>2, <2>1, DisturbedCounted
<1>3. CASE /\ Head(child.responses).graph # None
           /\ child' = [state |-> child.state, requests |-> child.requests,
                        responses |-> Tail(child.responses)]
           /\ call' = [pc |-> "done", graph |-> call.graph, attempt |-> call.attempt,
                       result |-> Head(child.responses).graph]
  <2> DEFINE r == child.responses
  <2>1. /\ Len(r) \in Nat /\ Len(r) >= 1 /\ Tail(r) = <<>> <=> Len(r) = 1
        /\ Head(r) = r[1]
    BY <1>1, PipeTypes, TailFacts
  <2>2. r[1].part = "payload" /\ r[1].id = request_id
    BY <1>1 DEF PipeInv, PayloadNext
  <2>3. child.requests = <<>> /\ 1 = Len(r) /\ r[1].graph \in {None, call.graph}
    BY <1>1, <2>1, <2>2 DEF PipeInv, ResponsesOrdered
  <2>4. child'.requests = <<>> /\ child'.responses = <<>>
    BY <1>3, <2>1, <2>3
  <2>5. call'.pc = "done" /\ call'.result = call'.graph
    BY <1>3, <2>1, <2>3
  <2> QED
    BY <2>4, <2>5 DEF FaultsCounted, Waiting, AnswerIsForRequest, OneFaultAbsorbed
<1> QED
  BY <1>2, <1>3, ReadPayloadEffect

(* An answer keeps an undisturbed request undisturbed.                     *)
LEMMA ServeCounted ==
    ASSUME ScoreTypeOK, FaultsCounted, AnswerIsForRequest, OneFaultAbsorbed, Serve \/ ServeError
    PROVE  FaultsCounted' /\ AnswerIsForRequest' /\ OneFaultAbsorbed'
<1> DEFINE q == child.requests
<1>1. /\ child.state = "up" /\ q # <<>> /\ Head(q) \in Requests
      /\ UNCHANGED <<request_id, call>>
  BY ServeEffect
<1>2. CASE Faulty
  BY <1>1, <1>2, FaultyCounted
<1>3. CASE /\ UNCHANGED faults
           /\ child' = [state |-> child.state, requests |-> Tail(q),
                        responses |-> child.responses \o Response(Head(q), Head(q).graph)]
  <2>1. ASSUME Undisturbed PROVE Undisturbed'
    <3>1. /\ q = <<[id |-> request_id, graph |-> call.graph]>> /\ child.responses = <<>>
          /\ call.pc = "header"
      BY <1>1, <2>1 DEF Undisturbed
    <3>2. Head(q) = [id |-> request_id, graph |-> call.graph] /\ Tail(q) = <<>>
      BY <3>1
    <3> DEFINE w == Response([id |-> request_id, graph |-> call.graph], call.graph)
    <3>3. <<>> \o w = w
      BY DEF Response
    <3>4. Head(q).graph = call.graph
      BY <3>2
    <3>5. child' = [state |-> "up", requests |-> <<>>, responses |-> w]
      BY <1>1, <1>3, <3>1, <3>2, <3>3, <3>4
    <3> QED
      BY <1>1, <3>1, <3>5 DEF Undisturbed
  <2>2. call.pc \notin {"done", "failed"}
    BY <1>1 DEF FaultsCounted
  <2> QED
    BY <1>1, <1>3, <2>1, <2>2 DEF FaultsCounted, Waiting, AnswerIsForRequest, OneFaultAbsorbed
<1> QED
  BY <1>2, <1>3, ServeEffect

(* The whole invariant, at the start and after each step.                  *)
LEMMA ScoreInvInit == Init => ScoreInv
<1> SUFFICES ASSUME Init PROVE ScoreInv
  OBVIOUS
<1>1. /\ child.requests = <<>> /\ child.responses = <<>> /\ child.state = "none"
      /\ call.pc = "done" /\ call.result = None
  BY SpawnedTyped DEF Init
<1> QED
  BY <1>1, ScoreTypeInit
  DEF ScoreInv, PipeInv, RequestsOrdered, ResponsesOrdered, FramesPaired, PayloadNext, FaultsCounted,
      Waiting, AnswerIsForRequest, OneFaultAbsorbed

(* Every step keeps the account of faults and both properties.             *)
LEMMA FaultsNext ==
    ASSUME ScoreInv, [Next]_vars
    PROVE  FaultsCounted' /\ AnswerIsForRequest' /\ OneFaultAbsorbed'
<1> USE DEF ScoreInv
<1>1. ASSUME NEW g \in Graphs, Call(g) PROVE FaultsCounted' /\ AnswerIsForRequest' /\ OneFaultAbsorbed'
  <2>1. /\ Returned /\ faults \in Nat
        /\ faults' = IF call.pc = "interrupted" THEN faults ELSE IF child.state = "dead" THEN 1 ELSE 0
    BY <1>1 DEF Call, ScoreTypeOK
  <2>2. call.pc = "interrupted" => faults >= 1
    BY DEF FaultsCounted
  <2>3. CASE child.state = "dead"
    <3>1. Raises(g, 1) /\ faults' \in Nat /\ faults' >= 1
      BY <1>1, <2>1, <2>2, <2>3 DEF Call
    <3> QED
      BY <3>1, RaisesCounted
  <2>4. CASE child.state = "none"
    <3>1. Request(Spawned, g, 1) /\ faults' \in Nat /\ faults' >= 1 - 1
      BY <1>1, <2>1, <2>2, <2>4 DEF Call
    <3> QED
      BY <3>1, RequestCounted
  <2>5. CASE child.state = "up"
    <3>1. Request(child, g, 1) /\ faults' \in Nat /\ faults' >= 1 - 1
      BY <1>1, <2>1, <2>2, <2>5 DEF Call
    <3>2. faults' = 1 - 1 => child.requests = <<>> /\ child.responses = <<>>
      BY <2>1, <2>2, <2>5 DEF FaultsCounted, Returned
    <3> QED
      BY <2>5, <3>1, <3>2, RequestCounted
  <2> QED
    BY <2>3, <2>4, <2>5 DEF ScoreTypeOK, Processes
<1>2. ASSUME NEW g \in Graphs, CallUnstartable(g)
      PROVE  FaultsCounted' /\ AnswerIsForRequest' /\ OneFaultAbsorbed'
  BY <1>2, RaisesCounted DEF CallUnstartable
<1>3. CASE Restart
  <2>1. /\ Request(Spawned, call.graph, 2) /\ call.graph \in Graphs
        /\ faults' \in Nat /\ faults' >= 2 - 1
    BY <1>3 DEF Restart, Restarted, Faultless, FaultsCounted, ScoreTypeOK
  <2> QED
    BY <2>1, RequestCounted
<1>4. CASE RestartUnstartable
  <2>1. faults \in Nat /\ faults >= 1 /\ faults' = faults + 1 /\ Raises(call.graph, 2)
    BY <1>4 DEF RestartUnstartable, Faulty, FaultsCounted, ScoreTypeOK
  <2> QED
    BY <2>1, RaisesCounted
<1>5. CASE Timeout
  <2>1. /\ Raises(call.graph, call.attempt) /\ call.attempt \in 1 .. 2
        /\ faults \in Nat /\ faults >= call.attempt - 1 /\ faults' = faults + 1
    BY <1>5 DEF Timeout, Faulty, FaultsCounted, ScoreTypeOK
  <2>2. faults' \in Nat /\ faults' >= call.attempt
    BY <2>1
  <2> QED
    BY <2>1, <2>2, RaisesCounted
<1>6. CASE Eof
  <2>1. Waiting /\ ~Undisturbed /\ UNCHANGED faults /\ Raises(call.graph, call.attempt)
    BY <1>6 DEF Eof, Faultless, Undisturbed
  <2> QED
    BY <2>1, DisturbedCounted
<1>7. CASE ReadHeader
  BY <1>7, HeaderCounted
<1>8. CASE ReadPayload
  BY <1>8, PayloadCounted
<1>9. CASE Interrupt
  <2>1. call'.pc = "interrupted" /\ faults' >= 1
    BY <1>9, InterruptEffect DEF Faulty, ScoreTypeOK
  <2> QED
    BY <2>1 DEF FaultsCounted, Waiting, AnswerIsForRequest, OneFaultAbsorbed
<1>10. CASE Serve \/ ServeError
  BY <1>10, ServeCounted
<1>11. CASE Crash
  <2>1. child'.state = "dead" /\ Faulty /\ UNCHANGED call
    BY <1>11, CrashEffect
  <2>2. child'.state # "up" \/ (child.state = "up" /\ child.requests # <<>>)
    BY <2>1
  <2> QED
    BY <2>1, <2>2, FaultyCounted
<1>12. CASE UNCHANGED vars
  BY <1>12 DEF vars, FaultsCounted, Undisturbed, Waiting, AnswerIsForRequest, OneFaultAbsorbed
<1> QED
  BY <1>1, <1>2, <1>3, <1>4, <1>5, <1>6, <1>7, <1>8, <1>9, <1>10, <1>11, <1>12 DEF Next

(* The invariant holds in every reachable state.                           *)
THEOREM ScoreInvariant == Spec => []ScoreInv
<1>1. ScoreInv /\ [Next]_vars => ScoreInv'
  BY ScoreTypeNext, PipeNext, FaultsNext DEF ScoreInv
<1> QED
  BY <1>1, ScoreInvInit, PTL DEF Spec

(* A call of _cpp_score that returns has the counts of its own graph, for  *)
(* any number of graphs, calls, faults and late answers.                   *)
THEOREM AnswersOwnRequest == Spec => []AnswerIsForRequest
<1>1. ScoreInv => AnswerIsForRequest
  BY DEF ScoreInv
<1> QED
  BY <1>1, ScoreInvariant, PTL

(* A call fails only after two faults: the one restart absorbs any one.    *)
THEOREM RestartAbsorbs == Spec => []OneFaultAbsorbed
<1>1. ScoreInv => OneFaultAbsorbed
  BY DEF ScoreInv
<1> QED
  BY <1>1, ScoreInvariant, PTL

-----------------------------------------------------------------------------
(***************************************************************************)
(* The archive of a run                                                    *)
(***************************************************************************)

(* The candidates have ordering keys up to some number, and the archive    *)
(* has room for two: SearchConfig also admits an archive_top_k of one, and *)
(* then a crash after an eviction and before the write loses the record.   *)
KeysBounded == Keys # {} /\ (\E bound \in Nat : Keys \subseteq 0 .. bound) /\ TopK \in Nat /\ TopK >= 2

(* Every variable has its type.                                            *)
RunTypeOK ==
    /\ pc \in {"loop", "unlink", "write", "commit", "hash", "status", "raised", "ended",
               "crashed", "refused"}
    /\ archive \subseteq Keys /\ best \subseteq Keys
    /\ pc \in {"unlink", "write", "commit"} => incoming \in Keys
    /\ record \in Nat

(* The files are the archive, while a process has one in memory, except    *)
(* for the evicted candidate between its two removals.                     *)
FilesAreArchive ==
    pc \notin {"crashed", "refused"} =>
        IF pc = "unlink" THEN archive \subseteq best ELSE archive = best

(* The archive in memory holds a candidate as good as the best one.        *)
RecordInArchive ==
    pc \notin {"crashed", "refused"} /\ record <= Max(Keys) => \E key \in archive : key <= record

RunInv == RunTypeOK /\ FilesAreArchive /\ RecordInArchive /\ RecordOnDisk

-----------------------------------------------------------------------------
(* A set of numbers that is not empty has a least one, and a bounded one   *)
(* has a greatest one.                                                     *)
LEMMA LeastExists ==
    ASSUME NEW S \in SUBSET Nat, S # {}
    PROVE  \E x \in S : \A y \in S : x <= y
<1>1. PICK x \in S : \A y \in S : ~(<<y, x>> \in OpToRel(<, Nat))
  BY NatLessThanWellFounded, WFMin
<1>2. \A y \in S : ~(y < x)
  BY <1>1 DEF OpToRel
<1> QED
  BY <1>2

(* A nonempty set of bounded naturals has a greatest element.              *)
LEMMA GreatestExists ==
    ASSUME NEW S, NEW bound \in Nat, S \subseteq 0 .. bound, S # {}
    PROVE  \E x \in S : \A y \in S : x >= y
<1> DEFINE T == {bound - x : x \in S}
<1>1. \A x \in S : bound - x \in Nat
  OBVIOUS
<1>0. T \in SUBSET Nat /\ T # {}
  <2>1. PICK x \in S : TRUE
    OBVIOUS
  <2>2. bound - x \in T
    BY <2>1
  <2> QED
    BY <1>1, <2>2
<1>2. PICK t \in T : \A u \in T : t <= u
  BY <1>0, LeastExists
<1>3. PICK x \in S : t = bound - x
  OBVIOUS
<1>4. \A y \in S : bound - x <= bound - y
  BY <1>2, <1>3
<1> QED
  BY <1>4

(* Max and Min of such sets.                                               *)
LEMMA MaxIsGreatest ==
    ASSUME KeysBounded, NEW S \in SUBSET Keys, S # {}
    PROVE  Max(S) \in S /\ \A y \in S : Max(S) >= y
<1>1. PICK bound \in Nat : Keys \subseteq 0 .. bound
  BY DEF KeysBounded
<1>2. \E x \in S : \A y \in S : x >= y
  BY <1>1, GreatestExists
<1> QED
  BY <1>2 DEF Max

(* The smaller of two numbers is one of them.                              *)
LEMMA MinOfTwo ==
    ASSUME NEW a \in Nat, NEW b \in Nat
    PROVE  Min({a, b}) = IF a <= b THEN a ELSE b
<1>1. PICK x \in {a, b} : x = IF a <= b THEN a ELSE b
  OBVIOUS
<1>2. \A y \in {a, b} : x <= y
  BY <1>1
<1>3. Min({a, b}) \in {a, b} /\ \A y \in {a, b} : Min({a, b}) <= y
  BY <1>2 DEF Min
<1> QED
  BY <1>3

(* A full archive holds a second candidate beside its worst one.           *)
LEMMA EvictionKeepsOne ==
    ASSUME KeysBounded, NEW S \in SUBSET Keys, ~(Cardinality(S) < TopK)
    PROVE  S # {} /\ S \ {Max(S)} # {}
<1>1. PICK bound \in Nat : Keys \subseteq 0 .. bound
  BY DEF KeysBounded
<1>2. IsFiniteSet(S) /\ Cardinality(S) \in Nat
  <2>1. IsFiniteSet(0 .. bound)
    BY FS_Interval
  <2>2. S \subseteq 0 .. bound
    BY <1>1
  <2> QED
    BY <2>1, <2>2, FS_Subset, FS_CardinalityType
<1>3. Cardinality(S) >= 2
  BY <1>2 DEF KeysBounded
<1>4. S # {}
  BY <1>2, <1>3, FS_EmptySet
<1>5. Max(S) \in S
  BY <1>4, MaxIsGreatest
<1>6. IsFiniteSet(S \ {Max(S)}) /\ Cardinality(S \ {Max(S)}) = Cardinality(S) - 1
  BY <1>2, <1>5, FS_RemoveElement
<1>7. S \ {Max(S)} # {}
  BY <1>2, <1>3, <1>6, FS_EmptySet
<1> QED
  BY <1>4, <1>7

-----------------------------------------------------------------------------
(* The invariant at the start: nothing is archived, and the record is      *)
(* beyond every key.                                                       *)
LEMMA RunInvInit == ASSUME KeysBounded, RunInit PROVE RunInv
<1>1. PICK bound \in Nat : Keys \subseteq 0 .. bound
  BY DEF KeysBounded
<1>2. Max(Keys) \in Nat
  <2>1. Keys \in SUBSET Keys /\ Keys # {}
    BY DEF KeysBounded
  <2>2. Max(Keys) \in Keys
    BY <2>1, MaxIsGreatest
  <2>3. Keys \subseteq Nat
    BY <1>1
  <2> QED
    BY <2>2, <2>3
<1> QED
  BY <1>2 DEF RunInit, RunInv, RunTypeOK, FilesAreArchive, RecordInArchive, RecordOnDisk

(* An improvement evicts the worst candidate, never the best.              *)
LEMMA ImprovementKeeps ==
    ASSUME KeysBounded, RunInv, NEW key \in Keys, Improvement(key)
    PROVE  RunInv'
<1>1. CASE Cardinality(archive) < TopK
  BY <1>1 DEF Improvement, RunInv, RunTypeOK, FilesAreArchive, RecordInArchive, RecordOnDisk
<1>2. CASE ~(Cardinality(archive) < TopK)
  <2>1. /\ pc = "loop" /\ pc' = "unlink" /\ archive' = archive \ {Max(archive)}
        /\ incoming' = key /\ UNCHANGED <<best, record>>
    BY <1>2 DEF Improvement, Worst
  <2>2. archive # {} /\ archive \ {Max(archive)} # {} /\ archive \subseteq Keys
    BY <1>2, EvictionKeepsOne DEF RunInv, RunTypeOK
  <2>3. Keys \subseteq Nat
    BY DEF KeysBounded
  <2>4. ASSUME record <= Max(Keys) PROVE \E k \in archive \ {Max(archive)} : k <= record
    <3>1. PICK k \in archive : k <= record
      BY <2>1, <2>4 DEF RunInv, RecordInArchive
    <3>2. PICK other \in archive \ {Max(archive)} : TRUE
      BY <2>2
    <3>3. other <= Max(archive) /\ Max(archive) \in archive
      BY <2>2, <3>2, MaxIsGreatest
    <3>4. record \in Nat /\ other \in Nat /\ Max(archive) \in Nat
      BY <2>2, <2>3, <3>3 DEF RunInv, RunTypeOK
    <3> QED
      BY <3>1, <3>2, <3>3, <3>4
  <2> QED
    BY <2>1, <2>2, <2>4 DEF RunInv, RunTypeOK, FilesAreArchive, RecordInArchive, RecordOnDisk
<1> QED
  BY <1>1, <1>2

(* The new candidate's files are written before it becomes the record.     *)
LEMMA WriteKeeps ==
    ASSUME KeysBounded, RunInv, WriteCandidate
    PROVE  RunInv'
<1>1. /\ incoming \in Keys /\ record \in Nat /\ incoming \in Nat /\ archive = best
      /\ archive' = archive \cup {incoming} /\ best' = archive' /\ pc' = "commit"
      /\ UNCHANGED incoming /\ record' = Min({record, incoming})
  <2>1. Keys \subseteq Nat
    BY DEF KeysBounded
  <2>2. pc = "write" /\ incoming \in Keys /\ record \in Nat /\ archive = best
    BY DEF WriteCandidate, RunInv, RunTypeOK, FilesAreArchive
  <2> QED
    BY <2>1, <2>2 DEF WriteCandidate
<1>2. record' = IF record <= incoming THEN record ELSE incoming
  BY <1>1, MinOfTwo
<1>3. ASSUME record' <= Max(Keys) PROVE \E k \in archive' : k <= record'
  <2>1. CASE record' = incoming
    BY <1>1, <2>1
  <2>2. CASE record' = record
    BY <1>1, <1>3, <2>2 DEF RunInv, RecordInArchive, WriteCandidate
  <2> QED
    BY <1>2, <2>1, <2>2
<1>4. RunTypeOK'
  BY <1>1, <1>2 DEF RunInv, RunTypeOK
<1> QED
  BY <1>1, <1>3, <1>4 DEF RunInv, FilesAreArchive, RecordInArchive, RecordOnDisk

(* Every step keeps the invariant.                                         *)
LEMMA RunInvNext == ASSUME KeysBounded, RunInv, [RunNext]_runVars PROVE RunInv'
<1> USE DEF RunInv, RunTypeOK, FilesAreArchive, RecordInArchive, RecordOnDisk
<1>1. ASSUME NEW key \in Keys, Improvement(key) PROVE RunInv'
  BY <1>1, ImprovementKeeps
<1>2. CASE UnlinkFiles
  BY <1>2 DEF UnlinkFiles
<1>3. CASE WriteCandidate
  BY <1>3, WriteKeeps
<1>4. CASE Commit
  BY <1>4 DEF Commit
<1>5. CASE CheckpointReceived \/ WriteCheckpoint \/ WriteHash
  BY <1>5 DEF CheckpointReceived, WriteCheckpoint, WriteHash
<1>6. CASE VerifyFinalist
  BY <1>6 DEF VerifyFinalist
<1>7. ASSUME NEW final, SetRunStatus(final) PROVE RunInv'
  BY <1>7 DEF SetRunStatus
<1>8. CASE RunCrashes
  BY <1>8 DEF RunCrashes
<1>9. CASE RunResumes
  BY <1>9 DEF RunResumes
<1>10. CASE UNCHANGED runVars
  BY <1>10 DEF runVars
<1> QED
  BY <1>1, <1>2, <1>3, <1>4, <1>5, <1>6, <1>7, <1>8, <1>9, <1>10 DEF RunNext

(* The best candidate ever archived stays in best/, whatever is evicted    *)
(* and wherever the run restarts and is resumed.                            *)
THEOREM RecordKept == ASSUME KeysBounded PROVE RunSpec => []RecordOnDisk
<1>1. RunInv /\ [RunNext]_runVars => RunInv'
  BY RunInvNext
<1>2. RunInit => RunInv
  BY RunInvInit
<1>3. RunInv => RecordOnDisk
  BY DEF RunInv
<1> QED
  BY <1>1, <1>2, <1>3, PTL DEF RunSpec

-----------------------------------------------------------------------------
(***************************************************************************)
(* The master and its workers                                              *)
(***************************************************************************)

(* What a worker reports while it runs; every other message is its last.   *)
Reports == {"metrics", "checkpoint", "improvement"}
Kinds == Reports \cup {"stopped", "budget", "recycle", "memory", "score_worker", "failure"}
Messages == [worker : Workers, kind : Kinds, value : Nat]

WorkerProcesses ==
    [state : {"start", "run", "dead"}, code : {0, 1, 78}, evaluated : Nat, lifetime : Nat]

(* A checkpoint that may be missing.                                       *)
Checkpoints == {{}} \cup {{n} : n \in Nat}

MasterFields ==
    {"pc", "message", "checkpoints", "counted", "metrics", "exited", "reasons", "failures",
     "flags", "status"}

(* The types; what the master counts is left out.                          *)
SearchTypeOK ==
    /\ procs \in [Workers -> WorkerProcesses]
    /\ queue \in Seq(Messages) /\ Len(queue) <= Capacity
    /\ DOMAIN m = MasterFields
    /\ m.pc \in {"get", "body", "finish", "ended"}
    /\ m.exited \subseteq Workers
    /\ m.checkpoints \in [Workers -> Checkpoints]

(* A last message of w is in the queue.                                    *)
Tells(q, w) == \E i \in 1 .. Len(q) : q[i].worker = w /\ q[i].kind \notin Reports

(* A worker that ended normally has told the master, is about to, or lost  *)
(* its message to a full queue.                                            *)
ExitsAccounted ==
    m.pc \in {"get", "body"} =>
        \A w \in Workers :
            procs[w].state = "dead" /\ procs[w].code = 0 =>
                w \in m.exited \/ w \in lost \/ Tells(queue, w)

SearchInv == SearchTypeOK /\ ExitsAccounted

-----------------------------------------------------------------------------
(* _put: what is in the queue stays, and a message that fits is appended.  *)
LEMMA PutFacts ==
    ASSUME NEW S, NEW q \in Seq(S), NEW s \in Seq(S), Len(q) <= Capacity
    PROVE  /\ Put(q, s) \in Seq(S)
           /\ Len(Put(q, s)) <= Capacity /\ Len(q) <= Len(Put(q, s))
           /\ \A i \in 1 .. Len(q) : Put(q, s)[i] = q[i]
           /\ Fits(q, s) => Put(q, s) = q \o s
<1> DEFINE n == IF Capacity <= Len(q) + Len(s) THEN Capacity ELSE Len(q) + Len(s)
<1>1. Len(q) \in Nat /\ Len(s) \in Nat /\ Capacity \in Nat
  BY LenProperties, QueueAssumption
<1>2. Min({Capacity, Len(q) + Len(s)}) = n
  <2>1. Len(q) + Len(s) \in Nat
    BY <1>1
  <2> QED
    BY <1>1, <2>1, MinOfTwo
<1>3. /\ q \o s \in Seq(S) /\ Len(q \o s) = Len(q) + Len(s)
      /\ \A i \in 1 .. Len(q) + Len(s) : (q \o s)[i] = IF i <= Len(q) THEN q[i] ELSE s[i - Len(q)]
  BY ConcatProperties
<1>4. n \in Nat /\ n <= Len(q) + Len(s) /\ n <= Capacity /\ Len(q) <= n
  BY <1>1
<1>5. \A i \in 1 .. n : (q \o s)[i] \in S
  BY <1>1, <1>3, <1>4, ElementOfSeq
<1>6. Put(q, s) = SubSeq(q \o s, 1, n)
  BY <1>2 DEF Put
<1> HIDE DEF n
<1>7. /\ Put(q, s) \in Seq(S) /\ Len(Put(q, s)) = n
      /\ \A i \in 1 .. n : Put(q, s)[i] = (q \o s)[i]
  BY <1>4, <1>5, <1>6, SubSeqProperties, Z3
<1>8. \A i \in 1 .. Len(q) : Put(q, s)[i] = q[i]
  BY <1>1, <1>3, <1>4, <1>7
<1>9. ASSUME Fits(q, s) PROVE Put(q, s) = q \o s
  <2>1. n = Len(q \o s)
    BY <1>1, <1>3, <1>9 DEF Fits, n
  <2> QED
    BY <1>3, <1>6, <2>1, SubSeqFull
<1> QED
  BY <1>4, <1>7, <1>8, <1>9

(* What was told is told after more messages were put.                     *)
LEMMA TellsKept ==
    ASSUME NEW q \in Seq(Messages), NEW s \in Seq(Messages), Len(q) <= Capacity, NEW w, Tells(q, w)
    PROVE  Tells(Put(q, s), w)
<1>1. PICK i \in 1 .. Len(q) : q[i].worker = w /\ q[i].kind \notin Reports
  BY DEF Tells
<1>2. /\ Put(q, s) \in Seq(Messages) /\ Len(q) <= Len(Put(q, s)) /\ Put(q, s)[i] = q[i]
  BY PutFacts
<1>3. i \in 1 .. Len(Put(q, s))
  BY <1>2, LenProperties
<1> QED
  BY <1>1, <1>2, <1>3 DEF Tells

(* A last message that fits is told.                                       *)
LEMMA LastTells ==
    ASSUME NEW q \in Seq(Messages), NEW s \in Seq(Messages), Len(q) <= Capacity, s # <<>>,
           Fits(q, s), NEW w, s[Len(s)].worker = w, s[Len(s)].kind \notin Reports
    PROVE  Tells(Put(q, s), w)
<1>1. Put(q, s) = q \o s
  BY PutFacts
<1>2. Len(s) \in Nat /\ Len(q) \in Nat /\ Len(s) # 0
  BY LenProperties, EmptySeq
<1>3. Len(q \o s) = Len(q) + Len(s) /\ (q \o s)[Len(q) + Len(s)] = s[Len(s)]
  BY <1>2, ConcatProperties
<1> QED
  BY <1>1, <1>2, <1>3 DEF Tells

(* The messages a worker sends are messages.                               *)
LEMMA MessageTyped ==
    ASSUME NEW w \in Workers, NEW kind \in Kinds, NEW value \in Nat
    PROVE  Message(w, kind, value) \in Messages
BY DEF Message, Messages

(* A worker that a replacement starts has the lifetime of its checkpoint.  *)
LEMMA FreshTyped ==
    ASSUME NEW c \in Checkpoints
    PROVE  Fresh(c) \in WorkerProcesses /\ Fresh(c).state = "start"
<1>1. Lifetime(c) \in Nat
  <2>1. CASE c = {}
    <3>1. {} \cup {0} = {0}
      OBVIOUS
    <3>2. Max({0}) = 0
      BY DEF Max
    <3> QED
      BY <2>1, <3>1, <3>2 DEF Lifetime
  <2>2. ASSUME NEW n \in Nat, c = {n} PROVE Lifetime(c) \in Nat
    <3>1. n \in {n, 0} /\ \A y \in {n, 0} : n >= y
      OBVIOUS
    <3>2. Max({n, 0}) \in {n, 0}
      BY <3>1 DEF Max
    <3>3. c \cup {0} = {n, 0}
      BY <2>2
    <3> QED
      BY <3>2, <3>3 DEF Lifetime
  <2> QED
    BY <2>1, <2>2 DEF Checkpoints
<1> QED
  BY <1>1 DEF Fresh, WorkerProcesses

(* What a step of a worker must do to keep the invariant.                  *)
LEMMA WorkerStepKeeps ==
    ASSUME SearchInv, NEW w \in Workers, NEW s \in Seq(Messages), NEW p \in WorkerProcesses,
           procs' = [procs EXCEPT ![w] = p], queue' = Put(queue, s), m' = m, lost \subseteq lost',
           p.state = "dead" /\ p.code = 0 => w \in lost' \/ Tells(queue', w)
    PROVE  SearchInv'
<1>1. SearchTypeOK'
  BY PutFacts DEF SearchInv, SearchTypeOK
<1>2. ASSUME m'.pc \in {"get", "body"}, NEW v \in Workers, procs'[v].state = "dead", procs'[v].code = 0
      PROVE  v \in m'.exited \/ v \in lost' \/ Tells(queue', v)
  <2>1. CASE v = w
    BY <1>2, <2>1 DEF SearchInv, SearchTypeOK
  <2>2. CASE v # w
    <3>1. v \in m.exited \/ v \in lost \/ Tells(queue, v)
      BY <1>2, <2>2 DEF SearchInv, SearchTypeOK, ExitsAccounted
    <3>2. Tells(queue, v) => Tells(queue', v)
      BY TellsKept DEF SearchInv, SearchTypeOK
    <3> QED
      BY <3>1, <3>2
  <2> QED
    BY <2>1, <2>2
<1>3. ExitsAccounted'
  BY <1>2 DEF ExitsAccounted
<1> QED
  BY <1>1, <1>3 DEF SearchInv

(* A checkpoint message is a message.                                      *)
LEMMA CheckpointMessageTyped ==
    ASSUME NEW w \in Workers, NEW p \in WorkerProcesses
    PROVE  CheckpointMessage(w, p) \in Messages
<1>1. p.lifetime + p.evaluated \in Nat
  BY DEF WorkerProcesses
<1>2. "checkpoint" \in Kinds
  BY DEF Kinds, Reports
<1> QED
  BY <1>1, <1>2, MessageTyped DEF CheckpointMessage

(* A worker starts, evaluates, exits, fails or is killed.                  *)
LEMMA StartsKeeps ==
    ASSUME SearchInv, NEW w \in Workers, WorkerStarts(w)
    PROVE  SearchInv'
<1> DEFINE p == [procs[w] EXCEPT !.state = "run"]
           s == <<CheckpointMessage(w, procs[w]), Message(w, "improvement", 0)>>
<1>1. procs[w] \in WorkerProcesses
  BY DEF SearchInv, SearchTypeOK
<1>2. p \in WorkerProcesses /\ p.state = "run"
  BY <1>1 DEF WorkerProcesses
<1>3. s \in Seq(Messages)
  <2>1. "improvement" \in Kinds
    BY DEF Kinds, Reports
  <2>2. Message(w, "improvement", 0) \in Messages
    BY <2>1, MessageTyped
  <2> QED
    BY <1>1, <2>2, CheckpointMessageTyped
<1>4. procs' = [procs EXCEPT ![w] = p] /\ queue' = Put(queue, s) /\ m' = m /\ lost' = lost
  BY DEF WorkerStarts
<1> HIDE DEF p, s
<1> QED
  BY <1>2, <1>3, <1>4, WorkerStepKeeps

(* An evaluation reports, and ends nobody.                                 *)
LEMMA EvaluateKeeps ==
    ASSUME SearchInv, NEW w \in Workers, NEW what, Evaluate(w, what)
    PROVE  SearchInv'
<1> DEFINE p == [procs[w] EXCEPT !.evaluated = procs[w].evaluated + 1]
           s == Reported(w, p, what)
<1>1. procs[w] \in WorkerProcesses /\ procs[w].state = "run"
  BY DEF SearchInv, SearchTypeOK, Evaluate
<1>2. p \in WorkerProcesses /\ p.state = "run" /\ p.evaluated \in Nat
  BY <1>1 DEF WorkerProcesses
<1>3. procs' = [procs EXCEPT ![w] = p] /\ queue' = Put(queue, s) /\ m' = m /\ lost' = lost
  BY DEF Evaluate
<1>4. s \in Seq(Messages)
  <2> HIDE DEF p
  <2>1. "improvement" \in Kinds /\ "metrics" \in Kinds
    BY DEF Kinds, Reports
  <2>2. Message(w, "improvement", 0) \in Messages /\ Message(w, "metrics", p.evaluated) \in Messages
    BY <1>2, <2>1, MessageTyped
  <2>3. CheckpointMessage(w, p) \in Messages
    BY <1>2, CheckpointMessageTyped
  <2> QED
    BY <2>2, <2>3 DEF Reported
<1> HIDE DEF p, s
<1> QED
  BY <1>2, <1>3, <1>4, WorkerStepKeeps

(* A process that ended keeps its exit code.                               *)
LEMMA EndedTyped ==
    ASSUME NEW code \in {0, 1, 78}
    PROVE  Ended(code) \in WorkerProcesses /\ Ended(code).code = code
BY DEF Ended, WorkerProcesses

(* The end of a worker that sends a last message.                          *)
LEMMA ExitsKeeps ==
    ASSUME SearchInv, NEW w \in Workers, NEW s \in Seq(Messages), NEW code \in {0, 1, 78}, s # <<>>,
           s[Len(s)].worker = w, s[Len(s)].kind \notin Reports, Exits(w, s, code), m' = m
    PROVE  SearchInv'
<1>1. procs' = [procs EXCEPT ![w] = Ended(code)] /\ queue' = Put(queue, s) /\ lost \subseteq lost'
  BY DEF Exits
<1>2. w \in lost' \/ Tells(queue', w)
  <2>1. CASE Fits(queue, s)
    BY <1>1, <2>1, LastTells DEF SearchInv, SearchTypeOK
  <2>2. CASE ~Fits(queue, s)
    BY <2>2 DEF Exits
  <2> QED
    BY <2>1, <2>2
<1> QED
  BY <1>1, <1>2, EndedTyped, WorkerStepKeeps

(* A worker that stops or has used its budget puts its checkpoint and its  *)
(* exit message in the queue, as far as they fit.                          *)
LEMMA WorkerExitsKeeps ==
    ASSUME SearchInv, NEW w \in Workers, WorkerExits(w)
    PROVE  SearchInv'
<1> DEFINE first == CheckpointMessage(w, procs[w])
           second == [Message(w, "exit", procs[w].evaluated) EXCEPT !.kind = ExitReason(procs[w])]
           s == <<first, second>>
<1>1. procs[w] \in WorkerProcesses
  BY DEF SearchInv, SearchTypeOK
<1>2. ExitReason(procs[w]) \in Kinds \ Reports
  BY DEF ExitReason, Kinds, Reports
<1>3. second \in Messages /\ second.worker = w /\ second.kind \notin Reports
  BY <1>1, <1>2 DEF Message, Messages, WorkerProcesses
<1>4. first \in Messages
  BY <1>1, CheckpointMessageTyped
<1>5. Exits(w, s, 0) /\ m' = m
  BY DEF WorkerExits
<1> HIDE DEF first, second
<1>6. s \in Seq(Messages) /\ s # <<>> /\ Len(s) = 2 /\ s[Len(s)] = second
  BY <1>3, <1>4
<1> QED
  BY <1>3, <1>5, <1>6, ExitsKeeps

(* A worker that fails puts its reason in the queue and ends with the code *)
(* of that reason.                                                         *)
LEMMA WorkerFailsKeeps ==
    ASSUME SearchInv, NEW w \in Workers, NEW reason \in {"memory", "score_worker", "failure"},
           WorkerFails(w, reason)
    PROVE  SearchInv'
<1> DEFINE message == Message(w, reason, 0)
           code == CASE reason = "memory" -> 0 [] reason = "score_worker" -> 78 [] OTHER -> 1
           s == <<message>>
<1>1. reason \in Kinds /\ reason \notin Reports
  BY DEF Kinds, Reports
<1>2. message \in Messages /\ message.worker = w /\ message.kind = reason
  BY <1>1, MessageTyped DEF Message
<1>3. code \in {0, 1, 78}
  OBVIOUS
<1>4. Exits(w, s, code) /\ m' = m
  BY DEF WorkerFails
<1> HIDE DEF message, code
<1>5. s \in Seq(Messages) /\ s # <<>> /\ Len(s) = 1 /\ s[Len(s)] = message
  BY <1>2
<1> QED
  BY <1>1, <1>2, <1>3, <1>4, <1>5, ExitsKeeps, ZenonT(30)

(* A worker that is killed ends with a code that the master reaps.         *)
LEMMA WorkerKilledKeeps ==
    ASSUME SearchInv, NEW w \in Workers, WorkerKilled(w)
    PROVE  SearchInv'
<1>1. procs' = [procs EXCEPT ![w] = Ended(1)] /\ UNCHANGED <<queue, m, lost>>
  BY DEF WorkerKilled
<1>2. Ended(1) \in WorkerProcesses /\ Ended(1).code = 1
  BY EndedTyped
<1>3. SearchTypeOK'
  BY <1>1, <1>2 DEF SearchInv, SearchTypeOK
<1>4. ASSUME m'.pc \in {"get", "body"}, NEW v \in Workers, procs'[v].state = "dead", procs'[v].code = 0
      PROVE  v \in m'.exited \/ v \in lost' \/ Tells(queue', v)
  BY <1>1, <1>2, <1>4 DEF SearchInv, SearchTypeOK, ExitsAccounted
<1>5. ExitsAccounted'
  BY <1>4 DEF ExitsAccounted
<1> QED
  BY <1>3, <1>5 DEF SearchInv

(* What the master makes of a message.                                     *)
LEMMA HandledFacts ==
    ASSUME SearchInv, NEW message \in Messages
    PROVE  /\ DOMAIN Handled(message) = MasterFields
           /\ Handled(message).checkpoints \in [Workers -> Checkpoints]
           /\ Handled(message).exited \subseteq Workers
           /\ m.exited \subseteq Handled(message).exited
           /\ message.kind \notin Reports => message.worker \in Handled(message).exited
<1>1. /\ DOMAIN m = MasterFields /\ m.checkpoints \in [Workers -> Checkpoints] /\ m.exited \subseteq Workers
      /\ message.worker \in Workers /\ message.value \in Nat
  BY DEF SearchInv, SearchTypeOK, Messages
<1>2. CASE message.kind = "metrics"
  <2>1. Handled(message) = [m EXCEPT !.metrics[message.worker] = message.value]
    BY <1>2 DEF Handled
  <2> QED
    BY <1>1, <1>2, <2>1 DEF MasterFields, Reports
<1>3. CASE message.kind = "checkpoint"
  <2> DEFINE c == [m.checkpoints EXCEPT ![message.worker] = {message.value}]
  <2>1. Handled(message) = [m EXCEPT !.checkpoints = c]
    BY <1>3 DEF Handled
  <2>2. c \in [Workers -> Checkpoints]
    BY <1>1 DEF Checkpoints
  <2> HIDE DEF c
  <2> QED
    BY <1>1, <1>3, <2>1, <2>2 DEF MasterFields, Reports
<1>4. CASE message.kind = "improvement"
  <2>1. Handled(message) = m
    BY <1>4 DEF Handled
  <2> QED
    BY <1>1, <1>4, <2>1 DEF Reports
<1>5. CASE message.kind \notin Reports
  <2> DEFINE h == [m EXCEPT !.counted = Min({m.counted + message.value, Budget * WorkerCount}),
                            !.metrics[message.worker] = 0,
                            !.exited = m.exited \cup {message.worker},
                            !.reasons[message.worker] = message.kind,
                            !.flags = IF message.kind = "memory" THEN m.flags \cup {"memory"} ELSE m.flags]
  <2>1. Handled(message) = h
    BY <1>5 DEF Handled, Reports
  <2>2. DOMAIN h = MasterFields /\ h.exited = m.exited \cup {message.worker} /\ h.checkpoints = m.checkpoints
    BY <1>1 DEF MasterFields
  <2> HIDE DEF h
  <2> QED
    BY <1>1, <2>1, <2>2
<1> QED
  BY <1>2, <1>3, <1>4, <1>5 DEF Reports

(* The rest of the queue tells all the first message does not.             *)
LEMMA TailTells ==
    ASSUME NEW q \in Seq(Messages), q # <<>>, NEW w, Tells(q, w)
    PROVE  Tells(Tail(q), w) \/ (Head(q).worker = w /\ Head(q).kind \notin Reports)
<1>1. PICK i \in 1 .. Len(q) : q[i].worker = w /\ q[i].kind \notin Reports
  BY DEF Tells
<1>2. /\ Tail(q) \in Seq(Messages) /\ Len(Tail(q)) = Len(q) - 1
      /\ \A j \in 1 .. Len(Tail(q)) : Tail(q)[j] = q[j + 1]
  BY HeadTailProperties
<1>3. CASE i = 1
  BY <1>1, <1>3
<1>4. CASE i # 1
  <2>1. i - 1 \in 1 .. Len(Tail(q))
    BY <1>2, <1>4, LenProperties
  <2>2. Tail(q)[i - 1] = q[i]
    BY <1>2, <2>1
  <2> QED
    BY <1>1, <2>1, <2>2 DEF Tells
<1> QED
  BY <1>3, <1>4

(* The master reads a message, or drops an improvement.                    *)
LEMMA GetKeeps ==
    ASSUME SearchInv, Get
    PROVE  SearchInv'
<1>0. m.pc = "get" /\ UNCHANGED <<procs, lost>>
  BY DEF Get
<1>1. CASE queue = <<>>
  <2>1. m' = [m EXCEPT !.pc = "body", !.message = FALSE] /\ queue' = queue
    BY <1>1 DEF Get
  <2>2. DOMAIN m = MasterFields
    BY DEF SearchInv, SearchTypeOK
  <2>3. DOMAIN m' = MasterFields /\ m'.pc = "body" /\ m'.exited = m.exited /\ m'.checkpoints = m.checkpoints
    BY <2>1, <2>2 DEF MasterFields
  <2> QED
    BY <1>0, <2>1, <2>3 DEF SearchInv, SearchTypeOK, ExitsAccounted
<1>2. CASE queue # <<>>
  <2> DEFINE h == Handled(Head(queue))
  <2>1. m' = [h EXCEPT !.pc = "body", !.message = TRUE] /\ queue' = Tail(queue)
    BY <1>2 DEF Get
  <2>2. queue \in Seq(Messages) /\ Len(queue) <= Capacity
    BY DEF SearchInv, SearchTypeOK
  <2>3. Head(queue) \in Messages /\ Tail(queue) \in Seq(Messages) /\ Len(Tail(queue)) = Len(queue) - 1
    BY <1>2, <2>2, HeadTailProperties
  <2>4. /\ DOMAIN h = MasterFields /\ h.checkpoints \in [Workers -> Checkpoints]
        /\ h.exited \subseteq Workers /\ m.exited \subseteq h.exited
        /\ Head(queue).kind \notin Reports => Head(queue).worker \in h.exited
    BY <2>3, HandledFacts
  <2> HIDE DEF h
  <2>5. DOMAIN m' = MasterFields /\ m'.pc = "body" /\ m'.exited = h.exited /\ m'.checkpoints = h.checkpoints
    BY <2>1, <2>4 DEF MasterFields
  <2>6. Len(queue') <= Capacity
    BY <2>1, <2>2, <2>3, LenProperties, QueueAssumption
  <2>7. SearchTypeOK'
    BY <1>0, <2>1, <2>3, <2>4, <2>5, <2>6 DEF SearchInv, SearchTypeOK
  <2>8. ASSUME NEW w \in Workers, procs[w].state = "dead", procs[w].code = 0
        PROVE  w \in m'.exited \/ w \in lost' \/ Tells(queue', w)
    <3>1. w \in m.exited \/ w \in lost \/ Tells(queue, w)
      BY <1>0, <2>8 DEF SearchInv, ExitsAccounted
    <3>2. Tells(queue, w) => Tells(queue', w) \/ w \in h.exited
      BY <1>2, <2>1, <2>2, <2>4, TailTells
    <3> QED
      BY <1>0, <2>4, <2>5, <3>1, <3>2
  <2>9. ExitsAccounted'
    BY <1>0, <2>8 DEF ExitsAccounted
  <2> QED
    BY <2>7, <2>9 DEF SearchInv
<1> QED
  BY <1>1, <1>2

(* An improvement that leaves the queue takes no last message with it.     *)
LEMMA DropKeeps ==
    ASSUME SearchInv, DropImprovement
    PROVE  SearchInv'
<1>1. /\ queue # <<>> /\ Head(queue).kind \in Reports /\ queue' = Tail(queue)
      /\ UNCHANGED <<procs, m, lost>>
  BY DEF DropImprovement, Reports
<1>2. queue \in Seq(Messages) /\ Len(queue) <= Capacity
  BY DEF SearchInv, SearchTypeOK
<1>3. Tail(queue) \in Seq(Messages) /\ Len(Tail(queue)) = Len(queue) - 1
  BY <1>1, <1>2, HeadTailProperties
<1>4. Len(queue') <= Capacity
  BY <1>1, <1>2, <1>3, LenProperties, QueueAssumption
<1>5. SearchTypeOK'
  BY <1>1, <1>3, <1>4 DEF SearchInv, SearchTypeOK
<1>6. \A w : Tells(queue, w) => Tells(queue', w)
  BY <1>1, <1>2, TailTells
<1>7. ExitsAccounted'
  BY <1>1, <1>6 DEF SearchInv, ExitsAccounted
<1> QED
  BY <1>5, <1>7 DEF SearchInv

(* The body of the loop: a replaced worker is alive again, and every other *)
(* one keeps what it told.                                                 *)
LEMMA BodyKeeps ==
    ASSUME SearchInv, NEW control, NEW limit, Body(control, limit)
    PROVE  SearchInv'
<1> DEFINE stopped == stop \/ control = "STOP" \/ Total >= Budget * WorkerCount \/ limit \in {"time", "disk", "memory"}
           gone == Replaced(stopped)
           reaped == AfterReaping(stopped)
           after == [reaped EXCEPT !.flags = reaped.flags \cup ({limit} \cap {"disk", "memory", "high"})]
           replaced == [w \in Workers |-> IF w \in gone THEN Fresh(m.checkpoints[w]) ELSE procs[w]]
           ends == Breaks(after, replaced)
<1>1. /\ m.pc = "body" /\ procs' = replaced /\ lost' = lost \ gone /\ queue' = queue
      /\ m' = [after EXCEPT !.pc = IF ends THEN "finish" ELSE "get", !.message = FALSE]
  BY DEF Body
<1>2. DOMAIN m = MasterFields /\ m.checkpoints \in [Workers -> Checkpoints] /\ m.exited \subseteq Workers
  BY DEF SearchInv, SearchTypeOK
<1>3. DOMAIN reaped = MasterFields /\ reaped.exited = m.exited \ gone /\ reaped.checkpoints = m.checkpoints
  <2> HIDE DEF stopped
  <2> QED
    BY <1>2 DEF AfterReaping, MasterFields
<1>4. gone \subseteq Workers
  BY DEF Replaced, Reached, Reaped
<1> HIDE DEF gone, reaped, stopped
<1>5. DOMAIN after = MasterFields /\ after.exited = m.exited \ gone /\ after.checkpoints = m.checkpoints
  BY <1>3 DEF MasterFields
<1> HIDE DEF after, ends
<1>6. /\ DOMAIN m' = MasterFields /\ m'.exited = m.exited \ gone /\ m'.checkpoints = m.checkpoints
      /\ m'.pc \in {"get", "finish"}
  BY <1>1, <1>5 DEF MasterFields
<1>7. \A w \in Workers : Fresh(m.checkpoints[w]) \in WorkerProcesses /\ Fresh(m.checkpoints[w]).state = "start"
  BY <1>2, FreshTyped
<1>8. SearchTypeOK'
  <2>1. procs' \in [Workers -> WorkerProcesses]
    BY <1>1, <1>7 DEF SearchInv, SearchTypeOK
  <2> QED
    BY <1>1, <1>2, <1>6, <2>1 DEF SearchInv, SearchTypeOK
<1>9. ASSUME NEW w \in Workers, procs'[w].state = "dead", procs'[w].code = 0
      PROVE  w \in m'.exited \/ w \in lost' \/ Tells(queue', w)
  <2>1. w \notin gone /\ procs'[w] = procs[w]
    BY <1>1, <1>7, <1>9
  <2>2. w \in m.exited \/ w \in lost \/ Tells(queue, w)
    BY <1>1, <1>9, <2>1 DEF SearchInv, ExitsAccounted
  <2> QED
    BY <1>1, <1>6, <2>1, <2>2
<1>10. ExitsAccounted'
  BY <1>9 DEF ExitsAccounted
<1> QED
  BY <1>8, <1>10 DEF SearchInv

(* The end of the run leaves the loop.                                     *)
LEMMA FinishKeeps ==
    ASSUME SearchInv, NEW counterexample, Finish(counterexample)
    PROVE  SearchInv'
<1> DEFINE final == FinalStatus(counterexample)
<1>1. /\ m' = [Started EXCEPT !.pc = "ended", !.status = final]
      /\ UNCHANGED <<procs, queue, lost>>
  BY DEF Finish
<1> HIDE DEF final
<1>2. /\ DOMAIN m' = MasterFields /\ m'.pc = "ended" /\ m'.exited = {}
      /\ m'.checkpoints = [w \in Workers |-> {}]
  BY <1>1 DEF Started, MasterFields
<1> QED
  BY <1>1, <1>2 DEF SearchInv, SearchTypeOK, ExitsAccounted, Checkpoints

(* The invariant holds when the workers are started.                       *)
LEMMA SearchInvInit == SearchInit => SearchInv
<1> SUFFICES ASSUME SearchInit PROVE SearchInv
  OBVIOUS
<1>1. {} \in Checkpoints
  BY DEF Checkpoints
<1>2. Fresh({}) \in WorkerProcesses /\ Fresh({}).state = "start"
  BY <1>1, FreshTyped
<1>3. procs = [w \in Workers |-> Fresh({})] /\ queue = <<>> /\ m = Started
  BY DEF SearchInit
<1>4. /\ DOMAIN m = MasterFields /\ m.pc = "get" /\ m.exited = {}
      /\ m.checkpoints = [w \in Workers |-> {}]
  BY <1>3 DEF Started, MasterFields
<1>5. SearchTypeOK
  BY <1>1, <1>2, <1>3, <1>4, QueueAssumption, EmptySeq DEF SearchTypeOK
<1>6. ExitsAccounted
  BY <1>2, <1>3 DEF ExitsAccounted
<1> QED
  BY <1>5, <1>6 DEF SearchInv

(* Every step of a worker and of the master keeps the invariant.           *)
LEMMA SearchInvNext == SearchInv /\ [SearchNext]_searchVars => SearchInv'
<1> SUFFICES ASSUME SearchInv, [SearchNext]_searchVars PROVE SearchInv'
  OBVIOUS
<1>1. CASE UNCHANGED searchVars
  BY <1>1 DEF searchVars, SearchInv, SearchTypeOK, ExitsAccounted
<1>2. CASE SearchNext
  BY <1>2, StartsKeeps, EvaluateKeeps, WorkerExitsKeeps, WorkerFailsKeeps, WorkerKilledKeeps, GetKeeps, DropKeeps,
     BodyKeeps, FinishKeeps DEF SearchNext
<1> QED
  BY <1>1, <1>2

(* When the queue is empty and all workers are gone, each has told the     *)
(* master unless its message was lost.                                     *)
LEMMA SearchInvEnds == SearchInv => StoppedRunEnds
<1> SUFFICES ASSUME SearchInv, m.pc = "get", queue = <<>>, Alive(procs) = {}, lost = {}
             PROVE  Breaks(m, procs)
  BY DEF StoppedRunEnds
<1>1. \A w \in Workers : procs[w].state = "dead"
  BY DEF Alive
<1>2. \A w \in Workers : ~Tells(queue, w)
  BY EmptySeq DEF Tells
<1>3. CASE \A w \in Workers : procs[w].code = 0
  <2>1. m.exited = Workers
    BY <1>1, <1>2, <1>3 DEF SearchInv, SearchTypeOK, ExitsAccounted
  <2> QED
    BY <2>1 DEF Breaks
<1> QED
  BY <1>3 DEF Breaks

(* A stopped run whose workers are gone leaves its loop once the queue is  *)
(* empty, unless a full queue dropped the last message of one of them.     *)
THEOREM StoppedSearchEnds == SearchSpec => []StoppedRunEnds
BY SearchInvInit, SearchInvNext, SearchInvEnds, PTL DEF SearchSpec
=============================================================================
