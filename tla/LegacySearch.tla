----------------------------- MODULE LegacySearch -----------------------------
(***************************************************************************)
(* The legacy engine (search.py): a master, its worker processes and the    *)
(* bounded queue between them.  LegacyRun models the files and rows of the  *)
(* run: its archive and its checkpoints.                                    *)
(*                                                                         *)
(* The instants at which time, memory or disk run out and at which metrics, *)
(* states and checkpoints are written are free.  A checkpoint is its        *)
(* lifetime_evaluated: the graphs and the RNG it holds decide only which    *)
(* candidates come next.                                                    *)
(***************************************************************************)
EXTENDS Naturals, Sequences, FiniteSets, FiniteSetsExt

CONSTANTS
    WorkerCount,
    Budget,             \* _worker_candidate_budget of every worker
    Recycle,            \* worker_recycle_candidates
    Capacity,           \* queue_capacity
    FailureLimit,       \* 3 in the code
    Controls,           \* control actions: a subset of {"PAUSE", "RESUME", "STOP"}
    Limits,             \* limits that may be met: a subset of {"time", "disk", "memory", "high"}
    MaxKills            \* bound: failures of worker processes

ASSUME QueueAssumption == Capacity \in Nat \ {0}

Workers == 1 .. WorkerCount
Nothing == "none"

VARIABLES
    procs,      \* the worker processes
    queue,
    m,          \* the master
    stop, pause,
    kills,
    lost        \* workers whose exit message was dropped by a full queue

searchVars == <<procs, queue, m, stop, pause, kills, lost>>

(* A checkpoint that may be missing is a set of at most one number.         *)
Lifetime(checkpoint) == Max(checkpoint \cup {0})
Fresh(checkpoint) == [state |-> "start", code |-> 0, evaluated |-> 0, lifetime |-> Lifetime(checkpoint)]

(* _run_search_locked up to its loop, new or resumed: the archive is read   *)
(* from best/, the checkpoints from files whose hash must match.            *)
Started ==
    [pc |-> "get", message |-> FALSE, checkpoints |-> [w \in Workers |-> {}], counted |-> 0,
     metrics |-> [w \in Workers |-> 0], exited |-> {}, reasons |-> [w \in Workers |-> Nothing],
     failures |-> [w \in Workers |-> 0], flags |-> {}, status |-> Nothing]

SearchInit ==
    /\ procs = [w \in Workers |-> Fresh({})]
    /\ queue = <<>>
    /\ m = Started
    /\ stop = FALSE /\ pause = FALSE
    /\ kills = 0
    /\ lost = {}

-----------------------------------------------------------------------------
(* The workers.                                                             *)

(* _put: a full queue drops the message, an important one after 50 ms.      *)
Put(q, messages) == SubSeq(q \o messages, 1, Min({Capacity, Len(q) + Len(messages)}))
Fits(q, messages) == Len(q) + Len(messages) <= Capacity

Message(w, kind, value) == [worker |-> w, kind |-> kind, value |-> value]
CheckpointMessage(w, p) == Message(w, "checkpoint", p.lifetime + p.evaluated)

(* The worker begins: its seed or checkpoint, and the two first messages.   *)
WorkerStarts(w) ==
    /\ procs[w].state = "start"
    /\ procs' = [procs EXCEPT ![w].state = "run"]
    /\ queue' = Put(queue, <<CheckpointMessage(w, procs[w]), Message(w, "improvement", 0)>>)
    /\ UNCHANGED <<m, stop, pause, kills, lost>>

(* The condition of the worker's loop.                                      *)
Continues(p) == ~stop /\ p.evaluated < Recycle /\ p.lifetime + p.evaluated < Budget

(* What an evaluation sends: an improvement, the half-second report, or     *)
(* nothing.                                                                 *)
Reported(w, p, what) ==
    CASE what = "improvement" -> <<Message(w, "improvement", 0)>>
      [] what = "report" -> <<Message(w, "metrics", p.evaluated), CheckpointMessage(w, p)>>
      [] OTHER -> <<>>

Evaluate(w, what) ==
    LET after == [procs[w] EXCEPT !.evaluated = @ + 1] IN
    /\ procs[w].state = "run" /\ Continues(procs[w]) /\ ~pause
    /\ procs' = [procs EXCEPT ![w] = after]
    /\ queue' = Put(queue, Reported(w, after, what))
    /\ UNCHANGED <<m, stop, pause, kills, lost>>

ExitReason(p) ==
    IF stop THEN "stopped" ELSE IF p.lifetime + p.evaluated >= Budget THEN "budget" ELSE "recycle"

(* The end of _worker and of its process; a signal's exit code is modelled  *)
(* as 1, like any other but 0 and 78.                                       *)
Ended(code) == [state |-> "dead", code |-> code, evaluated |-> 0, lifetime |-> 0]

Exits(w, messages, code) ==
    /\ procs' = [procs EXCEPT ![w] = Ended(code)]
    /\ queue' = Put(queue, messages)
    /\ lost' = IF Fits(queue, messages) THEN lost ELSE lost \cup {w}

WorkerExits(w) ==
    /\ procs[w].state = "run" /\ ~Continues(procs[w])
    /\ Exits(w, <<CheckpointMessage(w, procs[w]),
                  [Message(w, "exit", procs[w].evaluated) EXCEPT !.kind = ExitReason(procs[w])]>>, 0)
    /\ UNCHANGED <<m, stop, pause, kills>>

(* _worker_entry's handlers: a MemoryError ends the process normally, a     *)
(* ScoreWorkerError with code 78, another exception with code 1.            *)
WorkerFails(w, reason) ==
    /\ procs[w].state \in {"start", "run"} /\ kills < MaxKills
    /\ kills' = kills + 1
    /\ Exits(w, <<Message(w, reason, 0)>>,
             CASE reason = "memory" -> 0 [] reason = "score_worker" -> 78 [] OTHER -> 1)
    /\ UNCHANGED <<m, stop, pause>>

WorkerKilled(w) ==
    /\ procs[w].state \in {"start", "run"} /\ kills < MaxKills
    /\ kills' = kills + 1
    /\ procs' = [procs EXCEPT ![w] = Ended(1)]
    /\ UNCHANGED <<queue, m, stop, pause, lost>>

-----------------------------------------------------------------------------
(* The master: one iteration is the read of a message and the body.         *)

Handled(message) ==
    LET w == message.worker IN
    CASE message.kind = "metrics" -> [m EXCEPT !.metrics[w] = message.value]
      [] message.kind = "checkpoint" -> [m EXCEPT !.checkpoints[w] = {message.value}]
      [] message.kind = "improvement" -> m
      [] OTHER -> [m EXCEPT !.counted = Min({@ + message.value, Budget * WorkerCount}), !.metrics[w] = 0,
                            !.exited = @ \cup {w}, !.reasons[w] = message.kind,
                            !.flags = IF message.kind = "memory" THEN @ \cup {"memory"} ELSE @]

Get ==
    /\ m.pc = "get"
    /\ IF queue = <<>>
       THEN m' = [m EXCEPT !.pc = "body", !.message = FALSE] /\ UNCHANGED queue
       ELSE /\ m' = [Handled(Head(queue)) EXCEPT !.pc = "body", !.message = TRUE]
            /\ queue' = Tail(queue)
    /\ UNCHANGED <<procs, stop, pause, kills, lost>>

(* An improvement too poor for a full archive is dropped with a `continue`: *)
(* the next message is read without a body in between.                      *)
DropImprovement ==
    /\ m.pc = "get" /\ queue # <<>> /\ Head(queue).kind = "improvement"
    /\ queue' = Tail(queue)
    /\ UNCHANGED <<procs, m, stop, pause, kills, lost>>

(* The reason the master takes for a dead worker: a normal end whose exit   *)
(* message has not come is taken, after an empty read, for a recycling.     *)
Reason(w) ==
    IF procs[w].code = 78 THEN "score_worker"
    ELSE IF procs[w].code # 0 \/ m.reasons[w] # Nothing THEN m.reasons[w]
    ELSE IF Lifetime(m.checkpoints[w]) >= Budget THEN "budget" ELSE "recycle"

Dead(w) == procs[w].state = "dead"
Undecided(w) == procs[w].code = 0 /\ m.reasons[w] = Nothing /\ m.message
Reaped(stopped) == IF stopped THEN {} ELSE {w \in Workers : Dead(w) /\ ~Undecided(w)}

FailedNow(w) == Reason(w) \notin {"recycle", "budget"}
Abandons(w) == Reason(w) = "score_worker" \/ (FailedNow(w) /\ m.failures[w] + 1 > FailureLimit)

(* Workers are looked at in order, until one is abandoned: that sets stop.  *)
Reached(stopped) ==
    {w \in Reaped(stopped) : \A v \in Reaped(stopped) : v < w => ~Abandons(v)}
Replaced(stopped) == {w \in Reached(stopped) : Reason(w) # "budget" /\ ~Abandons(w)}

(* The final reports of the workers reached count towards the budget.       *)
Counted(reached) ==
    Min({FoldSet(LAMBDA w, n : n + m.metrics[w], m.counted, reached), Budget * WorkerCount})

AfterReaping(stopped) ==
    LET reached == Reached(stopped) IN
    [m EXCEPT
        !.counted = Counted(reached),
        !.metrics = [w \in Workers |-> IF w \in reached THEN 0 ELSE @[w]],
        !.failures = [w \in Workers |-> IF w \in reached /\ FailedNow(w) THEN @[w] + 1 ELSE @[w]],
        !.flags = @ \cup {IF Reason(w) = "memory" THEN "memory" ELSE "unrecoverable" : w \in {v \in reached : Abandons(v)}},
        !.exited = @ \ Replaced(stopped),
        !.reasons = [w \in Workers |-> IF w \in Replaced(stopped) THEN Nothing ELSE @[w]]]

Total == FoldSet(LAMBDA w, n : n + m.metrics[w], m.counted, Workers)

Alive(ps) == {w \in Workers : ps[w].state # "dead"}

(* The loop ends when no worker is alive and all have told so or one failed. *)
BreaksOnExitsOnly(master, ps) == Alive(ps) = {} /\ master.exited = Workers  \* variant: failures do not count
Breaks(master, ps) ==
    Alive(ps) = {} /\ (master.exited = Workers \/ \E w \in Workers : ps[w].code # 0)

(* The control file, the limits, the dead workers, the end of the loop, in  *)
(* this order.  The memory-high mark pauses the workers once.               *)
Body(control, limit) ==
    LET stopped == stop \/ control = "STOP" \/ Total >= Budget * WorkerCount \/ limit \in {"time", "disk", "memory"}
        abandons == \E w \in Reached(stopped) : Abandons(w)
        after == [AfterReaping(stopped) EXCEPT !.flags = @ \cup ({limit} \cap {"disk", "memory", "high"})]
        replaced == [w \in Workers |->
            IF w \in Replaced(stopped) THEN Fresh(m.checkpoints[w]) ELSE procs[w]]
        ends == Breaks(after, replaced)
    IN  /\ m.pc = "body"
        /\ limit # "high" \/ "high" \notin m.flags
        /\ stop' = (stopped \/ abandons)
        /\ pause' = (~ends /\ \/ limit = "high" \/ control = "PAUSE"
                              \/ control # "RESUME" /\ pause)
        /\ procs' = replaced
        /\ lost' = lost \ Replaced(stopped)
        /\ m' = [after EXCEPT !.pc = IF ends THEN "finish" ELSE "get", !.message = FALSE]
        /\ UNCHANGED <<queue, kills>>

(* After the loop: the verification of the best candidate, unless the disk  *)
(* is exhausted, and the final status.                                      *)
FinalStatus(counterexample) ==
    IF counterexample /\ "disk" \notin m.flags THEN "COUNTEREXAMPLE_VERIFIED"
    ELSE IF "memory" \in m.flags THEN "UNKNOWN_MEMORY_LIMIT"
    ELSE IF m.flags \cap {"disk", "unrecoverable"} # {} THEN "TOOL_FAILURE"
    ELSE "NO_RESULT_WITHIN_BUDGET"

Finish(counterexample) ==
    /\ m.pc = "finish"
    /\ m' = [Started EXCEPT !.pc = "ended", !.status = FinalStatus(counterexample)]
    /\ UNCHANGED <<procs, queue, stop, pause, kills, lost>>

SearchNext ==
    \/ \E w \in Workers :
        \/ WorkerExits(w) \/ WorkerKilled(w)
        \/ WorkerStarts(w)
        \/ \E what \in {"improvement", "report", Nothing} : Evaluate(w, what)
        \/ \E reason \in {"memory", "score_worker", "failure"} : WorkerFails(w, reason)
    \/ Get \/ DropImprovement
    \/ \E control \in Controls \cup {Nothing}, limit \in Limits \cup {Nothing} : Body(control, limit)
    \/ \E counterexample \in BOOLEAN : Finish(counterexample)

SearchSpec == SearchInit /\ [][SearchNext]_searchVars

-----------------------------------------------------------------------------
(* A stopped run whose workers are gone leaves its loop once the queue is   *)
(* empty, whichever way each worker went, unless the exit message of one of *)
(* them was dropped: then the master waits for it forever.                  *)
(* _run_search_locked, _put.                                                *)
StoppedRunEnds ==
    /\ m.pc = "get" /\ stop /\ queue = <<>> /\ Alive(procs) = {} /\ ~Breaks(m, procs)
    => lost # {}
=============================================================================
