------------------------------ MODULE LaneKernel ------------------------------
(***************************************************************************)
(* The search a lane worker performs between two commands: _LaneKernel of  *)
(* research/lanes.py with the loop of _lane_worker around it, the cutoff   *)
(* its C++ score worker applies, and the checkpoints it is restored from.  *)
(*                                                                         *)
(* A graph is a model value with the number of forbidden cycles of each    *)
(* length it has (Counts) and its number of edges (Size); which graph a    *)
(* generator or a mutation returns is a free choice, and so is the draw of *)
(* simulated annealing.  A candidate identifier is the hash of its graph,  *)
(* here the graph.  A search key is <<scheme, graph>>; a key that was      *)
(* updated from the key of another graph is an "offset" key.               *)
(***************************************************************************)
EXTENDS Integers, Sequences, FiniteSets

CONSTANTS
    Graphs, Counts, Size,
    Lengths,                \* the forbidden cycle lengths, increasing
    Cap,                    \* witness_cap
    Algorithms,             \* a subset of {"random_restart", "simulated_annealing", "tabu"}
    PerturbationInterval, RestartThreshold, Tenures, AncestryLimit,
    BatchCandidates,
    MaxEvaluations,         \* bound: evaluations of the lane
    MaxVersion,             \* bound: commands applied
    MaxRestores             \* bound: recoveries and forks

None == "none"

ASSUME KernelAssumption ==
    /\ None \notin Graphs
    /\ Lengths \in Seq(Nat \ {0}) /\ Cap \in Nat
    /\ Counts \in [Graphs -> Seq(Nat)] /\ \A g \in Graphs : Len(Counts[g]) = Len(Lengths)
    /\ Size \in [Graphs -> Nat]
    /\ Algorithms \subseteq {"random_restart", "simulated_annealing", "tabu"}
    /\ Tenures \subseteq Nat \ {0} /\ AncestryLimit \in Nat \ {0}
    /\ {PerturbationInterval, RestartThreshold, BatchCandidates} \subseteq Nat \ {0}

VARIABLES
    algorithm,
    k,          \* the fields of the _LaneKernel
    batch,      \* run_batch: evaluations left in the batch, 0 between batches
    ckpt,       \* current_checkpoint: the last one emitted
    ver,        \* lane_version
    phase,      \* "running", "failed" (exit event) or "stopped"
    scorer,     \* the PersistentScoreWorker: "up", or "closed" by _cpp_score
    restores    \* counts the recoveries and forks

vars == <<algorithm, k, batch, ckpt, ver, phase, scorer, restores>>

-----------------------------------------------------------------------------
(* Scores.  ScoreResult.ordering_key of a valid graph: total, weighted      *)
(* penalty and size, compared lexicographically.                            *)
AtMost(a, b) == IF a < b THEN a ELSE b
Weight(i) == IF Lengths[i] > 64 THEN 1 ELSE 64 \div Lengths[i]
Bounded(g, i) == AtMost(Counts[g][i], Cap)

(* The penalties of the n longest lengths: cutoff_longest_first.            *)
PartialTotal(g, n) ==
    LET sum[i \in 0 .. Len(Lengths)] ==
            IF i = 0 THEN 0 ELSE sum[i - 1] + Bounded(g, Len(Lengths) + 1 - i)
    IN  sum[n]
PartialWeighted(g, n) ==
    LET sum[i \in 0 .. Len(Lengths)] ==
            IF i = 0 THEN 0
            ELSE sum[i - 1] + Bounded(g, Len(Lengths) + 1 - i) * Weight(Len(Lengths) + 1 - i)
    IN  sum[n]

OrderingKey(g) == <<PartialTotal(g, Len(Lengths)), PartialWeighted(g, Len(Lengths)), Size[g]>>

Less(a, b) ==
    \/ a[1] < b[1]
    \/ a[1] = b[1] /\ (a[2] < b[2] \/ (a[2] = b[2] /\ a[3] < b[3]))

Better(g, h) == Less(OrderingKey(g), OrderingKey(h))

(* The cutoff of the C++ worker, on partial penalties.                      *)
CutoffReached(partial, cutoff, inclusive) ==
    Less(cutoff, partial) \/ (inclusive /\ partial = cutoff)

(* serve: lengths are counted from the longest one, and the count of a      *)
(* length stops as soon as the penalties reach the cutoff.                  *)
Dominated(g, cutoff, inclusive) ==
    \E n \in 1 .. Len(Lengths) :
        LET i == Len(Lengths) + 1 - n
            total == PartialTotal(g, n - 1)
            weighted == PartialWeighted(g, n - 1)
        IN  \E count \in 0 .. AtMost(Counts[g][i], Cap + 1) :
                CutoffReached(<<total + AtMost(count, Cap), weighted + AtMost(count, Cap) * Weight(i), Size[g]>>,
                              cutoff, inclusive)

-----------------------------------------------------------------------------
(* The kernel.                                                              *)
Independent == algorithm = "random_restart"     \* independent_sample_provenance

Newest(s, n) == IF Len(s) <= n THEN s ELSE SubSeq(s, Len(s) - n + 1, Len(s))
Elements(s) == {s[i] : i \in DOMAIN s}
Coherent == k.score = k.graph /\ k.key = <<k.scheme, k.graph>>

(* _new_seed, once the seed is generated and scored.                        *)
NewSeed(kernel, s) ==
    [kernel EXCEPT !.graph = s, !.score = s, !.best = s, !.curId = s, !.bestId = s,
        !.prov = None, !.accepted = <<>>, !.bestAncestry = <<>>, !.evaluated = 0,
        !.scheme = "fast", !.key = <<"fast", s>>, !.tabu = << <<"fast", s>> >>]

(* _new_seed when generate_seed raises (s = None) or _score does: what was  *)
(* assigned before the exception stays.                                     *)
SeedRaised(s) == [k EXCEPT !.scheme = "fast", !.graph = IF s = None THEN @ ELSE s]

Fresh(s, tenure) ==
    NewSeed([graph |-> s, score |-> s, best |-> s, curId |-> s, bestId |-> s, prov |-> None,
             accepted |-> <<>>, bestAncestry |-> <<>>, evaluated |-> 0, scheme |-> "fast",
             key |-> <<"fast", s>>, tabu |-> <<>>, high |-> 0, tenure |-> tenure], s)

(* checkpoint: what it says of the current and the best candidate depends   *)
(* on the kind of provenance.                                               *)
CheckpointIds(kernel) ==
    [curId |-> IF Independent \/ kernel.curId = None THEN kernel.graph ELSE kernel.curId,
     bestProv |-> IF Independent THEN IF kernel.prov = None THEN kernel.best ELSE kernel.prov
                  ELSE kernel.bestId]

Checkpoint(kernel, version) ==
    [lane_version |-> version, graph |-> kernel.graph, score |-> kernel.score, best |-> kernel.best,
     bestId |-> kernel.bestId, evaluated |-> kernel.evaluated, tabu |-> kernel.tabu,
     scheme |-> kernel.scheme, high |-> kernel.high, tenure |-> kernel.tenure,
     accepted |-> kernel.accepted, bestAncestry |-> kernel.bestAncestry,
     curId |-> CheckpointIds(kernel).curId, bestProv |-> CheckpointIds(kernel).bestProv]

(* __init__ from a checkpoint; a fork starts its own counters and tabu list. *)
RestoredTabuReversed(c, forked) ==  \* variant: the oldest entry is put in last
    IF forked \/ c.tabu = <<>> THEN << <<c.scheme, c.graph>> >>
    ELSE Newest([i \in DOMAIN c.tabu |-> c.tabu[Len(c.tabu) + 1 - i]], c.tenure)
RestoredTabu(c, forked) ==
    IF forked \/ c.tabu = <<>> THEN << <<c.scheme, c.graph>> >> ELSE Newest(c.tabu, c.tenure)

RestoredAncestry(records) == IF Independent THEN <<>> ELSE Newest(records, AncestryLimit)

Restored(c, forked) ==
    [graph |-> c.graph, score |-> c.score, best |-> c.best, curId |-> c.curId, bestId |-> c.bestId,
     prov |-> c.bestProv,
     accepted |-> RestoredAncestry(c.accepted), bestAncestry |-> RestoredAncestry(c.bestAncestry),
     evaluated |-> IF forked THEN 0 ELSE c.evaluated, scheme |-> c.scheme,
     key |-> <<c.scheme, c.graph>>, tabu |-> RestoredTabu(c, forked),
     high |-> IF forked THEN 0 ELSE c.high, tenure |-> c.tenure]

(* restart_from_checkpoint keeps the lane's own high-water mark.            *)
RestartedFrom(c) ==
    [k EXCEPT !.graph = c.graph, !.score = c.score, !.best = c.best, !.curId = c.curId,
        !.bestId = c.bestId, !.prov = None, !.accepted = RestoredAncestry(c.accepted),
        !.bestAncestry = RestoredAncestry(c.bestAncestry), !.evaluated = 0, !.scheme = "fast",
        !.key = <<"fast", c.graph>>, !.tabu = << <<"fast", c.graph>> >>]

-----------------------------------------------------------------------------
(* One evaluation.                                                          *)

(* _candidate_search_key: an incremental update of the current key, unless  *)
(* the candidate is an independent sample.                                  *)
SearchKey(kernel, g) ==
    LET updatable == kernel.key[2] = kernel.graph /\ kernel.key[1] # "legacy"
        scheme == IF kernel.scheme = "legacy" THEN "legacy"
                  ELSE IF Independent THEN "fast"
                  ELSE IF updatable THEN kernel.key[1] ELSE "offset"
    IN  <<scheme, g>>

Perturbs(kernel) == kernel.evaluated % PerturbationInterval = 0

(* _score_cutoff: the move must beat the record if it is tabu, and must not *)
(* be worse than the current graph if it is not.                            *)
CutoffInclusive(kernel, key) ==     \* variant: ties with the current graph are cut off
    IF key \in Elements(kernel.tabu) THEN <<kernel.best, TRUE>> ELSE <<kernel.score, TRUE>>
Cutoff(kernel, key) ==
    IF key \in Elements(kernel.tabu) THEN <<kernel.best, TRUE>> ELSE <<kernel.score, FALSE>>

EarlyRejected(kernel, g, key) ==
    /\ algorithm = "tabu" /\ ~Perturbs(kernel)
    /\ Dominated(g, OrderingKey(Cutoff(kernel, key)[1]), Cutoff(kernel, key)[2])

(* _accept: the decisions a full score allows.                              *)
Acceptances(kernel, g, key) ==
    CASE Independent -> {TRUE}
      [] algorithm = "simulated_annealing" -> IF Better(kernel.score, g) THEN BOOLEAN ELSE {TRUE}
      [] OTHER -> {(key \notin Elements(kernel.tabu) /\ ~Better(kernel.score, g)) \/ Perturbs(kernel)}

IsRecord(kernel, g) == Better(g, kernel.best)

Record(kernel, g) == [id |-> g, parent |-> kernel.curId]    \* _mutation_record

Accepted(kernel, g, key) ==
    [kernel EXCEPT !.graph = g, !.score = g, !.key = key,
        !.curId = IF Independent THEN None ELSE g,
        !.accepted = IF Independent THEN @ ELSE Newest(Append(@, Record(kernel, g)), AncestryLimit),
        !.tabu = IF algorithm = "tabu" THEN Newest(Append(@, key), kernel.tenure) ELSE @]

(* A record that is not accepted extends the chain of the current graph.    *)
RecordAncestryOfBest(kernel, g, accept) ==      \* variant: it extends the chain of the old record
    IF accept THEN Newest(Append(kernel.accepted, Record(kernel, g)), AncestryLimit)
    ELSE Newest(Append(kernel.bestAncestry, Record(kernel, g)), AncestryLimit)
RecordAncestry(kernel, g, accept) ==
    IF accept THEN Newest(Append(kernel.accepted, Record(kernel, g)), AncestryLimit)
    ELSE Append(Newest(kernel.accepted, AncestryLimit - 1), Record(kernel, g))

Recorded(before, kernel, g, accept) ==
    [kernel EXCEPT !.best = g, !.bestId = g,
        !.prov = IF Independent THEN g ELSE @,
        !.curId = IF Independent /\ accept THEN g ELSE @,
        !.bestAncestry = IF Independent THEN @ ELSE RecordAncestry(before, g, accept)]

(* The body of run_batch's loop from the mutation on, for candidate g.      *)
Evaluated(kernel, g, accept) ==
    LET counted == [kernel EXCEPT !.evaluated = @ + 1]
        key == SearchKey(counted, g)
        moved == IF accept THEN Accepted(counted, g, key) ELSE counted
    IN  IF g = kernel.graph \/ EarlyRejected(counted, g, key) THEN counted
        ELSE IF IsRecord(counted, g) THEN Recorded(counted, moved, g, accept) ELSE moved

Decisions(kernel, g) ==
    LET counted == [kernel EXCEPT !.evaluated = @ + 1]
        key == SearchKey(counted, g)
    IN  IF g = kernel.graph \/ EarlyRejected(counted, g, key) THEN {FALSE}
        ELSE Acceptances(counted, g, key)

-----------------------------------------------------------------------------
(* A new lane, or one restored from a historical checkpoint.                *)
Init ==
    /\ algorithm \in Algorithms
    /\ \E s \in Graphs, t \in Tenures, scheme \in {"fast", "legacy"} :
        k = [Fresh(s, t) EXCEPT !.scheme = scheme, !.key = <<scheme, s>>, !.tabu = << <<scheme, s>> >>]
    /\ batch = 0
    /\ ckpt = Checkpoint(k, 0)
    /\ ver = 0
    /\ phase = "running" /\ scorer = "up" /\ restores = 0

(* run_batch begins; its loop runs BatchCandidates times.                   *)
BeginBatch ==
    /\ phase = "running" /\ batch = 0 /\ k.high + BatchCandidates <= MaxEvaluations
    /\ batch' = BatchCandidates
    /\ UNCHANGED <<algorithm, k, ckpt, ver, phase, scorer, restores>>

RestartDue ==
    algorithm = "simulated_annealing" /\ k.evaluated > 0 /\ k.evaluated % RestartThreshold = 0

(* The end of a batch: its checkpoint, telemetry and improvement events.    *)
EndsWith(kernel) ==
    LET done == [kernel EXCEPT !.high = @ + BatchCandidates - batch + 1] IN
    /\ k' = done /\ batch' = 0
    /\ ckpt' = Checkpoint(done, ver)

Evaluate(s, g, accept) ==
    LET start == IF RestartDue THEN NewSeed(k, s) ELSE k IN
    /\ phase = "running" /\ batch > 0
    /\ RestartDue \/ s = k.graph
    /\ accept \in Decisions(start, g)
    /\ IF batch = 1 THEN EndsWith(Evaluated(start, g, accept))
       ELSE /\ k' = Evaluated(start, g, accept)
            /\ batch' = batch - 1
            /\ UNCHANGED ckpt
    /\ scorer' = "up"
    /\ UNCHANGED <<algorithm, ver, phase, restores>>

(* _cpp_score fails twice, or a generator gives up, within a batch: the     *)
(* exception ends the worker.                                               *)
BatchRaises ==
    /\ phase = "running" /\ batch > 0
    /\ phase' = "failed" /\ batch' = 0 /\ scorer' = "closed"
    /\ UNCHANGED <<algorithm, k, ckpt, ver, restores>>

(* stop_event is tested before every evaluation.                            *)
Stop ==
    /\ phase = "running"
    /\ IF batch = 0 THEN UNCHANGED <<k, batch, ckpt>>
       ELSE EndsWith([k EXCEPT !.high = @ - 1])
    /\ phase' = "stopped"
    /\ UNCHANGED <<algorithm, ver, scorer, restores>>

-----------------------------------------------------------------------------
(* _apply_commands, between batches, for the current lane version.          *)
Commanded == phase = "running" /\ batch = 0 /\ ver < MaxVersion

Applied(kernel) ==
    /\ k' = kernel /\ ver' = ver + 1
    /\ ckpt' = Checkpoint(kernel, ver + 1)
    /\ UNCHANGED <<algorithm, batch, phase, restores>>

CommandPatch(t) ==
    /\ Commanded /\ t \in Tenures
    /\ Applied([k EXCEPT !.tenure = t, !.tabu = Newest(@, t)])
    /\ UNCHANGED scorer

CommandRestart(s) == Commanded /\ Applied(NewSeed(k, s)) /\ scorer' = "up"

(* The lane's own last checkpoint, or the first one of another lane.        *)
Checkpoints == {ckpt} \cup {Checkpoint(Fresh(g, k.tenure), 0) : g \in Graphs}

CommandRestartFrom(c) ==
    /\ Commanded /\ Applied(RestartedFrom(c)) /\ UNCHANGED scorer

(* The exception of a restart is caught by _apply_commands and reported as  *)
(* a failed action; the worker goes on with what the kernel holds.          *)
CommandRestartRaises(s) ==
    /\ Commanded
    /\ k' = SeedRaised(s)
    /\ scorer' = IF s = None THEN scorer ELSE "closed"
    /\ UNCHANGED <<algorithm, batch, ckpt, ver, phase, restores>>

-----------------------------------------------------------------------------
(* The recovery of a lane whose process is gone, or a fork of it, from its  *)
(* last checkpoint.                                                         *)
Restore(forked) ==
    /\ phase # "failed" /\ restores < MaxRestores
    /\ restores' = restores + 1
    /\ k' = Restored(ckpt, forked)
    /\ ver' = IF forked THEN 0 ELSE ckpt.lane_version
    /\ ckpt' = Checkpoint(k', ver')
    /\ batch' = 0 /\ phase' = "running" /\ scorer' = "up"
    /\ UNCHANGED algorithm

Next ==
    \/ BeginBatch
    \/ \E s, g \in Graphs, accept \in BOOLEAN : Evaluate(s, g, accept)
    \/ BatchRaises
    \/ Stop
    \/ \E t \in Tenures : CommandPatch(t)
    \/ \E s \in Graphs : CommandRestart(s)
    \/ \E c \in Checkpoints : CommandRestartFrom(c)
    \/ \E s \in Graphs \cup {None} : CommandRestartRaises(s)
    \/ \E forked \in BOOLEAN : Restore(forked)

Spec == Init /\ [][Next]_vars

-----------------------------------------------------------------------------
(* The records and counters of the kernel keep their types and bounds.      *)
TypeOK ==
    /\ k.graph \in Graphs /\ k.score \in Graphs /\ k.best \in Graphs
    /\ Len(k.tabu) <= k.tenure
    /\ Len(k.accepted) <= AncestryLimit /\ Len(k.bestAncestry) <= AncestryLimit
    /\ k.high \in 0 .. MaxEvaluations /\ ver \in 0 .. MaxVersion

(* "The cutoff changes neither RNG consumption nor accepted/search-record   *)
(* trajectories": in every state the kernel can be in, a candidate that the *)
(* C++ worker gives up on would have been neither accepted nor a record.    *)
(* _score_cutoff, _accept, serve.                                           *)
CutoffSound ==
    \A g \in Graphs :
        LET counted == [k EXCEPT !.evaluated = @ + 1]
            key == SearchKey(counted, g)
        IN  EarlyRejected(counted, g, key) =>
                ~IsRecord(counted, g) /\ TRUE \notin Acceptances(counted, g, key)

Chained(records, last) ==
    /\ \A i \in 1 .. Len(records) - 1 : records[i + 1].parent = records[i].id
    /\ records # <<>> => records[Len(records)].id = last

(* The bounded ancestries are unbroken chains that end in the current and   *)
(* in the best candidate, through records that were not accepted, restarts, *)
(* forks and restores; an independent sample is the source of its own       *)
(* record.  run_batch, checkpoint, restart_from_checkpoint.                 *)
AncestryLinked ==
    /\ Chained(k.accepted, k.curId)
    /\ Chained(k.bestAncestry, k.best)
    /\ Independent => k.prov \in {None, k.best}

SearchState(kernel) ==
    [graph |-> kernel.graph, score |-> kernel.score, best |-> kernel.best, key |-> kernel.key,
     scheme |-> kernel.scheme, tabu |-> kernel.tabu, evaluated |-> kernel.evaluated,
     high |-> kernel.high, accepted |-> kernel.accepted, bestAncestry |-> kernel.bestAncestry]

(* "exact restoration of graph, best graph, RNG, tabu, algorithm counter":  *)
(* a kernel restored from the checkpoint of a coherent kernel goes on from  *)
(* the same search state, whatever commands came before.                    *)
ResumeExact == Coherent => SearchState(Restored(Checkpoint(k, ver), FALSE)) = SearchState(k)

(* "the lane restarts the worker once and then fails closed": a lane whose  *)
(* score worker failed twice does not go on.  _cpp_score, _apply_commands.  *)
(* TLC refutes it, so no run checks it: a restart command whose evaluation  *)
(* raises is answered with "failed", and the lane runs on without a worker. *)
LaneFailsClosed == scorer = "closed" => phase # "running"
=============================================================================
