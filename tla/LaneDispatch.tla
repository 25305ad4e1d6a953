---------------------------- MODULE LaneDispatch -----------------------------
(***************************************************************************)
(* Delivery of committed lane actions: LaneActionDispatcher and LaneManager*)
(* in the coordinator, one worker process per lane, the command queue of   *)
(* each worker, the shared event queue back, the durable lane and action   *)
(* rows, and what CampaignRecovery makes of them after a crash or an       *)
(* orderly shutdown.                                                       *)
(*                                                                         *)
(* A lane's scientific state is abstracted to its version; a checkpoint to *)
(* the version it was taken at.  Micro-batches, telemetry, improvements    *)
(* and live frontiers carry no version change and are left out; retention  *)
(* of checkpoint files is DirectorView's subject.  patch_lane and          *)
(* restart_lane are delivered alike and share the kind "patch".            *)
(***************************************************************************)
EXTENDS Integers, Sequences, FiniteSets

CONSTANTS
    Lanes,            \* lane ids
    Actions,          \* action ids
    Kinds,            \* action kinds the Director uses in this instance
    MaxActiveLanes,   \* LaneManager.max_active_lanes
    CommandCapacity,  \* LaneManager.command_capacity
    MaxAttempts,      \* bound on execution attempts
    EmitTimeouts,     \* whether the event queue may stay full past _emit's timeouts
    NoAction, NoLane

ASSUME DispatchAssumption ==
    /\ Kinds \subseteq {"start", "fork", "patch", "stop", "reallocate"}
    /\ MaxActiveLanes \in Nat \ {0}
    /\ CommandCapacity \in Nat \ {0}
    /\ MaxAttempts \in Nat \ {0}
    /\ EmitTimeouts \in BOOLEAN
    /\ IsFiniteSet(Actions) /\ IsFiniteSet(Lanes)
    /\ NoAction \notin Actions
    /\ NoLane \notin Lanes

VARIABLES
    row,        \* research_lanes: state, version, checkpoint_ref, created_by
    act,        \* director_actions of the accepted actions
    outcome,    \* director_action_outcomes, "none" before the action exists
    attempt,    \* number of the current execution attempt
    phase,      \* the coordinator: up, draining, aborted, down or recovering
    faulted,    \* an exception left the coordinator loop
    inflight,   \* LaneActionDispatcher.inflight_actions
    births,     \* _births: children an action still waits for
    owner,      \* _birth_action_by_lane
    alloc,      \* _allocation_outcomes
    mgr,        \* LaneManager.lanes: known, and ended once its exit was seen
    mver,       \* LaneRuntime.lane_version
    restored,   \* lanes this attempt restored from a checkpoint
    resumable,  \* lanes the runner noted before it shut the workers down
    proc,       \* worker process: state and its own lane_version
    stop,       \* stop_event of each worker
    cmds,       \* command queue of each worker
    events      \* the event queue

rows == <<row, act, outcome, attempt>>
dispatcher == <<inflight, births, owner, alloc>>
manager == <<mgr, mver, restored>>
workers == <<proc, stop, cmds>>
vars == <<rows, phase, faulted, dispatcher, manager, resumable, workers, events>>

NoCheckpoint == -1
ActiveStates == {"starting", "running", "paused"}
RowStates == ActiveStates \cup {"absent", "stopped", "failed"}
BirthKinds == {"start", "fork"}
NoAct == [kind |-> "none", lanes |-> {}, parent |-> NoLane,
          expected |-> [l \in Lanes |-> 0]]
Outcomes == {"none", "pending", "applied", "failed", "rejected_stale_state",
             "rejected_late_completion", "rejected_lease_expired"}

Init ==
    /\ row = [l \in Lanes |-> [state |-> "absent", ver |-> 0, ckpt |-> NoCheckpoint, by |-> NoAction]]
    /\ act = [a \in Actions |-> NoAct]
    /\ outcome = [a \in Actions |-> "none"]
    /\ attempt = 1
    /\ phase = "up"
    /\ faulted = FALSE
    /\ inflight = {}
    /\ births = [a \in Actions |-> {}]
    /\ owner = [l \in Lanes |-> NoAction]
    /\ alloc = [a \in Actions |-> [l \in Lanes |-> "none"]]
    /\ mgr = [l \in Lanes |-> "none"]
    /\ mver = [l \in Lanes |-> 0]
    /\ restored = {}
    /\ resumable = {}
    /\ proc = [l \in Lanes |-> [state |-> "none", ver |-> 0]]
    /\ stop = [l \in Lanes |-> FALSE]
    /\ cmds = [l \in Lanes |-> <<>>]
    /\ events = <<>>

Event(kind, l, ver, a, status) ==
    [kind |-> kind, lane |-> l, ver |-> ver, action |-> a, status |-> status]

-----------------------------------------------------------------------------
(* commit_decision_batch for one lane action on a fresh snapshot.  Every   *)
(* applied outcome bumps the campaign version, so a fresh snapshot shows   *)
(* the current lane versions: expected is the version of the row.          *)
CommitAs(a, kind, S, parent) ==
    /\ phase = "up"
    /\ outcome[a] = "none"
    /\ kind \in Kinds
    /\ act' = [act EXCEPT ![a] = [kind |-> kind, lanes |-> S, parent |-> parent,
                                  expected |-> [l \in Lanes |-> row[l].ver]]]
    /\ outcome' = [outcome EXCEPT ![a] = "pending"]
    /\ UNCHANGED <<row, attempt, phase, faulted, dispatcher, manager, resumable, workers, events>>

(* A child's id is derived from its action's id, so it is nobody else's.   *)
Unclaimed(l) == \A b \in Actions : act[b].kind \in BirthKinds => l \notin act[b].lanes

CommitStart(a, l) == Unclaimed(l) /\ CommitAs(a, "start", {l}, NoLane)

CommitFork(a, p, S) ==
    /\ row[p].state \in ActiveStates /\ row[p].ckpt # NoCheckpoint
    /\ S # {} /\ \A l \in S : Unclaimed(l)
    /\ CommitAs(a, "fork", S, p)

CommitChange(a, kind, l) ==
    /\ kind \in {"patch", "stop"}
    /\ row[l].state \in ActiveStates
    /\ CommitAs(a, kind, {l}, NoLane)

CommitReallocation(a, S) ==
    /\ S # {} /\ \A l \in S : row[l].state \in ActiveStates
    /\ CommitAs(a, "reallocate", S, NoLane)

-----------------------------------------------------------------------------
(* dispatch_pending: deliver one pending action.                           *)
Deliverable(a) ==
    /\ phase \in {"up", "recovering"}
    /\ outcome[a] = "pending"
    /\ a \notin inflight

DispatchExpired(a) ==
    /\ Deliverable(a)
    /\ outcome' = [outcome EXCEPT ![a] = "rejected_lease_expired"]
    /\ UNCHANGED <<row, act, attempt, phase, faulted, dispatcher, manager, resumable, workers, events>>

ActiveLanes == {l \in Lanes : mgr[l] = "active"}

(* mark_lane_birth_failed on a table of rows.                              *)
BirthFailedForgotten(table, a) == table  \* variant: the starting rows stay
BirthFailed(table, a) ==
    [l \in Lanes |-> IF table[l].by = a /\ table[l].state = "starting"
                     THEN [table[l] EXCEPT !.state = "failed"] ELSE table[l]]

NewRow(a) == [state |-> "starting", ver |-> 0, ckpt |-> NoCheckpoint, by |-> a]

(* _start and _fork create each child's row and then its worker; _fork     *)
(* first needs the parent at the expected version.                         *)
ParentReady(a) ==
    act[a].kind = "fork" => /\ mgr[act[a].parent] # "none"
                            /\ mver[act[a].parent] = act[a].expected[act[a].parent]

BirthPossible(a) ==
    /\ \A l \in act[a].lanes : row[l].state = "absent"
    /\ Cardinality(ActiveLanes) + Cardinality(act[a].lanes) <= MaxActiveLanes
    /\ ParentReady(a)

DispatchBirth(a) ==
    /\ Deliverable(a)
    /\ act[a].kind \in BirthKinds
    /\ BirthPossible(a)
    /\ LET S == act[a].lanes IN
       /\ row' = [l \in Lanes |-> IF l \in S THEN NewRow(a) ELSE row[l]]
       /\ births' = [births EXCEPT ![a] = S]
       /\ owner' = [l \in Lanes |-> IF l \in S THEN a ELSE owner[l]]
       /\ mgr' = [l \in Lanes |-> IF l \in S THEN "active" ELSE mgr[l]]
       /\ mver' = [l \in Lanes |-> IF l \in S THEN 0 ELSE mver[l]]
       /\ proc' = [l \in Lanes |-> IF l \in S THEN [state |-> "booting", ver |-> 0] ELSE proc[l]]
    /\ inflight' = inflight \cup {a}
    /\ UNCHANGED <<act, outcome, attempt, phase, faulted, alloc, restored, resumable,
                   stop, cmds, events>>

(* An exception in _dispatch: an existing lane id or an unknown parent     *)
(* raises before any row; the active lane limit or a stale parent raises   *)
(* after the row of one more child, "orphan", whose worker never starts.   *)
(* _start has registered that child by then, _fork has not.  The handler   *)
(* stops every worker the action created, restored ones too, fails the     *)
(* action's starting lanes and records the failure.                        *)
DispatchBirthFails(a, made, orphan) ==
    /\ Deliverable(a)
    /\ act[a].kind \in BirthKinds
    /\ ~BirthPossible(a)
    /\ LET room == MaxActiveLanes - Cardinality(ActiveLanes)
           early == \/ \E l \in act[a].lanes : row[l].state # "absent"
                    \/ act[a].kind = "fork" /\ mgr[act[a].parent] = "none"
       IN IF early THEN made = {} /\ orphan = {}
          ELSE /\ made \subseteq act[a].lanes
               /\ Cardinality(made) = IF ParentReady(a) /\ room > 0 THEN room ELSE 0
               /\ \E l \in act[a].lanes \ made : orphan = {l}
    /\ row' = BirthFailed([l \in Lanes |-> IF l \in made \cup orphan THEN NewRow(a) ELSE row[l]], a)
    /\ mgr' = [l \in Lanes |-> IF l \in made THEN "active" ELSE mgr[l]]
    /\ proc' = [l \in Lanes |-> IF l \in made THEN [state |-> "booting", ver |-> 0] ELSE proc[l]]
    /\ stop' = [l \in Lanes |-> IF mgr'[l] # "none" /\ row'[l].by = a THEN TRUE ELSE stop[l]]
    /\ outcome' = [outcome EXCEPT ![a] = "failed"]
    /\ LET registered == IF act[a].kind = "start" THEN orphan ELSE {} IN
       /\ births' = [births EXCEPT ![a] = registered]
       /\ owner' = [l \in Lanes |-> IF l \in registered THEN a ELSE owner[l]]
    /\ UNCHANGED <<act, attempt, phase, faulted, inflight, alloc, mver, restored, resumable,
                   cmds, events>>

(* _send: the lane is known and its command queue has room.                *)
CanSend(l) == mgr[l] # "none" /\ Len(cmds[l]) < CommandCapacity

Send(a, S) ==
    cmds' = [l \in Lanes |-> IF l \in S
                THEN Append(cmds[l], [action |-> a, expected |-> act[a].expected[l], kind |-> act[a].kind])
                ELSE cmds[l]]

DispatchChange(a) ==
    /\ Deliverable(a)
    /\ act[a].kind \notin BirthKinds
    /\ \A l \in act[a].lanes : CanSend(l)
    /\ Send(a, act[a].lanes)
    /\ inflight' = inflight \cup {a}
    /\ UNCHANGED <<rows, phase, faulted, births, owner, alloc, manager, resumable, proc, stop, events>>

(* Some target cannot take its command; the ones before it already have.   *)
DispatchChangeFails(a, sent) ==
    /\ Deliverable(a)
    /\ act[a].kind \notin BirthKinds
    /\ \E l \in act[a].lanes : ~CanSend(l)
    /\ sent \subseteq {l \in act[a].lanes : CanSend(l)}
    /\ Send(a, sent)
    /\ outcome' = [outcome EXCEPT ![a] = "failed"]
    /\ UNCHANGED <<row, act, attempt, phase, faulted, dispatcher, manager, resumable,
                   proc, stop, events>>

-----------------------------------------------------------------------------
(* _lane_worker and _apply_commands.                                       *)

(* A checkpoint at the spec's version, then ready.                         *)
WorkerReady(l) ==
    /\ proc[l].state = "booting"
    /\ proc' = [proc EXCEPT ![l].state = "live"]
    /\ events' = events \o <<Event("checkpoint", l, proc[l].ver, NoAction, "none"),
                             Event("ready", l, proc[l].ver, NoAction, "none")>>
    /\ UNCHANGED <<rows, phase, faulted, dispatcher, manager, resumable, stop, cmds>>

(* A command at another version is rejected.  Otherwise it takes effect,   *)
(* bumps the version and is reported after its checkpoint ("ok"); or the   *)
(* kernel raises and the version stays ("raises"); or the effect is made   *)
(* and _emit times out on the full event queue, so that the failure is     *)
(* reported at the new version ("late").                                   *)
VersionAfterAny(v, how) == v + 1  \* variant: the version moves before the command is tried
VersionAfter(v, how) == IF how = "raises" THEN v ELSE v + 1

StaleNever(c, v) == FALSE  \* variant: the expected version is not compared
Stale(c, v) == c.expected # v

WorkerApplies(l, how) ==
    /\ proc[l].state = "live"
    /\ cmds[l] # <<>>
    /\ LET c == Head(cmds[l])
           v == proc[l].ver IN
       IF Stale(c, v)
       THEN /\ how = "ok"
            /\ events' = Append(events, Event("outcome", l, v, c.action, "rejected_stale_state"))
            /\ UNCHANGED <<proc, stop>>
       ELSE /\ how = "raises" => c.kind = "patch"
            /\ how = "late" => EmitTimeouts
            /\ proc' = [proc EXCEPT ![l].ver = VersionAfter(v, how)]
            /\ stop' = [stop EXCEPT ![l] = @ \/ c.kind = "stop"]
            /\ events' = IF how = "ok"
                         THEN events \o <<Event("checkpoint", l, v + 1, NoAction, "none"),
                                          Event("outcome", l, v + 1, c.action, "applied")>>
                         ELSE Append(events, Event("outcome", l, proc'[l].ver, c.action, "failed"))
    /\ cmds' = [cmds EXCEPT ![l] = Tail(@)]
    /\ UNCHANGED <<rows, phase, faulted, dispatcher, manager, resumable>>

(* The loop sees its stop event; commands still queued stay unread.        *)
WorkerStops(l) ==
    /\ proc[l].state = "live" /\ stop[l]
    /\ proc' = [proc EXCEPT ![l].state = "ended"]
    /\ events' = Append(events, Event("exit", l, proc[l].ver, NoAction, "stopped"))
    /\ UNCHANGED <<rows, phase, faulted, dispatcher, manager, resumable, stop, cmds>>

(* Anything else ends in a failure event that names no version.            *)
WorkerFails(l) ==
    /\ proc[l].state \in {"booting", "live"}
    /\ proc' = [proc EXCEPT ![l].state = "ended"]
    /\ events' = Append(events, Event("exit", l, 0, NoAction, "failure"))
    /\ UNCHANGED <<rows, phase, faulted, dispatcher, manager, resumable, stop, cmds>>

-----------------------------------------------------------------------------
(* poll_once: LaneManager._apply_event, then handle_event, on the oldest   *)
(* event.  Events are also handled while the runner drains its queues.     *)
Polling(kind) ==
    /\ phase \in {"up", "draining"}
    /\ events # <<>> /\ Head(events).kind = kind
    /\ events' = Tail(events)

(* The runner's finally block, up to the drain: it notes which lanes may   *)
(* be resumed and manager.shutdown stops the active workers.               *)
BeginDrain ==
    /\ phase' = "draining"
    /\ resumable' = {l \in Lanes : row[l].state \in ActiveStates}
    /\ stop' = [l \in Lanes |-> stop[l] \/ mgr[l] = "active"]

(* An exception out of the event pump parks the campaign (paused_fault)    *)
(* and starts the orderly shutdown; in the drain it cuts the shutdown off. *)
Fault ==
    /\ faulted' = TRUE
    /\ IF phase = "up" THEN BeginDrain
       ELSE phase' = "aborted" /\ UNCHANGED <<resumable, stop>>
    /\ row' = IF phase = "up"
              THEN [l \in Lanes |-> IF row[l].state = "running"
                                    THEN [row[l] EXCEPT !.state = "paused"] ELSE row[l]]
              ELSE row
    /\ UNCHANGED outcome

NoFault == UNCHANGED <<faulted, phase, resumable>>

(* record_lane_checkpoint: only while the row has the checkpoint's version.*)
CheckpointedRowRunning(r, v) ==  \* variant: a checkpoint marks its lane running
    IF r.ver = v THEN [r EXCEPT !.ckpt = v, !.state = "running"] ELSE r
CheckpointedRow(r, v) == IF r.ver = v THEN [r EXCEPT !.ckpt = v] ELSE r

HandleCheckpoint ==
    /\ Polling("checkpoint")
    /\ LET e == Head(events) IN row' = [row EXCEPT ![e.lane] = CheckpointedRow(@, e.ver)]
    /\ NoFault
    /\ UNCHANGED <<act, outcome, attempt, dispatcher, manager, workers>>

(* _handle_ready and complete_lane_births: the last child to be ready      *)
(* completes the birth, provided all of them are still starting.           *)
Awaited(a, l) == births[a] \ {l}

HandleReady ==
    /\ Polling("ready")
    /\ LET e == Head(events)
           a == owner[e.lane]
           children == {l \in Lanes : owner[l] = a} IN
       /\ mver' = [mver EXCEPT ![e.lane] = e.ver]
       /\ IF a = NoAction
          THEN UNCHANGED <<row, outcome, births, owner, inflight, stop>> /\ NoFault
          ELSE IF Awaited(a, e.lane) # {}
          THEN /\ births' = [births EXCEPT ![a] = Awaited(a, e.lane)]
               /\ UNCHANGED <<row, outcome, owner, inflight, stop>> /\ NoFault
          ELSE IF outcome[a] = "pending" /\ \E l \in children : row[l].state # "starting"
          THEN /\ Fault
               /\ births' = [births EXCEPT ![a] = {}]
               /\ UNCHANGED <<owner, inflight>>
          ELSE /\ IF outcome[a] = "pending"
                  THEN /\ row' = [l \in Lanes |-> IF l \in children
                                     THEN [row[l] EXCEPT !.state = "running"] ELSE row[l]]
                       /\ outcome' = [outcome EXCEPT ![a] = "applied"]
                  ELSE UNCHANGED <<row, outcome>>
               /\ inflight' = inflight \ {a}
               /\ births' = [births EXCEPT ![a] = {}]
               /\ owner' = [l \in Lanes |-> IF l \in children THEN NoAction ELSE owner[l]]
               /\ UNCHANGED stop /\ NoFault
    /\ UNCHANGED <<act, attempt, alloc, mgr, restored, proc, cmds>>

(* apply_lane_action_outcome: idempotent; an applied result must find the  *)
(* row at the expected version and move it by exactly one.                 *)
RevisedRowStopUnversioned(r, kind, v) ==  \* variant: a stop makes no new version
    IF kind = "stop" THEN [r EXCEPT !.state = "stopped"]
    ELSE [r EXCEPT !.ver = v, !.ckpt = v, !.state = "running"]
RevisedRowOldCheckpoint(r, kind, v) ==    \* variant: the row keeps its checkpoint
    [r EXCEPT !.ver = v, !.state = IF kind = "stop" THEN "stopped" ELSE "running"]
RevisedRow(r, kind, v) ==
    [r EXCEPT !.ver = v, !.ckpt = v, !.state = IF kind = "stop" THEN "stopped" ELSE "running"]

ApplyLaneOutcome(a, l, status, v) ==
    LET onTime == row[l].ver = act[a].expected[l] /\ v = row[l].ver + 1 IN
    IF outcome[a] # "pending" THEN UNCHANGED <<row, outcome>>
    ELSE /\ outcome' = [outcome EXCEPT ![a] =
                 IF status = "applied" /\ ~onTime THEN "rejected_late_completion" ELSE status]
         /\ row' = IF status = "applied" /\ onTime
                   THEN [row EXCEPT ![l] = RevisedRow(@, act[a].kind, v)] ELSE row

HandleOutcome ==
    /\ Polling("outcome")
    /\ LET e == Head(events) IN
       /\ act[e.action].kind # "reallocate"
       /\ ApplyLaneOutcome(e.action, e.lane, e.status, e.ver)
       /\ mver' = [mver EXCEPT ![e.lane] = e.ver]
       /\ inflight' = inflight \ {e.action}
    /\ NoFault
    /\ UNCHANGED <<act, attempt, births, owner, alloc, mgr, restored, workers>>

(* _handle_action_outcome of a sub-action, and _complete_allocation once   *)
(* every lane has answered: one refusal fails the whole action, otherwise  *)
(* apply_multi_lane_action_outcome moves every row or raises.              *)
AllAnsweredNever(S, got) == FALSE            \* variant: the last answer is not noticed
AllAnswered(S, got) == \A l \in S : got[l] # "none"
Refused(S, got) == \E l \in S : got[l] # "applied"
AllocatedRow(r) == [r EXCEPT !.ver = @ + 1, !.ckpt = r.ver + 1]

HandleAllocation ==
    /\ Polling("outcome")
    /\ LET e == Head(events)
           a == e.action
           S == act[a].lanes
           got == [alloc[a] EXCEPT ![e.lane] = e.status]
           onTime == \A l \in S : row[l].ver = act[a].expected[l] IN
       /\ act[a].kind = "reallocate"
       /\ mver' = [mver EXCEPT ![e.lane] = e.ver]
       /\ IF ~AllAnswered(S, got)
          THEN /\ alloc' = [alloc EXCEPT ![a] = got]
               /\ UNCHANGED <<row, outcome, inflight, stop>> /\ NoFault
          ELSE IF outcome[a] = "pending" /\ ~Refused(S, got) /\ ~onTime
          THEN Fault /\ UNCHANGED <<alloc, inflight>>
          ELSE /\ IF outcome[a] # "pending" THEN UNCHANGED <<row, outcome>>
                  ELSE IF Refused(S, got)
                  THEN outcome' = [outcome EXCEPT ![a] = "failed"] /\ UNCHANGED row
                  ELSE /\ outcome' = [outcome EXCEPT ![a] = "applied"]
                       /\ row' = [l \in Lanes |-> IF l \in S THEN AllocatedRow(row[l]) ELSE row[l]]
               /\ alloc' = [alloc EXCEPT ![a] = [l \in Lanes |-> "none"]]
               /\ inflight' = inflight \ {a}
               /\ UNCHANGED stop /\ NoFault
    /\ UNCHANGED <<act, attempt, births, owner, mgr, restored, proc, cmds>>

(* _handle_exit and record_lane_exit.  A failure event is dated with the   *)
(* version the manager last saw.  A child that ends before its birth is    *)
(* complete takes its siblings and the action with it.                     *)
ExitVersion(e) == IF e.status = "failure" THEN mver[e.lane] ELSE e.ver

ExitedRow(e) ==
    LET r == row[e.lane] IN
    IF r.ver = ExitVersion(e) /\ r.state \notin {"failed", "stopped", "absent"}
    THEN [row EXCEPT ![e.lane].state = IF e.status = "failure" THEN "failed" ELSE "stopped"]
    ELSE row

HandleExit ==
    /\ Polling("exit")
    /\ LET e == Head(events)
           a == owner[e.lane]
           siblings == {l \in Lanes \ {e.lane} : owner[l] = a} IN
       /\ mgr' = [mgr EXCEPT ![e.lane] = "ended"]
       /\ IF a # NoAction /\ a \in inflight
          THEN /\ row' = BirthFailed(ExitedRow(e), a)
               /\ stop' = [l \in Lanes |-> stop[l] \/ l \in siblings]
               /\ outcome' = [outcome EXCEPT ![a] = IF @ = "pending" THEN "failed" ELSE @]
               /\ owner' = [l \in Lanes |-> IF l \in siblings \cup {e.lane} THEN NoAction ELSE owner[l]]
               /\ births' = [births EXCEPT ![a] = {}]
               /\ inflight' = inflight \ {a}
          ELSE /\ row' = ExitedRow(e)
               /\ owner' = [owner EXCEPT ![e.lane] = NoAction]
               /\ UNCHANGED <<outcome, births, inflight, stop>>
    /\ NoFault
    /\ UNCHANGED <<act, attempt, alloc, mver, restored, proc, cmds>>

-----------------------------------------------------------------------------
(* The end of an attempt, and the next one.                                *)

(* The runner leaves its loop on a pause, stop, deadline or budget.        *)
Shutdown ==
    /\ phase = "up"
    /\ BeginDrain
    /\ UNCHANGED <<rows, faulted, dispatcher, manager, proc, cmds, events>>

(* Nothing of the coordinator or its workers survives it.                  *)
GoDown ==
    /\ phase' = "down"
    /\ inflight' = {}
    /\ births' = [a \in Actions |-> {}]
    /\ owner' = [l \in Lanes |-> NoAction]
    /\ alloc' = [a \in Actions |-> [l \in Lanes |-> "none"]]
    /\ mgr' = [l \in Lanes |-> "none"]
    /\ mver' = [l \in Lanes |-> 0]
    /\ restored' = {} /\ resumable' = {}
    /\ proc' = [l \in Lanes |-> [state |-> "none", ver |-> 0]]
    /\ stop' = [l \in Lanes |-> FALSE]
    /\ cmds' = [l \in Lanes |-> <<>>]
    /\ events' = <<>>

(* The drain handles at most four events per lane; micro-batch events,     *)
(* which the model leaves out, count, so it may end at any point.  Workers *)
(* that are still alive were killed.  preserve_lanes_for_resume then       *)
(* pauses the lanes noted before the drain.                                *)
Preserved(l) == l \in resumable /\ row[l].ckpt # NoCheckpoint /\ row[l].state # "failed"

ShutdownEnd ==
    /\ phase = "draining"
    /\ row' = [l \in Lanes |-> IF Preserved(l)
                 THEN [row[l] EXCEPT !.state = "paused"] ELSE row[l]]
    /\ GoDown
    /\ UNCHANGED <<act, outcome, attempt, faulted>>

Crash ==
    /\ phase # "down"
    /\ GoDown
    /\ UNCHANGED <<rows, faulted>>

(* The coordinator dies inside _fork, between the rows of two children.    *)
CrashInBirth(a, made) ==
    /\ Deliverable(a)
    /\ act[a].kind = "fork" /\ BirthPossible(a)
    /\ made # {} /\ made \subseteq act[a].lanes
    /\ row' = [l \in Lanes |-> IF l \in made THEN NewRow(a) ELSE row[l]]
    /\ GoDown
    /\ UNCHANGED <<act, outcome, attempt, faulted>>

(* resume_campaign and CampaignRecovery.recover: every active lane is      *)
(* paused, then restored from its checkpoint if that has the row's version *)
(* and the active lane limit allows, else failed.  A crash in between      *)
(* leaves rows on which the next attempt decides in the same way.          *)
Restorable == {l \in Lanes : row[l].state \in ActiveStates /\ row[l].ckpt = row[l].ver}

Recover(R) ==
    /\ phase = "down" /\ attempt < MaxAttempts
    /\ R \subseteq Restorable
    /\ R = Restorable \/ Cardinality(R) = MaxActiveLanes
    /\ attempt' = attempt + 1
    /\ phase' = "recovering"
    /\ row' = [l \in Lanes |->
                 IF row[l].state \notin ActiveStates THEN row[l]
                 ELSE [row[l] EXCEPT !.state = IF l \in R THEN "paused" ELSE "failed"]]
    /\ restored' = R
    /\ mgr' = [l \in Lanes |-> IF l \in R THEN "active" ELSE "none"]
    /\ mver' = [l \in Lanes |-> IF l \in R THEN row[l].ver ELSE 0]
    /\ proc' = [l \in Lanes |-> IF l \in R THEN [state |-> "booting", ver |-> row[l].ver]
                                ELSE proc[l]]
    /\ UNCHANGED <<act, outcome, faulted, dispatcher, resumable, stop, cmds, events>>

(* activate_recovered_lanes, after recover has dispatched what was pending.*)
ActivateRecovered ==
    /\ phase = "recovering"
    /\ \A a \in Actions : ~Deliverable(a)
    /\ row' = [l \in Lanes |-> IF l \in restored /\ row[l].state = "paused"
                               THEN [row[l] EXCEPT !.state = "running"] ELSE row[l]]
    /\ phase' = "up"
    /\ UNCHANGED <<act, outcome, attempt, faulted, dispatcher, manager, resumable, workers, events>>

-----------------------------------------------------------------------------
Commit ==
    \E a \in Actions :
        \/ \E l \in Lanes : CommitStart(a, l)
        \/ \E p \in Lanes, S \in SUBSET Lanes : CommitFork(a, p, S)
        \/ \E l \in Lanes, kind \in {"patch", "stop"} : CommitChange(a, kind, l)
        \/ \E S \in SUBSET Lanes : CommitReallocation(a, S)

Dispatch ==
    \E a \in Actions :
        \/ DispatchBirth(a)
        \/ \E made, orphan \in SUBSET Lanes : DispatchBirthFails(a, made, orphan)
        \/ DispatchChange(a)
        \/ \E sent \in SUBSET Lanes : DispatchChangeFails(a, sent)

Poll == HandleCheckpoint \/ HandleReady \/ HandleOutcome \/ HandleAllocation \/ HandleExit

WorkerStep(l) ==
    \/ WorkerReady(l)
    \/ \E how \in {"ok", "raises", "late"} : WorkerApplies(l, how)
    \/ WorkerStops(l)

Next ==
    \/ Commit
    \/ \E a \in Actions : DispatchExpired(a)
    \/ Dispatch
    \/ \E l \in Lanes : WorkerStep(l) \/ WorkerFails(l)
    \/ Poll
    \/ Shutdown \/ ShutdownEnd \/ Crash
    \/ \E a \in Actions, made \in SUBSET Lanes : CrashInBirth(a, made)
    \/ \E R \in SUBSET Lanes : Recover(R)
    \/ ActivateRecovered

Spec == Init /\ [][Next]_vars

(* The runner keeps dispatching and polling while it is up, recovery ends, *)
(* and worker processes are scheduled; nothing makes a lane fail, nothing  *)
(* ends the attempt.                                                       *)
Fairness ==
    /\ WF_vars(Dispatch)
    /\ WF_vars(Poll)
    /\ WF_vars(ActivateRecovered)
    /\ \A l \in Lanes : WF_vars(WorkerStep(l))

FairSpec == Spec /\ Fairness

-----------------------------------------------------------------------------
EventTypes == [kind : {"checkpoint", "ready", "outcome", "exit"}, lane : Lanes, ver : Nat,
               action : Actions \cup {NoAction},
               status : {"none", "applied", "failed", "rejected_stale_state", "stopped", "failure"}]

(* Every variable has its type.                                            *)
TypeOK ==
    /\ row \in [Lanes -> [state : RowStates, ver : Nat, ckpt : Nat \cup {NoCheckpoint},
                          by : Actions \cup {NoAction}]]
    /\ act \in [Actions -> [kind : Kinds \cup {"none"}, lanes : SUBSET Lanes,
                            parent : Lanes \cup {NoLane}, expected : [Lanes -> Nat]]]
    /\ outcome \in [Actions -> Outcomes]
    /\ attempt \in 1..MaxAttempts
    /\ phase \in {"up", "draining", "aborted", "down", "recovering"}
    /\ faulted \in BOOLEAN
    /\ inflight \subseteq Actions
    /\ births \in [Actions -> SUBSET Lanes]
    /\ owner \in [Lanes -> Actions \cup {NoAction}]
    /\ alloc \in [Actions -> [Lanes -> {"none", "applied", "failed", "rejected_stale_state"}]]
    /\ mgr \in [Lanes -> {"none", "active", "ended"}]
    /\ mver \in [Lanes -> Nat]
    /\ restored \subseteq Lanes /\ resumable \subseteq Lanes
    /\ proc \in [Lanes -> [state : {"none", "booting", "live", "ended"}, ver : Nat]]
    /\ stop \in [Lanes -> BOOLEAN]
    /\ \A l \in Lanes : Len(cmds[l]) <= CommandCapacity
    /\ \A i \in DOMAIN events : events[i] \in EventTypes

(* The commands a lane ever took on durably: applied revisions of it.      *)
Revisions(l) == {a \in Actions : /\ act[a].kind \notin BirthKinds /\ l \in act[a].lanes
                                 /\ outcome[a] = "applied"}

(* Exactly once: a lane's durable version counts the applied actions that  *)
(* revised it, whatever was redelivered after crashes.                     *)
(* apply_lane_action_outcome, apply_multi_lane_action_outcome, recover.    *)
VersionCountsRevisions == \A l \in Lanes : row[l].ver = Cardinality(Revisions(l))

(* Whenever the coordinator may crash, a lane that is running or paused    *)
(* can be restored: its durable checkpoint was taken at its version.       *)
(* record_lane_checkpoint and the outcomes keep the two together.          *)
RunningLanesRestorable ==
    \A l \in Lanes : row[l].state \in {"running", "paused"} => row[l].ckpt = row[l].ver

(* Nothing about lane l is under way.                                      *)
Quiet(l) ==
    /\ phase = "up" /\ proc[l].state = "live" /\ ~stop[l]
    /\ cmds[l] = <<>>
    /\ \A i \in DOMAIN events : events[i].lane # l
    /\ \A a \in inflight : l \notin act[a].lanes

(* Once nothing is under way for a lane, its worker and its row agree on   *)
(* the version, so the next accepted command can take effect.              *)
QuiescentAgreement == \A l \in Lanes : Quiet(l) => proc[l].ver = row[l].ver

(* No active row without a process: a lane whose row is starting, running  *)
(* or paused has a live worker, or its exit is on the way.  _handle_exit,  *)
(* mark_lane_birth_failed, recover.                                        *)
NoZombieLane ==
    phase = "up" => \A l \in Lanes : row[l].state \in ActiveStates =>
        \/ proc[l].state \in {"booting", "live"}
        \/ \E i \in DOMAIN events : events[i].kind = "exit" /\ events[i].lane = l

(* No accepted sequence of lane actions makes the event pump raise, which  *)
(* would park the campaign in paused_fault.                                *)
NoCoordinatorFault == ~faulted

(* An applied stop_lane is final: no later attempt runs the lane again.    *)
StoppedStaysStopped ==
    \A a \in Actions : act[a].kind = "stop" /\ outcome[a] = "applied" =>
        \A l \in act[a].lanes : row[l].state \notin ActiveStates

(* A birth is one event: its children start running together, in the       *)
(* transaction that records the action as applied, and not before.         *)
(* _handle_ready, complete_lane_births.                                    *)
BirthsAtomic ==
    phase = "up" => \A a \in Actions : act[a].kind \in BirthKinds =>
        /\ outcome[a] = "applied" => \A l \in act[a].lanes : row[l].state \notin {"absent", "starting"}
        /\ outcome[a] = "pending" => \A l \in act[a].lanes : row[l].state # "running"

Ended == phase \in {"draining", "aborted", "down"}

(* Every accepted lane action none of whose lanes loses its worker gets an *)
(* outcome unless the attempt ends: births that wait for several children, *)
(* rejected commands and allocations answered in any order.  (A command    *)
(* left unread by a lane that ends stays in flight: _handle_exit settles   *)
(* births only.)                                                           *)
ActionsSettleWhileLanesLive ==
    \A a \in Actions : outcome[a] = "pending" ~>
        \/ outcome[a] # "pending" \/ Ended
        \/ act[a].kind \notin BirthKinds /\ \E l \in act[a].lanes : proc[l].state = "ended"
=============================================================================
