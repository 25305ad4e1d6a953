------------------------- MODULE LaneDispatchProofs --------------------------
(***************************************************************************)
(* Machine-checked proofs about LaneDispatch, for every number of lanes,   *)
(* actions, attempts and commands in flight, every mix of action kinds,    *)
(* and whether or not events can be lost to a full queue: a lane's durable *)
(* version counts the actions applied to it exactly once, a lane that runs *)
(* can be restored, and the children of a birth start running together.    *)
(* Without reallocations and lost events, a lane that is to run has a      *)
(* worker, and a worker at rest agrees with its row.  The event pump       *)
(* raises only for a fork whose child moved on before its siblings were    *)
(* ready.                                                                  *)
(***************************************************************************)
EXTENDS LaneDispatch, FiniteSetTheorems, SequenceTheorems, NaturalsInduction, WellFoundedInduction,
        TLAPS

RowTypes == [state : RowStates, ver : Nat, ckpt : Nat \cup {NoCheckpoint}, by : Actions \cup {NoAction}]
ActTypes == [kind : Kinds \cup {"none"}, lanes : SUBSET Lanes, parent : Lanes \cup {NoLane},
             expected : [Lanes -> Nat]]
ProcTypes == [state : {"none", "booting", "live", "ended"}, ver : Nat]
CommandTypes == [action : Actions, expected : Nat, kind : Kinds]

(* A message about an action answers one of its lanes.                     *)
ChangeKinds == {"patch", "stop", "reallocate"}
Targets(a, l) == a \in Actions /\ act[a].kind \in ChangeKinds /\ l \in act[a].lanes
CommandsFor(l) == {c \in CommandTypes : Targets(c.action, l)}
Answers == {"applied", "failed", "rejected_stale_state"}
GoodEvents ==
    {e \in EventTypes : /\ row[e.lane].state # "absent"
                        /\ e.kind = "outcome" => e.status \in Answers /\ Targets(e.action, e.lane)}

Messages ==
    /\ cmds \in [Lanes -> Seq(CommandTypes)] /\ \A l \in Lanes : cmds[l] \in Seq(CommandsFor(l))
    /\ events \in Seq(GoodEvents)

Tables ==
    /\ row \in [Lanes -> RowTypes] /\ act \in [Actions -> ActTypes] /\ outcome \in [Actions -> Outcomes]
    /\ births \in [Actions -> SUBSET Lanes] /\ owner \in [Lanes -> Actions \cup {NoAction}]
    /\ proc \in [Lanes -> ProcTypes]

(* An action exists once it has been committed; a change of one lane names *)
(* that lane, and lanes that exist.                                        *)
ActsExist ==
    \A a \in Actions :
        /\ outcome[a] = "none" <=> act[a].kind = "none"
        /\ act[a].kind \in {"patch", "stop"} => \E l \in Lanes : act[a].lanes = {l}
        /\ act[a].kind \in ChangeKinds => \A l \in act[a].lanes : row[l].state # "absent"

(* A row's checkpoint was taken at its version, and a lane that runs, or   *)
(* has taken on a revision, has one.                                       *)
RowSound(r) ==
    /\ r.ckpt \in {NoCheckpoint, r.ver}
    /\ r.state = "absent" => r.ver = 0 /\ r.ckpt = NoCheckpoint
    /\ r.ver # 0 => r.ckpt # NoCheckpoint
    /\ r.state \in {"running", "paused"} => r.ckpt # NoCheckpoint

(* A lane whose birth is awaited belongs to the action that awaits it, and *)
(* is awaited until its checkpoint is durable.                             *)
OwnersSound ==
    \A l \in Lanes : owner[l] # NoAction =>
        /\ act[owner[l]].kind \in BirthKinds /\ l \in act[owner[l]].lanes
        /\ outcome[owner[l]] = "pending" => owner[l] \in inflight
        /\ l \in births[owner[l]] \/ row[l].ckpt # NoCheckpoint

(* A worker reports ready after the checkpoint of its first version.       *)
ReadySound ==
    /\ \A l \in Lanes : proc[l].state = "booting" => proc[l].ver = 0 \/ row[l].ckpt # NoCheckpoint
    /\ \A i \in 1 .. Len(events) : events[i].kind = "ready" =>
        \/ row[events[i].lane].ckpt # NoCheckpoint
        \/ /\ i > 1 /\ events[i - 1].kind = "checkpoint"
           /\ events[i - 1].lane = events[i].lane /\ events[i - 1].ver = 0

(* A worker belongs to a lane that exists.                                 *)
RowsSound == \A l \in Lanes : RowSound(row[l]) /\ (proc[l].state # "none" => row[l].state # "absent")

IInv ==
    /\ Tables /\ Messages /\ ActsExist /\ RowsSound /\ OwnersSound /\ ReadySound
    /\ VersionCountsRevisions

-----------------------------------------------------------------------------
(* Rows.                                                                   *)

(* A change of state.                                                      *)
LEMMA StateChanged ==
    ASSUME NEW r \in RowTypes, RowSound(r), NEW s \in RowStates, s # "absent",
           s \in {"running", "paused"} => r.ckpt # NoCheckpoint
    PROVE  LET n == [r EXCEPT !.state = s] IN
           n \in RowTypes /\ RowSound(n) /\ n.ckpt = r.ckpt /\ n.ver = r.ver /\ n.state = s
<1> DEFINE n == [r EXCEPT !.state = s]
<1>1. n \in RowTypes /\ n.state = s /\ n.ckpt = r.ckpt /\ n.ver = r.ver
  BY DEF RowTypes
<1>2. RowSound(n)
  BY <1>1 DEF RowSound
<1> QED
  BY <1>1, <1>2

(* A revision: apply_lane_action_outcome.                                  *)
LEMMA RowRevised ==
    ASSUME NEW r \in RowTypes, NEW kind, NEW v \in Nat
    PROVE  LET n == RevisedRow(r, kind, v) IN
           n \in RowTypes /\ RowSound(n) /\ n.ckpt # NoCheckpoint /\ n.ver = v /\ n.state # "absent"
<1> DEFINE s == IF kind = "stop" THEN "stopped" ELSE "running"
           n == [r EXCEPT !.ver = v, !.ckpt = v, !.state = s]
<1>1. s \in RowStates /\ s # "absent"
  BY DEF RowStates, ActiveStates
<1> HIDE DEF s
<1>2. n \in RowTypes /\ n.state = s /\ n.ckpt = v /\ n.ver = v
  BY <1>1 DEF RowTypes
<1>3. v # NoCheckpoint
  BY DEF NoCheckpoint
<1>4. RowSound(n)
  BY <1>1, <1>2, <1>3 DEF RowSound
<1> QED
  BY <1>1, <1>2, <1>3, <1>4 DEF RevisedRow, s

(* An allocation: apply_multi_lane_action_outcome.                         *)
LEMMA RowAllocated ==
    ASSUME NEW r \in RowTypes, RowSound(r), r.state # "absent"
    PROVE  LET n == AllocatedRow(r) IN
           n \in RowTypes /\ RowSound(n) /\ n.ckpt # NoCheckpoint /\ n.ver = r.ver + 1 /\ n.state # "absent"
<1> DEFINE v == r.ver + 1
           n == [r EXCEPT !.ver = v, !.ckpt = v]
<1>0. r.ver \in Nat
  BY DEF RowTypes
<1>1. v \in Nat /\ v # NoCheckpoint
  BY <1>0 DEF NoCheckpoint
<1>2. AllocatedRow(r) = n
  BY DEF AllocatedRow, RowTypes
<1> HIDE DEF v
<1>3. n \in RowTypes /\ n.state = r.state /\ n.ckpt = v /\ n.ver = v
  BY <1>1 DEF RowTypes
<1>4. RowSound(n)
  BY <1>1, <1>3 DEF RowSound
<1> QED
  BY <1>1, <1>2, <1>3, <1>4 DEF v

(* A checkpoint: record_lane_checkpoint.                                   *)
LEMMA RowCheckpointed ==
    ASSUME NEW r \in RowTypes, RowSound(r), r.state # "absent", NEW v \in Nat
    PROVE  LET n == CheckpointedRow(r, v) IN
           /\ n \in RowTypes /\ RowSound(n) /\ n.ver = r.ver /\ n.state # "absent"
           /\ r.ckpt # NoCheckpoint \/ v = 0 => n.ckpt # NoCheckpoint
<1>1. CASE r.ver # v
  BY <1>1 DEF CheckpointedRow, RowSound
<1>2. CASE r.ver = v
  <2> DEFINE n == [r EXCEPT !.ckpt = v]
  <2>1. n \in RowTypes /\ n.state = r.state /\ n.ckpt = v /\ n.ver = r.ver
    BY DEF RowTypes
  <2>2. v # NoCheckpoint
    BY DEF NoCheckpoint
  <2>3. RowSound(n)
    BY <1>2, <2>1, <2>2 DEF RowSound
  <2> QED
    BY <1>2, <2>1, <2>2, <2>3 DEF CheckpointedRow
<1> QED
  BY <1>1, <1>2

(* A new row.                                                              *)
LEMMA RowCreated ==
    ASSUME NEW a \in Actions
    PROVE  /\ NewRow(a) \in RowTypes /\ RowSound(NewRow(a)) /\ NewRow(a).ver = 0
           /\ NewRow(a).state = "starting" /\ NewRow(a).ckpt = NoCheckpoint
BY DEF NewRow, RowTypes, RowStates, ActiveStates, RowSound

-----------------------------------------------------------------------------
(* Versions.                                                               *)

(* A lane has finitely many revisions.                                     *)
LEMMA RevisionsFinite ==
    ASSUME NEW l \in Lanes
    PROVE  IsFiniteSet(Revisions(l)) /\ Cardinality(Revisions(l)) \in Nat
<1>1. Revisions(l) \subseteq Actions
  BY DEF Revisions
<1> QED
  BY <1>1, DispatchAssumption, FS_Subset, FS_CardinalityType

(* A step that applies no change moves no version.                         *)
LEMMA VersionKept ==
    ASSUME VersionCountsRevisions, \A l \in Lanes : row'[l].ver = row[l].ver,
           \A a \in Actions : \/ act'[a] = act[a] /\ outcome'[a] = outcome[a]
                              \/ outcome[a] # "applied" /\ outcome'[a] # "applied"
                              \/ act[a].kind \in BirthKinds /\ act'[a] = act[a]
    PROVE  VersionCountsRevisions'
<1>1. \A l \in Lanes : Revisions(l)' = Revisions(l)
  BY DEF Revisions
<1> QED
  BY <1>1 DEF VersionCountsRevisions

(* A step that applies one moves the versions of its lanes by one.         *)
LEMMA VersionMoved ==
    ASSUME VersionCountsRevisions, NEW a \in Actions, outcome[a] = "pending", outcome'[a] = "applied",
           act[a].kind \in ChangeKinds, act' = act,
           \A b \in Actions : b # a => outcome'[b] = outcome[b],
           \A l \in act[a].lanes : row'[l].ver = row[l].ver + 1,
           \A l \in Lanes \ act[a].lanes : row'[l].ver = row[l].ver
    PROVE  VersionCountsRevisions'
<1>1. ASSUME NEW l \in Lanes PROVE row'[l].ver = Cardinality(Revisions(l)')
  <2>1. row[l].ver = Cardinality(Revisions(l))
    BY DEF VersionCountsRevisions
  <2>2. CASE l \in act[a].lanes
    <3>1. Revisions(l)' = Revisions(l) \cup {a} /\ a \notin Revisions(l)
      BY <2>2 DEF Revisions, ChangeKinds, BirthKinds
    <3>2. Cardinality(Revisions(l) \cup {a}) = Cardinality(Revisions(l)) + 1
      BY <3>1, RevisionsFinite, FS_AddElement
    <3> QED
      BY <2>1, <2>2, <3>1, <3>2
  <2>3. CASE l \notin act[a].lanes
    <3>1. Revisions(l)' = Revisions(l)
      BY <2>3 DEF Revisions
    <3> QED
      BY <2>1, <2>3, <3>1
  <2> QED
    BY <2>2, <2>3
<1> QED
  BY <1>1 DEF VersionCountsRevisions

-----------------------------------------------------------------------------
(* Messages.                                                               *)

(* A queue over fewer messages is one over more.                           *)
LEMMA SeqLarger ==
    ASSUME NEW S, NEW T, S \subseteq T, NEW s \in Seq(S)
    PROVE  s \in Seq(T)
OBVIOUS

(* The rest of a queue, or none of it.                                     *)
LEMMA TailKept ==
    ASSUME NEW S, NEW s \in Seq(S), NEW t, t = s \/ t = <<>> \/ (s # <<>> /\ t = Tail(s))
    PROVE  t \in Seq(S)
BY HeadTailProperties, EmptySeq

(* No lane vanishes.                                                       *)
LanesStay == \A l \in Lanes : row[l].state # "absent" => row'[l].state # "absent"

(* What is said of actions stays true as long as actions only appear.      *)
LEMMA MessagesKept ==
    ASSUME Messages, LanesStay, \A a \in Actions : act[a].kind # "none" => act'[a] = act[a],
           \A l \in Lanes : cmds'[l] = cmds[l] \/ cmds'[l] = <<>>
                               \/ (cmds[l] # <<>> /\ cmds'[l] = Tail(cmds[l])),
           cmds' \in [Lanes -> Seq(CommandTypes)],
           events' = events \/ events' = <<>> \/ (events # <<>> /\ events' = Tail(events))
    PROVE  Messages'
<1>1. \A a, l : Targets(a, l) => Targets(a, l)'
  BY DEF Targets, ChangeKinds
<1>2. GoodEvents \subseteq GoodEvents'
  BY <1>1 DEF GoodEvents, LanesStay, EventTypes
<1>3. \A l \in Lanes : CommandsFor(l) \subseteq CommandsFor(l)'
  BY <1>1 DEF CommandsFor
<1>4. events' \in Seq(GoodEvents)
  BY TailKept DEF Messages
<1>5. \A l \in Lanes : cmds'[l] \in Seq(CommandsFor(l))
  BY TailKept DEF Messages
<1> QED
  BY <1>2, <1>3, <1>4, <1>5, SeqLarger DEF Messages

(* New events join the queue.                                              *)
LEMMA EventsJoin ==
    ASSUME events \in Seq(GoodEvents), UNCHANGED <<act, row>>, NEW new \in Seq(GoodEvents),
           events' = events \o new
    PROVE  events' \in Seq(GoodEvents')
<1>1. GoodEvents' = GoodEvents
  BY DEF GoodEvents, Targets
<1> QED
  BY <1>1, ConcatProperties

-----------------------------------------------------------------------------
(* What a step owes to each part of the invariant.                         *)
RowsStep ==
    /\ row' \in [Lanes -> RowTypes]
    /\ \A l \in Lanes : /\ RowSound(row'[l])
                        /\ row[l].ckpt # NoCheckpoint => row'[l].ckpt # NoCheckpoint
    /\ LanesStay

(* Actions are committed once and keep what they are.                      *)
ActsStep ==
    /\ act' = act /\ outcome' \in [Actions -> Outcomes]
    /\ \A a \in Actions : outcome'[a] = "none" <=> outcome[a] = "none"

(* What is known of an action does not depend on its outcome.              *)
LEMMA ActsKept ==
    ASSUME ActsExist, ActsStep, LanesStay, Tables
    PROVE  ActsExist'
BY DEF ActsExist, ActsStep, LanesStay, Tables, ActTypes

(* Lanes leave their births, or stay in them on the same terms.            *)
LEMMA OwnersKept ==
    ASSUME OwnersSound, RowsStep, Tables,
           \A a \in Actions : act[a].kind # "none" => act'[a] = act[a],
           \A l \in Lanes : owner'[l] \in {owner[l], NoAction},
           \A a \in Actions : act[a].kind \in BirthKinds /\ outcome'[a] = "pending" =>
               outcome[a] = "pending" /\ (a \in inflight => a \in inflight'),
           \A l \in Lanes : owner'[l] # NoAction =>
               \/ births'[owner[l]] = births[owner[l]]
               \/ l \in births'[owner[l]] \/ row'[l].ckpt # NoCheckpoint
    PROVE  OwnersSound'
<1>1. ASSUME NEW l \in Lanes, owner'[l] # NoAction
      PROVE  /\ act'[owner'[l]].kind \in BirthKinds /\ l \in act'[owner'[l]].lanes
             /\ outcome'[owner'[l]] = "pending" => owner'[l] \in inflight'
             /\ l \in births'[owner'[l]] \/ row'[l].ckpt # NoCheckpoint
  <2>1. owner'[l] = owner[l] /\ owner[l] \in Actions
    BY <1>1 DEF Tables
  <2>2. /\ act[owner[l]].kind \in BirthKinds /\ l \in act[owner[l]].lanes
        /\ outcome[owner[l]] = "pending" => owner[l] \in inflight
        /\ l \in births[owner[l]] \/ row[l].ckpt # NoCheckpoint
    BY <1>1, <2>1 DEF OwnersSound
  <2>3. act'[owner[l]] = act[owner[l]]
    BY <2>1, <2>2 DEF BirthKinds
  <2> QED
    BY <1>1, <2>1, <2>2, <2>3 DEF RowsStep
<1> QED
  BY <1>1 DEF OwnersSound

(* The worker of a lane starts at version 0 or from a checkpoint.          *)
BootStep ==
    \A l \in Lanes : proc'[l].state = "booting" =>
        \/ proc[l].state = "booting" /\ proc'[l].ver = proc[l].ver
        \/ proc'[l].ver = 0 \/ row'[l].ckpt # NoCheckpoint

(* Every event names a lane.                                               *)
LEMMA EventLanes ==
    ASSUME Messages
    PROVE  /\ \A i \in 1 .. Len(events) : events[i] \in EventTypes /\ events[i].lane \in Lanes
           /\ Len(events) \in Nat
<1>1. events \in Seq(GoodEvents)
  BY DEF Messages
<1>2. \A i \in 1 .. Len(events) : events[i] \in GoodEvents
  BY <1>1
<1>3. \A e \in GoodEvents : e \in EventTypes /\ e.lane \in Lanes
  BY DEF GoodEvents, EventTypes
<1> QED
  BY <1>1, <1>2, <1>3

(* Nothing is said or read.                                                *)
LEMMA ReadyKept ==
    ASSUME ReadySound, Messages, RowsStep, BootStep, events' = events \/ events' = <<>>
    PROVE  ReadySound'
<1>1. \A l \in Lanes : proc'[l].state = "booting" => proc'[l].ver = 0 \/ row'[l].ckpt # NoCheckpoint
  BY DEF ReadySound, BootStep, RowsStep
<1>2. CASE events' = <<>>
  BY <1>1, <1>2 DEF ReadySound
<1>3. CASE events' = events
  <2>1. \A i \in 1 .. Len(events) : row[events[i].lane].ckpt # NoCheckpoint => row'[events[i].lane].ckpt # NoCheckpoint
    BY EventLanes DEF RowsStep
  <2> QED
    BY <1>1, <1>3, <2>1 DEF ReadySound
<1> QED
  BY <1>2, <1>3

(* The oldest event is read; a checkpoint at version 0 makes one durable.  *)
LEMMA ReadyRead ==
    ASSUME ReadySound, Messages, RowsStep, BootStep, events # <<>>, events' = Tail(events),
           Head(events).kind = "checkpoint" /\ Head(events).ver = 0 =>
               row'[Head(events).lane].ckpt # NoCheckpoint
    PROVE  ReadySound'
<1>1. \A l \in Lanes : proc'[l].state = "booting" => proc'[l].ver = 0 \/ row'[l].ckpt # NoCheckpoint
  BY DEF ReadySound, BootStep, RowsStep
<1>2. \A i \in 1 .. Len(events) : row[events[i].lane].ckpt # NoCheckpoint => row'[events[i].lane].ckpt # NoCheckpoint
  BY EventLanes DEF RowsStep
<1>3. /\ Len(events) \in Nat /\ Len(events') = Len(events) - 1 /\ Head(events) = events[1]
      /\ \A i \in 1 .. Len(events') : events'[i] = events[i + 1] /\ i + 1 \in 1 .. Len(events)
  <2>1. events \in Seq(GoodEvents)
    BY DEF Messages
  <2> HIDE DEF GoodEvents
  <2> QED
    BY <2>1, HeadTailProperties
<1>4. ASSUME NEW i \in 1 .. Len(events'), events'[i].kind = "ready"
      PROVE  \/ row'[events'[i].lane].ckpt # NoCheckpoint
             \/ /\ i > 1 /\ events'[i - 1].kind = "checkpoint"
                /\ events'[i - 1].lane = events'[i].lane /\ events'[i - 1].ver = 0
  <2>1. \/ row[events[i + 1].lane].ckpt # NoCheckpoint
        \/ /\ events[i].kind = "checkpoint"
           /\ events[i].lane = events[i + 1].lane /\ events[i].ver = 0
    BY <1>3, <1>4 DEF ReadySound
  <2>2. CASE i = 1
    BY <1>2, <1>3, <2>1, <2>2
  <2>3. CASE i # 1
    <3>1. i - 1 \in 1 .. Len(events') /\ i > 1 /\ (i - 1) + 1 = i
      BY <1>3, <2>3
    <3>2. events'[i - 1] = events[i]
      BY <1>3, <3>1
    <3> QED
      BY <1>2, <1>3, <2>1, <3>1, <3>2
  <2> QED
    BY <2>2, <2>3
<1> QED
  BY <1>1, <1>4 DEF ReadySound

(* Events that are not a worker's ready join the queue.                    *)
LEMMA ReadyJoined ==
    ASSUME ReadySound, Messages, RowsStep, BootStep, NEW new \in Seq(GoodEvents),
           \A j \in 1 .. Len(new) : new[j].kind # "ready", events' = events \o new
    PROVE  ReadySound'
<1>1. \A l \in Lanes : proc'[l].state = "booting" => proc'[l].ver = 0 \/ row'[l].ckpt # NoCheckpoint
  BY DEF ReadySound, BootStep, RowsStep
<1>2. \A i \in 1 .. Len(events) : row[events[i].lane].ckpt # NoCheckpoint => row'[events[i].lane].ckpt # NoCheckpoint
  BY EventLanes DEF RowsStep
<1>3. /\ Len(events) \in Nat /\ Len(new) \in Nat /\ Len(events') = Len(events) + Len(new)
      /\ \A i \in 1 .. Len(events') :
            events'[i] = IF i <= Len(events) THEN events[i] ELSE new[i - Len(events)]
  <2>1. events \in Seq(GoodEvents)
    BY DEF Messages
  <2> HIDE DEF GoodEvents
  <2> QED
    BY <2>1, ConcatProperties
<1>4. ASSUME NEW i \in 1 .. Len(events'), events'[i].kind = "ready"
      PROVE  \/ row'[events'[i].lane].ckpt # NoCheckpoint
             \/ /\ i > 1 /\ events'[i - 1].kind = "checkpoint"
                /\ events'[i - 1].lane = events'[i].lane /\ events'[i - 1].ver = 0
  <2>1. i \in 1 .. Len(events)
    <3>1. ~(i <= Len(events)) => i - Len(events) \in 1 .. Len(new)
      BY <1>3
    <3> QED
      BY <1>3, <1>4, <3>1
  <2>2. i > 1 => i - 1 \in 1 .. Len(events) /\ i - 1 \in 1 .. Len(events') /\ i - 1 <= Len(events)
    BY <1>3, <2>1
  <2>3. events'[i] = events[i] /\ (i > 1 => events'[i - 1] = events[i - 1])
    BY <1>3, <2>1, <2>2
  <2> QED
    BY <1>2, <1>4, <2>1, <2>3 DEF ReadySound
<1> QED
  BY <1>1, <1>4 DEF ReadySound

-----------------------------------------------------------------------------
(* Steps that leave the rows alone.                                        *)
LEMMA RowsAlone ==
    ASSUME IInv, row' = row
    PROVE  RowsStep
BY DEF IInv, Tables, RowsSound, RowsStep, LanesStay

(* commit_decision_batch: a new action names lanes, and names them once.   *)
LEMMA CommitInv ==
    ASSUME IInv, NEW a \in Actions, NEW kind \in {"start", "fork", "patch", "stop", "reallocate"},
           NEW S \in SUBSET Lanes, NEW parent \in Lanes \cup {NoLane}, CommitAs(a, kind, S, parent),
           kind \in {"patch", "stop"} => \E l \in Lanes : S = {l},
           kind \in ChangeKinds => \A l \in S : row[l].state # "absent"
    PROVE  IInv'
<1> DEFINE new == [kind |-> kind, lanes |-> S, parent |-> parent, expected |-> [l \in Lanes |-> row[l].ver]]
<1>1. /\ outcome[a] = "none" /\ act' = [act EXCEPT ![a] = new] /\ outcome' = [outcome EXCEPT ![a] = "pending"]
      /\ UNCHANGED <<row, births, owner, inflight, proc, cmds, events>> /\ kind \in Kinds
  BY DEF CommitAs, dispatcher, workers
<1>2. act[a].kind = "none" /\ act \in [Actions -> ActTypes] /\ outcome \in [Actions -> Outcomes]
  BY <1>1 DEF IInv, ActsExist, Tables
<1>3. new \in ActTypes /\ new.kind = kind /\ new.lanes = S
  BY <1>1 DEF ActTypes, IInv, Tables, RowTypes
<1> HIDE DEF new
<1>4. /\ act' \in [Actions -> ActTypes] /\ outcome' \in [Actions -> Outcomes]
      /\ act'[a] = new /\ outcome'[a] = "pending"
      /\ \A b \in Actions : b # a => act'[b] = act[b] /\ outcome'[b] = outcome[b]
  BY <1>1, <1>2, <1>3 DEF Outcomes
<1>5. RowsStep
  BY <1>1, RowsAlone
<1>6. Tables'
  BY <1>1, <1>4 DEF IInv, Tables
<1>7. Messages'
  BY <1>1, <1>2, <1>4, <1>5, MessagesKept DEF IInv, Messages, RowsStep
<1>8. ActsExist'
  BY <1>1, <1>3, <1>4 DEF IInv, ActsExist
<1>9. OwnersSound'
  BY <1>1, <1>2, <1>4, <1>5, OwnersKept DEF IInv, BirthKinds
<1>10. ReadySound' /\ RowsSound'
  BY <1>1, <1>5, ReadyKept DEF IInv, BootStep, RowsSound
<1>11. VersionCountsRevisions'
  BY <1>1, <1>4, VersionKept DEF IInv
<1> QED
  BY <1>6, <1>7, <1>8, <1>9, <1>10, <1>11 DEF IInv

(* Every commit is such a step.                                            *)
LEMMA CommitsInv ==
    ASSUME IInv, Commit
    PROVE  IInv'
<1>1. PICK a \in Actions :
        \/ \E l \in Lanes : CommitStart(a, l)
        \/ \E p \in Lanes, S \in SUBSET Lanes : CommitFork(a, p, S)
        \/ \E l \in Lanes, kind \in {"patch", "stop"} : CommitChange(a, kind, l)
        \/ \E S \in SUBSET Lanes : CommitReallocation(a, S)
  BY DEF Commit
<1>2. ASSUME NEW l \in Lanes, CommitStart(a, l) PROVE IInv'
  BY <1>2, CommitInv DEF CommitStart, ChangeKinds
<1>3. ASSUME NEW p \in Lanes, NEW S \in SUBSET Lanes, CommitFork(a, p, S) PROVE IInv'
  BY <1>3, CommitInv DEF CommitFork, ChangeKinds
<1>4. ASSUME NEW l \in Lanes, NEW kind \in {"patch", "stop"}, CommitChange(a, kind, l) PROVE IInv'
  <2>1. row[l].state # "absent" /\ CommitAs(a, kind, {l}, NoLane)
    BY <1>4 DEF CommitChange, ActiveStates
  <2> QED
    BY <2>1, CommitInv
<1>5. ASSUME NEW S \in SUBSET Lanes, CommitReallocation(a, S) PROVE IInv'
  <2>1. (\A l \in S : row[l].state # "absent") /\ CommitAs(a, "reallocate", S, NoLane)
    BY <1>5 DEF CommitReallocation, ActiveStates
  <2> QED
    BY <2>1, CommitInv
<1> QED
  BY <1>1, <1>2, <1>3, <1>4, <1>5

(* An action that is given up before it was delivered.                     *)
LEMMA ExpiredInv ==
    ASSUME IInv, NEW a \in Actions, DispatchExpired(a)
    PROVE  IInv'
<1>1. /\ outcome[a] = "pending" /\ outcome' = [outcome EXCEPT ![a] = "rejected_lease_expired"]
      /\ UNCHANGED <<row, act, births, owner, inflight, proc, cmds, events>>
  BY DEF DispatchExpired, Deliverable, dispatcher, workers
<1>2. /\ outcome' \in [Actions -> Outcomes] /\ outcome'[a] = "rejected_lease_expired"
      /\ \A b \in Actions : b # a => outcome'[b] = outcome[b]
  BY <1>1 DEF IInv, Tables, Outcomes
<1>3. RowsStep /\ ActsStep
  BY <1>1, <1>2, RowsAlone DEF ActsStep
<1>4. Tables'
  BY <1>1, <1>2 DEF IInv, Tables
<1>5. Messages'
  BY <1>1, <1>3, MessagesKept DEF IInv, Messages, RowsStep
<1>6. ActsExist'
  BY <1>3, ActsKept DEF IInv, RowsStep
<1>7. OwnersSound'
  BY <1>1, <1>2, <1>3, OwnersKept DEF IInv
<1>8. ReadySound' /\ RowsSound'
  BY <1>1, <1>3, ReadyKept DEF IInv, BootStep, RowsSound
<1>9. VersionCountsRevisions'
  BY <1>1, <1>2, VersionKept DEF IInv
<1> QED
  BY <1>4, <1>5, <1>6, <1>7, <1>8, <1>9 DEF IInv

(* Commands go to lanes of their action, in full or in part.               *)
LEMMA SendMessages ==
    ASSUME IInv, NEW a \in Actions, outcome[a] = "pending", act[a].kind \notin BirthKinds,
           NEW S \in SUBSET act[a].lanes, Send(a, S), row' = row, act' = act, events' = events
    PROVE  Messages'
<1>1. /\ act[a] \in ActTypes /\ act[a].kind \in Kinds /\ act[a].kind \in ChangeKinds
      /\ act[a].lanes \subseteq Lanes /\ act[a].expected \in [Lanes -> Nat]
  <2>1. act[a] \in ActTypes /\ act[a].kind # "none"
    BY DEF IInv, Tables, ActsExist
  <2>2. act[a].kind \in Kinds
    BY <2>1 DEF ActTypes
  <2>3. act[a].kind \in ChangeKinds
    BY <2>2, DispatchAssumption DEF ChangeKinds, BirthKinds
  <2> QED
    BY <2>1, <2>2, <2>3 DEF ActTypes
<1>2. ASSUME NEW l \in Lanes
      PROVE  cmds'[l] \in Seq(CommandsFor(l)) /\ cmds'[l] \in Seq(CommandTypes)
  <2> DEFINE c == [action |-> a, expected |-> act[a].expected[l], kind |-> act[a].kind]
  <2>1. cmds[l] \in Seq(CommandsFor(l)) /\ cmds[l] \in Seq(CommandTypes)
    BY DEF IInv, Messages
  <2>2. c \in CommandTypes /\ (l \in S => c \in CommandsFor(l))
    BY <1>1 DEF CommandTypes, CommandsFor, Targets
  <2>3. cmds'[l] = IF l \in S THEN Append(cmds[l], c) ELSE cmds[l]
    BY DEF Send
  <2> HIDE DEF c
  <2> QED
    BY <2>1, <2>2, <2>3
<1>3. cmds' \in [Lanes -> Seq(CommandTypes)]
  <2>1. DOMAIN cmds' = Lanes /\ cmds' = [l \in Lanes |-> cmds'[l]]
    BY DEF Send
  <2> QED
    BY <1>2, <2>1
<1>4. \A l \in Lanes : CommandsFor(l)' = CommandsFor(l)
  BY DEF CommandsFor, Targets
<1>5. GoodEvents' = GoodEvents
  BY DEF GoodEvents, Targets
<1> QED
  BY <1>2, <1>3, <1>4, <1>5 DEF IInv, Messages

(* dispatch_pending for a change.                                          *)
LEMMA ChangeInv ==
    ASSUME IInv, NEW a \in Actions,
           DispatchChange(a) \/ \E sent \in SUBSET Lanes : DispatchChangeFails(a, sent)
    PROVE  IInv'
<1>1. PICK S \in SUBSET act[a].lanes : Send(a, S)
  BY DEF DispatchChange, DispatchChangeFails
<1>2. /\ outcome[a] = "pending" /\ act[a].kind \notin BirthKinds
      /\ outcome' = outcome \/ outcome' = [outcome EXCEPT ![a] = "failed"]
      /\ inflight \subseteq inflight'
      /\ UNCHANGED <<row, act, births, owner, proc, events>>
  BY DEF DispatchChange, DispatchChangeFails, Deliverable, rows, dispatcher, manager
<1>3. /\ outcome' \in [Actions -> Outcomes] /\ outcome'[a] \in {"pending", "failed"}
      /\ \A b \in Actions : b # a => outcome'[b] = outcome[b]
  BY <1>2 DEF IInv, Tables, Outcomes
<1>4. RowsStep /\ ActsStep
  BY <1>2, <1>3, RowsAlone DEF ActsStep
<1>5. Tables'
  BY <1>2, <1>3 DEF IInv, Tables
<1>6. Messages'
  BY <1>1, <1>2, SendMessages
<1>7. ActsExist'
  BY <1>4, ActsKept DEF IInv, RowsStep
<1>8. OwnersSound'
  BY <1>2, <1>3, <1>4, OwnersKept DEF IInv
<1>9. ReadySound' /\ RowsSound'
  BY <1>2, <1>4, ReadyKept DEF IInv, BootStep, RowsSound
<1>10. VersionCountsRevisions'
  BY <1>2, <1>3, VersionKept DEF IInv
<1> QED
  BY <1>5, <1>6, <1>7, <1>8, <1>9, <1>10 DEF IInv

(* The coordinator and its workers are gone.                               *)
LEMMA DownInv ==
    ASSUME IInv, GoDown, RowsStep, UNCHANGED <<act, outcome>>, \A l \in Lanes : row'[l].ver = row[l].ver
    PROVE  IInv'
<1>1. Tables'
  BY DEF IInv, Tables, GoDown, RowsStep, ProcTypes
<1>2. Messages'
  <2>1. cmds' \in [Lanes -> Seq(CommandTypes)]
    BY EmptySeq DEF GoDown
  <2> QED
    BY <2>1, MessagesKept DEF IInv, GoDown, RowsStep
<1>3. ActsExist'
  BY ActsKept DEF IInv, RowsStep, ActsStep, Tables
<1>4. OwnersSound'
  BY DEF GoDown, OwnersSound
<1>5. ReadySound' /\ RowsSound'
  BY ReadyKept DEF IInv, BootStep, RowsSound, RowsStep, GoDown
<1>6. VersionCountsRevisions'
  BY VersionKept DEF IInv
<1> QED
  BY <1>1, <1>2, <1>3, <1>4, <1>5, <1>6 DEF IInv

-----------------------------------------------------------------------------
(* The end of an attempt and the next one.                                 *)

(* Rows whose state changes, and nothing else of them.                     *)
LEMMA StatesChange ==
    ASSUME IInv, NEW s \in [Lanes -> RowStates \ {"absent"}], NEW S \in SUBSET Lanes,
           row' = [l \in Lanes |-> IF l \in S THEN [row[l] EXCEPT !.state = s[l]] ELSE row[l]],
           \A l \in S : s[l] \in {"running", "paused"} => row[l].ckpt # NoCheckpoint
    PROVE  /\ RowsStep /\ \A l \in Lanes : row'[l].ver = row[l].ver /\ row'[l].ckpt = row[l].ckpt
<1>1. ASSUME NEW l \in Lanes
      PROVE  /\ row'[l] \in RowTypes /\ RowSound(row'[l])
             /\ row'[l].ver = row[l].ver /\ row'[l].ckpt = row[l].ckpt
             /\ row[l].state # "absent" => row'[l].state # "absent"
  <2>1. row[l] \in RowTypes /\ RowSound(row[l])
    BY DEF IInv, Tables, RowsSound
  <2>2. CASE l \in S
    <3>1. row'[l] = [row[l] EXCEPT !.state = s[l]]
      BY <2>2
    <3>2. /\ s[l] \in RowStates /\ s[l] # "absent"
          /\ s[l] \in {"running", "paused"} => row[l].ckpt # NoCheckpoint
      BY <2>2
    <3> QED
      BY <2>1, <3>1, <3>2, StateChanged
  <2>3. CASE l \notin S
    BY <2>1, <2>3
  <2> QED
    BY <2>2, <2>3
<1>2. row' \in [Lanes -> RowTypes]
  BY <1>1
<1> QED
  BY <1>1, <1>2 DEF RowsStep, LanesStay

(* ShutdownEnd, Crash and CrashInBirth.                                    *)
LEMMA EndInv ==
    ASSUME IInv, \/ ShutdownEnd \/ Crash
                 \/ \E a \in Actions, made \in SUBSET Lanes : CrashInBirth(a, made)
    PROVE  IInv'
<1>1. CASE Crash
  BY <1>1, RowsAlone, DownInv DEF Crash, rows
<1>2. CASE ShutdownEnd
  <2> DEFINE S == {l \in Lanes : Preserved(l)}
             s == [l \in Lanes |-> "paused"]
  <2>1. row' = [l \in Lanes |-> IF l \in S THEN [row[l] EXCEPT !.state = s[l]] ELSE row[l]]
    BY <1>2 DEF ShutdownEnd
  <2>2. s \in [Lanes -> RowStates \ {"absent"}] /\ \A l \in S : row[l].ckpt # NoCheckpoint
    BY DEF RowStates, ActiveStates, Preserved
  <2> HIDE DEF s, S
  <2>3. S \in SUBSET Lanes
    BY DEF S
  <2>4. RowsStep /\ \A l \in Lanes : row'[l].ver = row[l].ver
    BY <2>1, <2>2, <2>3, StatesChange
  <2> QED
    BY <1>2, <2>4, DownInv DEF ShutdownEnd
<1>3. ASSUME NEW a \in Actions, NEW made \in SUBSET Lanes, CrashInBirth(a, made) PROVE IInv'
  <2>1. \A l \in made : row[l].state = "absent"
    BY <1>3 DEF CrashInBirth, BirthPossible
  <2>2. ASSUME NEW l \in Lanes
        PROVE  /\ row'[l] \in RowTypes /\ RowSound(row'[l]) /\ row'[l].ver = row[l].ver
               /\ row[l].ckpt # NoCheckpoint => row'[l].ckpt # NoCheckpoint
               /\ row[l].state # "absent" => row'[l].state # "absent"
    <3>1. row[l] \in RowTypes /\ RowSound(row[l])
      BY DEF IInv, Tables, RowsSound
    <3>2. row'[l] = IF l \in made THEN NewRow(a) ELSE row[l]
      BY <1>3 DEF CrashInBirth
    <3> QED
      BY <2>1, <3>1, <3>2, RowCreated DEF RowSound
  <2>3. row' \in [Lanes -> RowTypes]
    BY <1>3, <2>2 DEF CrashInBirth
  <2>4. RowsStep
    BY <2>2, <2>3 DEF RowsStep, LanesStay
  <2> QED
    BY <1>3, <2>2, <2>4, DownInv DEF CrashInBirth
<1> QED
  BY <1>1, <1>2, <1>3

(* CampaignRecovery.recover: a lane is restored from a checkpoint.         *)
LEMMA RecoverInv ==
    ASSUME IInv, NEW R \in SUBSET Lanes, Recover(R)
    PROVE  IInv'
<1> DEFINE S == {l \in Lanes : row[l].state \in ActiveStates}
           s == [l \in Lanes |-> IF l \in R THEN "paused" ELSE "failed"]
<1>1. /\ row' = [l \in Lanes |-> IF l \in S THEN [row[l] EXCEPT !.state = s[l]] ELSE row[l]]
      /\ \A l \in R : row[l].state \in ActiveStates /\ row[l].ckpt = row[l].ver
      /\ UNCHANGED <<act, outcome, births, owner, inflight, cmds, events>>
      /\ proc' = [l \in Lanes |-> IF l \in R THEN [state |-> "booting", ver |-> row[l].ver] ELSE proc[l]]
  BY DEF Recover, Restorable, dispatcher
<1>2. \A l \in Lanes : row[l] \in RowTypes /\ row[l].ver \in Nat
  BY DEF IInv, Tables, RowTypes
<1>3. \A l \in R : row[l].ckpt # NoCheckpoint
  BY <1>1, <1>2 DEF NoCheckpoint
<1>4. s \in [Lanes -> RowStates \ {"absent"}] /\ S \in SUBSET Lanes
  BY DEF RowStates, ActiveStates
<1>5. \A l \in S : s[l] \in {"running", "paused"} => l \in R
  OBVIOUS
<1> HIDE DEF s, S
<1>6. RowsStep /\ \A l \in Lanes : row'[l].ver = row[l].ver /\ row'[l].ckpt = row[l].ckpt
  BY <1>1, <1>3, <1>4, <1>5, StatesChange
<1>7. /\ proc' \in [Lanes -> ProcTypes]
      /\ \A l \in Lanes \ R : proc'[l] = proc[l]
      /\ \A l \in R : proc'[l].state = "booting" /\ row[l].state # "absent"
  BY <1>1, <1>2 DEF IInv, Tables, ProcTypes, ActiveStates
<1>8. Tables'
  BY <1>1, <1>6, <1>7 DEF IInv, Tables, RowsStep
<1>9. Messages'
  BY <1>1, <1>6, MessagesKept DEF IInv, Messages, RowsStep
<1>10. ActsExist'
  BY <1>1, <1>6, ActsKept DEF IInv, RowsStep, ActsStep, Tables
<1>11. OwnersSound'
  BY <1>1, <1>6, OwnersKept DEF IInv
<1>12. ReadySound'
  <2>1. BootStep
    BY <1>3, <1>6, <1>7 DEF BootStep
  <2> QED
    BY <1>1, <1>6, <2>1, ReadyKept DEF IInv
<1>13. RowsSound'
  BY <1>6, <1>7 DEF IInv, RowsSound, RowsStep, LanesStay
<1>14. VersionCountsRevisions'
  BY <1>1, <1>6, VersionKept DEF IInv
<1> QED
  BY <1>8, <1>9, <1>10, <1>11, <1>12, <1>13, <1>14 DEF IInv

(* A step on rows alone that moves no version.                             *)
LEMMA RowsOnly ==
    ASSUME IInv, RowsStep, \A l \in Lanes : row'[l].ver = row[l].ver,
           UNCHANGED <<act, outcome, births, owner, inflight, proc, cmds, events>>
    PROVE  IInv'
<1>1. Tables' /\ Messages'
  BY MessagesKept DEF IInv, Tables, Messages, RowsStep
<1>2. ActsExist'
  BY ActsKept DEF IInv, RowsStep, ActsStep, Tables
<1>3. OwnersSound'
  BY OwnersKept DEF IInv
<1>4. ReadySound' /\ RowsSound'
  BY ReadyKept DEF IInv, BootStep, RowsSound, RowsStep, LanesStay
<1>5. VersionCountsRevisions'
  BY VersionKept DEF IInv
<1> QED
  BY <1>1, <1>2, <1>3, <1>4, <1>5 DEF IInv

(* activate_recovered_lanes, and the runner's way into its finally block.  *)
LEMMA ActivateInv ==
    ASSUME IInv, ActivateRecovered \/ Shutdown
    PROVE  IInv'
<1>1. CASE Shutdown
  <2>1. UNCHANGED <<row, act, outcome, births, owner, inflight, proc, cmds, events>>
    BY <1>1 DEF Shutdown, rows, dispatcher
  <2> QED
    BY <2>1, RowsAlone, RowsOnly
<1>2. CASE ActivateRecovered
  <2> DEFINE S == {l \in Lanes : l \in restored /\ row[l].state = "paused"}
             s == [l \in Lanes |-> "running"]
  <2>1. /\ row' = [l \in Lanes |-> IF l \in S THEN [row[l] EXCEPT !.state = s[l]] ELSE row[l]]
        /\ UNCHANGED <<act, outcome, births, owner, inflight, proc, cmds, events>>
    BY <1>2 DEF ActivateRecovered, dispatcher, workers
  <2>2. \A l \in S : row[l].ckpt # NoCheckpoint
    BY DEF IInv, RowsSound, RowSound
  <2>3. s \in [Lanes -> RowStates \ {"absent"}] /\ S \in SUBSET Lanes
    BY DEF RowStates, ActiveStates
  <2> HIDE DEF s, S
  <2>4. RowsStep /\ \A l \in Lanes : row'[l].ver = row[l].ver
    BY <2>1, <2>2, <2>3, StatesChange
  <2> QED
    BY <2>1, <2>4, RowsOnly
<1> QED
  BY <1>1, <1>2

-----------------------------------------------------------------------------
(* Workers.                                                                *)

(* A step of a worker on its process, its commands and the event queue.    *)
LEMMA WorkerInv ==
    ASSUME IInv, UNCHANGED <<row, act, outcome, births, owner, inflight>>,
           NEW l \in Lanes, proc[l].state # "none", NEW p \in ProcTypes, p.state # "booting",
           proc' = [proc EXCEPT ![l] = p],
           cmds' = cmds \/ (cmds[l] # <<>> /\ cmds' = [cmds EXCEPT ![l] = Tail(@)]),
           NEW new \in Seq(GoodEvents), events' = events \o new, ReadySound'
    PROVE  IInv'
<1>1. RowsStep
  BY RowsAlone
<1>2. /\ proc' \in [Lanes -> ProcTypes] /\ proc'[l] = p /\ \A m \in Lanes : m # l => proc'[m] = proc[m]
  BY DEF IInv, Tables
<1>3. Tables'
  BY <1>2 DEF IInv, Tables
<1>4. Messages'
  <2>1. events' \in Seq(GoodEvents')
    BY EventsJoin DEF IInv, Messages
  <2>2. \A m \in Lanes : CommandsFor(m)' = CommandsFor(m)
    BY DEF CommandsFor, Targets
  <2>3. cmds' \in [Lanes -> Seq(CommandTypes)] /\ \A m \in Lanes : cmds'[m] \in Seq(CommandsFor(m))
    <3>1. cmds \in [Lanes -> Seq(CommandTypes)] /\ \A m \in Lanes : cmds[m] \in Seq(CommandsFor(m))
      BY DEF IInv, Messages
    <3>2. CASE cmds' = cmds
      BY <3>1, <3>2
    <3>3. CASE cmds[l] # <<>> /\ cmds' = [cmds EXCEPT ![l] = Tail(@)]
      <4>1. Tail(cmds[l]) \in Seq(CommandTypes) /\ Tail(cmds[l]) \in Seq(CommandsFor(l))
        BY <3>1, <3>3, TailKept
      <4> QED
        BY <3>1, <3>3, <4>1
    <3> QED
      BY <3>2, <3>3
  <2> QED
    BY <2>1, <2>2, <2>3 DEF Messages
<1>5. ActsExist'
  BY <1>1, ActsKept DEF IInv, RowsStep, ActsStep, Tables
<1>6. OwnersSound'
  BY <1>1, OwnersKept DEF IInv
<1>7. RowsSound'
  BY <1>2 DEF IInv, RowsSound
<1>8. VersionCountsRevisions'
  BY VersionKept DEF IInv
<1> QED
  BY <1>3, <1>4, <1>5, <1>6, <1>7, <1>8 DEF IInv

(* What a worker says of its lane, and of an action that has commanded it.  *)
LEMMA EventsGood ==
    ASSUME IInv, NEW l \in Lanes, proc[l].state # "none"
    PROVE  /\ proc[l] \in ProcTypes /\ proc[l].ver \in Nat
           /\ \A v \in Nat, kind \in {"checkpoint", "ready", "exit"}, status \in {"none", "stopped", "failure"} :
                Event(kind, l, v, NoAction, status) \in GoodEvents
           /\ \A v \in Nat, a \in Actions, status \in Answers :
                Targets(a, l) => Event("outcome", l, v, a, status) \in GoodEvents
<1>1. row[l].state # "absent"
  BY DEF IInv, RowsSound
<1>2. proc[l] \in ProcTypes
  BY DEF IInv, Tables
<1> QED
  BY <1>1, <1>2 DEF ProcTypes, Event, GoodEvents, EventTypes, Answers

(* A worker's process in another state, and at another version.            *)
LEMMA ProcStates ==
    ASSUME NEW p \in ProcTypes, NEW s \in {"live", "ended"}, NEW v \in Nat
    PROVE  /\ [p EXCEPT !.state = s] \in ProcTypes /\ [p EXCEPT !.state = s].state = s
           /\ [p EXCEPT !.ver = v] \in ProcTypes /\ [p EXCEPT !.ver = v].state = p.state
BY DEF ProcTypes

(* One event as a queue of its own.                                        *)
LEMMA OneEvent ==
    ASSUME NEW e \in GoodEvents, events \in Seq(GoodEvents)
    PROVE  /\ <<e>> \in Seq(GoodEvents) /\ Append(events, e) = events \o <<e>>
           /\ Len(<<e>>) = 1 /\ <<e>>[1] = e
<1> HIDE DEF GoodEvents
<1> QED
  BY AppendIsConcat

(* Two events as a queue of their own.                                     *)
LEMMA TwoEvents ==
    ASSUME NEW e \in GoodEvents, NEW f \in GoodEvents
    PROVE  <<e, f>> \in Seq(GoodEvents) /\ Len(<<e, f>>) = 2 /\ <<e, f>>[1] = e /\ <<e, f>>[2] = f
<1> HIDE DEF GoodEvents
<1> QED
  OBVIOUS

(* A worker whose process ends says so.                                    *)
LEMMA WorkerEndsInv ==
    ASSUME IInv, NEW l \in Lanes, WorkerStops(l) \/ WorkerFails(l)
    PROVE  IInv'
<1>1. PICK v \in Nat, status \in {"stopped", "failure"} :
        /\ proc[l].state \in {"booting", "live"} /\ proc' = [proc EXCEPT ![l].state = "ended"]
        /\ events' = Append(events, Event("exit", l, v, NoAction, status))
        /\ UNCHANGED <<row, act, outcome, births, owner, inflight, cmds>>
  BY EventsGood DEF WorkerStops, WorkerFails, rows, dispatcher
<1> DEFINE e == Event("exit", l, v, NoAction, status)
           p == [proc[l] EXCEPT !.state = "ended"]
<1>2. e \in GoodEvents /\ e.kind = "exit" /\ events \in Seq(GoodEvents)
  BY <1>1, EventsGood DEF Event, IInv, Messages
<1>3. p \in ProcTypes /\ p.state # "booting" /\ proc' = [proc EXCEPT ![l] = p]
  BY <1>1, EventsGood, ProcStates
<1> HIDE DEF e, p
<1>4. <<e>> \in Seq(GoodEvents) /\ events' = events \o <<e>> /\ Len(<<e>>) = 1 /\ <<e>>[1] = e
  BY <1>1, <1>2, OneEvent DEF e
<1>5. \A j \in 1 .. Len(<<e>>) : <<e>>[j].kind # "ready"
  BY <1>2, <1>4
<1>6. BootStep
  BY <1>3 DEF BootStep, IInv, Tables
<1>7. ReadySound'
  BY <1>1, <1>4, <1>5, <1>6, RowsAlone, ReadyJoined DEF IInv
<1> QED
  BY <1>1, <1>3, <1>4, <1>7, WorkerInv

(* A worker that is ready has written its first checkpoint.                *)
LEMMA WorkerReadyInv ==
    ASSUME IInv, NEW l \in Lanes, WorkerReady(l)
    PROVE  IInv'
<1> DEFINE e == Event("checkpoint", l, proc[l].ver, NoAction, "none")
           f == Event("ready", l, proc[l].ver, NoAction, "none")
           p == [proc[l] EXCEPT !.state = "live"]
<1>1. /\ proc[l].state = "booting" /\ proc' = [proc EXCEPT ![l] = p]
      /\ events' = events \o <<e, f>>
      /\ UNCHANGED <<row, act, outcome, births, owner, inflight, cmds>>
  BY DEF WorkerReady, rows, dispatcher
<1>2. e \in GoodEvents /\ f \in GoodEvents /\ events \in Seq(GoodEvents)
  BY <1>1, EventsGood DEF IInv, Messages
<1>3. p \in ProcTypes /\ p.state # "booting"
  BY <1>1, EventsGood, ProcStates
<1>4. /\ e.kind = "checkpoint" /\ e.lane = l /\ e.ver = proc[l].ver /\ f.kind = "ready" /\ f.lane = l
      /\ proc[l].ver = 0 \/ row[l].ckpt # NoCheckpoint
  BY <1>1 DEF Event, IInv, ReadySound
<1> HIDE DEF e, f, p
<1>5. /\ Len(events) \in Nat /\ Len(events') = Len(events) + 2
      /\ \A i \in 1 .. Len(events) : events'[i] = events[i]
      /\ events'[Len(events) + 1] = e /\ events'[Len(events) + 2] = f
  <2> HIDE DEF GoodEvents
  <2>1. <<e, f>> \in Seq(GoodEvents) /\ Len(<<e, f>>) = 2 /\ <<e, f>>[1] = e /\ <<e, f>>[2] = f
    BY <1>2, TwoEvents
  <2>2. /\ Len(events') = Len(events) + 2 /\ Len(events) \in Nat
        /\ \A i \in 1 .. Len(events) + 2 :
             events'[i] = IF i <= Len(events) THEN events[i] ELSE <<e, f>>[i - Len(events)]
    BY <1>1, <1>2, <2>1, ConcatProperties
  <2> QED
    BY <2>1, <2>2
<1>6. \A m \in Lanes : proc'[m].state = "booting" => proc'[m].ver = 0 \/ row'[m].ckpt # NoCheckpoint
  BY <1>1, <1>3 DEF IInv, Tables, ReadySound
<1>7. ASSUME NEW i \in 1 .. Len(events'), events'[i].kind = "ready"
      PROVE  \/ row'[events'[i].lane].ckpt # NoCheckpoint
             \/ /\ i > 1 /\ events'[i - 1].kind = "checkpoint"
                /\ events'[i - 1].lane = events'[i].lane /\ events'[i - 1].ver = 0
  <2>1. CASE i \in 1 .. Len(events)
    <3>1. i > 1 => i - 1 \in 1 .. Len(events)
      BY <1>5, <2>1
    <3>2. events'[i] = events[i] /\ (i > 1 => events'[i - 1] = events[i - 1])
      BY <1>5, <2>1, <3>1
    <3> QED
      BY <1>1, <1>7, <2>1, <3>2 DEF IInv, ReadySound
  <2>2. CASE i = Len(events) + 1
    BY <1>4, <1>5, <1>7, <2>2
  <2>3. CASE i = Len(events) + 2
    <3>1. i > 1 /\ i - 1 = Len(events) + 1
      BY <1>5, <2>3
    <3> QED
      BY <1>1, <1>4, <1>5, <2>3, <3>1
  <2> QED
    BY <1>5, <2>1, <2>2, <2>3
<1>8. ReadySound'
  BY <1>6, <1>7 DEF ReadySound
<1> QED
  BY <1>1, <1>2, <1>3, <1>8, TwoEvents, WorkerInv

(* A command is answered, and an effect comes with its checkpoint.         *)
LEMMA WorkerAppliesInv ==
    ASSUME IInv, NEW l \in Lanes, NEW how \in {"ok", "raises", "late"}, WorkerApplies(l, how)
    PROVE  IInv'
<1> DEFINE c == Head(cmds[l])
           v == proc[l].ver
<1>1. /\ proc[l].state = "live" /\ cmds[l] # <<>> /\ cmds' = [cmds EXCEPT ![l] = Tail(@)]
      /\ UNCHANGED <<row, act, outcome, births, owner, inflight>>
  BY DEF WorkerApplies, rows, dispatcher
<1>2. c \in CommandsFor(l) /\ c.action \in Actions /\ Targets(c.action, l)
  <2>1. cmds[l] \in Seq(CommandsFor(l))
    BY DEF IInv, Messages
  <2>2. c \in CommandsFor(l)
    BY <1>1, <2>1, HeadTailProperties
  <2> QED
    BY <2>2 DEF CommandsFor, Targets
<1>3. v \in Nat /\ proc[l] \in ProcTypes /\ events \in Seq(GoodEvents) /\ DOMAIN proc = Lanes
  BY <1>1, EventsGood DEF IInv, Messages, Tables
<1>4. PICK w \in Nat, new \in Seq(GoodEvents) :
        /\ proc' = [proc EXCEPT ![l] = [proc[l] EXCEPT !.ver = w]]
        /\ events' = events \o new
        /\ \A j \in 1 .. Len(new) : new[j].kind # "ready"
  <2>1. CASE Stale(c, v)
    <3> DEFINE e == Event("outcome", l, v, c.action, "rejected_stale_state")
    <3>1. events' = Append(events, e) /\ proc' = proc
      BY <2>1 DEF WorkerApplies
    <3>2. e \in GoodEvents /\ e.kind = "outcome"
      BY <1>1, <1>2, <1>3, EventsGood DEF Answers, Event
    <3>3. proc' = [proc EXCEPT ![l] = [proc[l] EXCEPT !.ver = v]]
      BY <1>3, <3>1 DEF IInv, Tables, ProcTypes
    <3> HIDE DEF e
    <3>4. /\ <<e>> \in Seq(GoodEvents) /\ events' = events \o <<e>>
          /\ \A j \in 1 .. Len(<<e>>) : <<e>>[j].kind # "ready"
      BY <1>3, <3>1, <3>2, OneEvent
    <3> QED
      BY <1>3, <3>3, <3>4
  <2>2. CASE ~Stale(c, v)
    <3> DEFINE w == VersionAfter(v, how)
    <3>1. w \in Nat /\ v + 1 \in Nat
      BY <1>3 DEF VersionAfter
    <3>2. proc' = [proc EXCEPT ![l] = [proc[l] EXCEPT !.ver = w]]
      BY <2>2 DEF WorkerApplies
    <3>3. proc'[l].ver = w
      BY <1>3, <3>1, <3>2 DEF ProcTypes
    <3>4. CASE how = "ok"
      <4> DEFINE e == Event("checkpoint", l, v + 1, NoAction, "none")
                 f == Event("outcome", l, v + 1, c.action, "applied")
      <4>1. events' = events \o <<e, f>>
        BY <2>2, <3>4 DEF WorkerApplies
      <4>2. e \in GoodEvents /\ f \in GoodEvents /\ e.kind = "checkpoint" /\ f.kind = "outcome"
        BY <1>1, <1>2, <3>1, EventsGood DEF Answers, Event
      <4> HIDE DEF e, f
      <4>3. <<e, f>> \in Seq(GoodEvents) /\ \A j \in 1 .. Len(<<e, f>>) : <<e, f>>[j].kind # "ready"
        BY <4>2, TwoEvents
      <4> QED
        BY <3>1, <3>2, <4>1, <4>3
    <3>5. CASE how # "ok"
      <4> DEFINE e == Event("outcome", l, w, c.action, "failed")
      <4>1. events' = Append(events, e)
        BY <2>2, <3>3, <3>5 DEF WorkerApplies
      <4>2. e \in GoodEvents /\ e.kind = "outcome"
        BY <1>1, <1>2, <3>1, EventsGood DEF Answers, Event
      <4> HIDE DEF e
      <4>3. /\ <<e>> \in Seq(GoodEvents) /\ events' = events \o <<e>>
            /\ \A j \in 1 .. Len(<<e>>) : <<e>>[j].kind # "ready"
        BY <1>3, <4>1, <4>2, OneEvent
      <4> QED
        BY <3>1, <3>2, <4>3
    <3> QED
      BY <3>4, <3>5
  <2> QED
    BY <2>1, <2>2
<1> DEFINE p == [proc[l] EXCEPT !.ver = w]
<1>5. p \in ProcTypes /\ p.state = "live" /\ proc' = [proc EXCEPT ![l] = p]
  BY <1>1, <1>3, <1>4, ProcStates
<1> HIDE DEF p
<1>6. BootStep
  BY <1>3, <1>5 DEF BootStep
<1>7. ReadySound'
  BY <1>1, <1>4, <1>6, RowsAlone, ReadyJoined DEF IInv
<1> QED
  BY <1>1, <1>4, <1>5, <1>7, WorkerInv

-----------------------------------------------------------------------------
(* Births.                                                                 *)

(* Rows that appear where there was none, and state changes elsewhere.     *)
LEMMA RowsAppear ==
    ASSUME IInv, row' \in [Lanes -> RowTypes],
           \A l \in Lanes : \/ row'[l] = row[l]
                            \/ /\ row[l].state = "absent" /\ RowSound(row'[l])
                               /\ row'[l].ver = 0 /\ row'[l].state # "absent"
                            \/ /\ RowSound(row'[l]) /\ row'[l].state # "absent"
                               /\ row'[l].ver = row[l].ver /\ row'[l].ckpt = row[l].ckpt
    PROVE  RowsStep /\ \A l \in Lanes : row'[l].ver = row[l].ver
<1>1. \A l \in Lanes : RowSound(row[l])
  BY DEF IInv, RowsSound
<1>2. \A l \in Lanes : row[l].state = "absent" => row[l].ver = 0 /\ row[l].ckpt = NoCheckpoint
  BY <1>1 DEF RowSound
<1> QED
  BY <1>1, <1>2 DEF RowsStep, LanesStay

(* A birth that is dispatched, in full or in part: the children it         *)
(* registers are its own, and it keeps no others.                          *)
LEMMA BirthStepInv ==
    ASSUME IInv, NEW a \in Actions, Deliverable(a), act[a].kind \in BirthKinds,
           NEW made \in SUBSET act[a].lanes, NEW S \in SUBSET act[a].lanes,
           RowsStep, \A l \in Lanes : row'[l].ver = row[l].ver,
           \A l \in made : row'[l].state # "absent",
           births' = [births EXCEPT ![a] = S],
           owner' = [l \in Lanes |-> IF l \in S THEN a ELSE owner[l]],
           proc' = [l \in Lanes |-> IF l \in made THEN [state |-> "booting", ver |-> 0] ELSE proc[l]],
           act' = act, cmds' = cmds, events' = events,
           \/ outcome' = outcome /\ inflight' = inflight \cup {a}
           \/ outcome' = [outcome EXCEPT ![a] = "failed"] /\ inflight' = inflight
    PROVE  IInv'
<1>1. outcome[a] = "pending" /\ a \notin inflight /\ act[a].lanes \subseteq Lanes
  BY DEF Deliverable, IInv, Tables, ActTypes
<1>2. /\ outcome' \in [Actions -> Outcomes] /\ outcome'[a] \in {"pending", "failed"}
      /\ outcome'[a] = "pending" => a \in inflight'
      /\ inflight \subseteq inflight'
      /\ \A b \in Actions : b # a => outcome'[b] = outcome[b]
  BY <1>1 DEF IInv, Tables, Outcomes
<1>3. ActsStep
  BY <1>1, <1>2 DEF ActsStep
<1>4. proc' \in [Lanes -> ProcTypes] /\ \A l \in Lanes : proc'[l] = proc[l] \/ (l \in made /\ proc'[l].ver = 0)
  BY DEF IInv, Tables, ProcTypes
<1>5. Tables'
  BY <1>1, <1>2, <1>4 DEF IInv, Tables, RowsStep
<1>6. Messages'
  BY MessagesKept DEF IInv, Messages, RowsStep
<1>7. ActsExist'
  BY <1>3, ActsKept DEF IInv, RowsStep
<1>8. OwnersSound'
  <2>1. ASSUME NEW l \in Lanes, owner'[l] # NoAction
        PROVE  /\ act[owner'[l]].kind \in BirthKinds /\ l \in act[owner'[l]].lanes
               /\ outcome'[owner'[l]] = "pending" => owner'[l] \in inflight'
               /\ l \in births'[owner'[l]] \/ row'[l].ckpt # NoCheckpoint
    <3>1. CASE l \in S
      BY <1>2, <3>1 DEF IInv, Tables
    <3>2. CASE l \notin S
      <4>1. owner'[l] = owner[l] /\ owner[l] \in Actions
        BY <2>1, <3>2 DEF IInv, Tables
      <4>2. /\ act[owner[l]].kind \in BirthKinds /\ l \in act[owner[l]].lanes
            /\ outcome[owner[l]] = "pending" => owner[l] \in inflight
            /\ l \in births[owner[l]] \/ row[l].ckpt # NoCheckpoint
        BY <2>1, <4>1 DEF IInv, OwnersSound
      <4>3. owner[l] # a
        BY <1>1, <4>2
      <4>4. births'[owner[l]] = births[owner[l]]
        BY <4>1, <4>3 DEF IInv, Tables
      <4> QED
        BY <1>2, <4>1, <4>2, <4>3, <4>4 DEF RowsStep
    <3> QED
      BY <3>1, <3>2
  <2> QED
    BY <2>1 DEF OwnersSound
<1>9. ReadySound'
  BY <1>4, ReadyKept DEF IInv, BootStep
<1>10. RowsSound'
  BY <1>4 DEF IInv, RowsSound, RowsStep, LanesStay
<1>11. VersionCountsRevisions'
  BY <1>2, VersionKept DEF IInv
<1> QED
  BY <1>5, <1>6, <1>7, <1>8, <1>9, <1>10, <1>11 DEF IInv

(* _start and _fork.                                                       *)
LEMMA BirthInv ==
    ASSUME IInv, NEW a \in Actions, DispatchBirth(a)
    PROVE  IInv'
<1> DEFINE S == act[a].lanes
<1>1. /\ Deliverable(a) /\ act[a].kind \in BirthKinds /\ \A l \in S : row[l].state = "absent"
      /\ row' = [l \in Lanes |-> IF l \in S THEN NewRow(a) ELSE row[l]]
      /\ births' = [births EXCEPT ![a] = S]
      /\ owner' = [l \in Lanes |-> IF l \in S THEN a ELSE owner[l]]
      /\ proc' = [l \in Lanes |-> IF l \in S THEN [state |-> "booting", ver |-> 0] ELSE proc[l]]
      /\ UNCHANGED <<act, outcome, cmds, events>> /\ inflight' = inflight \cup {a}
  BY DEF DispatchBirth, BirthPossible
<1>2. S \subseteq Lanes
  BY DEF IInv, Tables, ActTypes
<1>3. row' \in [Lanes -> RowTypes]
  BY <1>1, RowCreated DEF IInv, Tables
<1>4. /\ \A l \in Lanes : \/ row'[l] = row[l]
                          \/ /\ row[l].state = "absent" /\ RowSound(row'[l])
                             /\ row'[l].ver = 0 /\ row'[l].state # "absent"
      /\ \A l \in S : row'[l].state # "absent"
  BY <1>1, <1>2, RowCreated
<1>5. RowsStep /\ \A l \in Lanes : row'[l].ver = row[l].ver
  BY <1>3, <1>4, RowsAppear
<1> QED
  BY <1>1, <1>4, <1>5, BirthStepInv

(* A birth that cannot be completed fails the rows it has made.            *)
LEMMA BirthFailsInv ==
    ASSUME IInv, NEW a \in Actions, NEW made \in SUBSET Lanes, NEW orphan \in SUBSET Lanes,
           DispatchBirthFails(a, made, orphan)
    PROVE  IInv'
<1> DEFINE registered == IF act[a].kind = "start" THEN orphan ELSE {}
           N == made \cup orphan
           table == [l \in Lanes |-> IF l \in N THEN NewRow(a) ELSE row[l]]
<1>1. /\ Deliverable(a) /\ act[a].kind \in BirthKinds
      /\ row' = BirthFailed(table, a)
      /\ births' = [births EXCEPT ![a] = registered]
      /\ owner' = [l \in Lanes |-> IF l \in registered THEN a ELSE owner[l]]
      /\ proc' = [l \in Lanes |-> IF l \in made THEN [state |-> "booting", ver |-> 0] ELSE proc[l]]
      /\ UNCHANGED <<act, inflight, cmds, events>> /\ outcome' = [outcome EXCEPT ![a] = "failed"]
  BY DEF DispatchBirthFails
<1>2. /\ made \subseteq act[a].lanes /\ orphan \subseteq act[a].lanes
      /\ \A l \in N : row[l].state = "absent"
  <2>1. CASE \/ \E l \in act[a].lanes : row[l].state # "absent"
             \/ act[a].kind = "fork" /\ mgr[act[a].parent] = "none"
    BY <2>1 DEF DispatchBirthFails
  <2>2. CASE ~(\/ \E l \in act[a].lanes : row[l].state # "absent"
               \/ act[a].kind = "fork" /\ mgr[act[a].parent] = "none")
    <3>1. made \subseteq act[a].lanes /\ \E l \in act[a].lanes \ made : orphan = {l}
      BY <2>2 DEF DispatchBirthFails
    <3> QED
      BY <2>2, <3>1
  <2> QED
    BY <2>1, <2>2
<1>3. registered \subseteq act[a].lanes
  BY <1>2
<1>4. \A l \in Lanes : table[l] \in RowTypes /\ RowSound(table[l])
  BY RowCreated DEF IInv, Tables, RowsSound
<1>5. ASSUME NEW l \in Lanes
      PROVE  /\ row'[l] \in RowTypes /\ RowSound(row'[l])
             /\ row'[l].ver = table[l].ver /\ row'[l].ckpt = table[l].ckpt
             /\ row'[l] = table[l] \/ row'[l].state # "absent"
  <2>1. row'[l] = IF table[l].by = a /\ table[l].state = "starting"
                  THEN [table[l] EXCEPT !.state = "failed"] ELSE table[l]
    BY <1>1 DEF BirthFailed
  <2>2. "failed" \in RowStates /\ table[l] \in RowTypes /\ RowSound(table[l])
    BY <1>4 DEF RowStates, ActiveStates
  <2> HIDE DEF table
  <2> QED
    BY <2>1, <2>2, StateChanged
<1>6. row' \in [Lanes -> RowTypes]
  BY <1>1, <1>5 DEF BirthFailed
<1>7. /\ \A l \in Lanes : \/ row'[l] = row[l]
                          \/ /\ row[l].state = "absent" /\ RowSound(row'[l])
                             /\ row'[l].ver = 0 /\ row'[l].state # "absent"
                          \/ /\ RowSound(row'[l]) /\ row'[l].state # "absent"
                             /\ row'[l].ver = row[l].ver /\ row'[l].ckpt = row[l].ckpt
      /\ \A l \in made : row'[l].state # "absent"
  <2>1. \A l \in N : table[l] = NewRow(a)
    OBVIOUS
  <2>2. \A l \in Lanes \ N : table[l] = row[l]
    OBVIOUS
  <2> HIDE DEF table
  <2>3. NewRow(a).ver = 0 /\ NewRow(a).state # "absent"
    BY RowCreated
  <2>4. \A l \in N : /\ row[l].state = "absent" /\ RowSound(row'[l])
                     /\ row'[l].ver = 0 /\ row'[l].state # "absent"
    BY <1>2, <1>5, <2>1, <2>3
  <2> QED
    BY <1>5, <2>2, <2>4
<1>8. RowsStep /\ \A l \in Lanes : row'[l].ver = row[l].ver
  BY <1>6, <1>7, RowsAppear
<1> HIDE DEF registered, table
<1> QED
  BY <1>1, <1>2, <1>3, <1>7, <1>8, BirthStepInv

-----------------------------------------------------------------------------
(* Events.                                                                 *)

(* What the coordinator may rely on in the event it reads.                 *)
LEMMA HeadEvent ==
    ASSUME IInv, events # <<>>
    PROVE  LET e == Head(events) IN
           /\ e \in GoodEvents /\ e.lane \in Lanes /\ e.ver \in Nat /\ row[e.lane].state # "absent"
           /\ e.kind = "outcome" => e.status \in Answers /\ Targets(e.action, e.lane)
           /\ e.kind = "ready" => row[e.lane].ckpt # NoCheckpoint
<1>1. events \in Seq(GoodEvents)
  BY DEF IInv, Messages
<1>2. Head(events) \in GoodEvents /\ Head(events) = events[1] /\ 1 \in 1 .. Len(events)
  <2> HIDE DEF GoodEvents
  <2> QED
    BY <1>1, HeadTailProperties
<1>3. Head(events).kind = "ready" => row[Head(events).lane].ckpt # NoCheckpoint
  BY <1>2 DEF IInv, ReadySound
<1> QED
  BY <1>2, <1>3 DEF GoodEvents, EventTypes

(* An event is read; workers and their commands are left alone.            *)
LEMMA ReadInv ==
    ASSUME IInv, RowsStep, ActsStep, births' \in [Actions -> SUBSET Lanes],
           owner' \in [Lanes -> Actions \cup {NoAction}], proc' = proc, cmds' = cmds,
           events # <<>>, events' = Tail(events),
           Head(events).kind = "checkpoint" /\ Head(events).ver = 0 =>
               row'[Head(events).lane].ckpt # NoCheckpoint,
           OwnersSound', VersionCountsRevisions'
    PROVE  IInv'
<1>1. Tables'
  BY DEF IInv, Tables, RowsStep, ActsStep
<1>2. Messages'
  BY MessagesKept DEF IInv, Messages, RowsStep, ActsStep
<1>3. ActsExist'
  BY ActsKept DEF IInv, RowsStep
<1>4. ReadySound'
  BY ReadyRead DEF IInv, BootStep
<1>5. RowsSound'
  BY DEF IInv, RowsSound, RowsStep, LanesStay
<1> QED
  BY <1>1, <1>2, <1>3, <1>4, <1>5 DEF IInv

(* An event whose handling only changes rows, or raises.                   *)
LEMMA ReadRowsInv ==
    ASSUME IInv, RowsStep, \A l \in Lanes : row'[l].ver = row[l].ver,
           UNCHANGED <<act, outcome, owner, proc, cmds>>,
           events # <<>>, events' = Tail(events),
           Head(events).kind = "checkpoint" /\ Head(events).ver = 0 =>
               row'[Head(events).lane].ckpt # NoCheckpoint,
           births' \in [Actions -> SUBSET Lanes],
           \A l \in Lanes : owner[l] # NoAction =>
               \/ births'[owner[l]] = births[owner[l]]
               \/ l \in births'[owner[l]] \/ row'[l].ckpt # NoCheckpoint,
           \A a \in Actions : act[a].kind \in BirthKinds /\ a \in inflight => a \in inflight'
    PROVE  IInv'
<1>1. ActsStep
  BY DEF ActsStep, IInv, Tables
<1>2. OwnersSound'
  BY OwnersKept DEF IInv
<1>3. VersionCountsRevisions'
  BY VersionKept DEF IInv
<1>4. owner' \in [Lanes -> Actions \cup {NoAction}]
  BY DEF IInv, Tables
<1> QED
  BY <1>1, <1>2, <1>3, <1>4, ReadInv

(* The rows after an exception out of the event pump.                      *)
LEMMA FaultRows ==
    ASSUME IInv, Fault
    PROVE  RowsStep /\ outcome' = outcome /\ \A l \in Lanes : row'[l].ver = row[l].ver
<1> DEFINE S == {l \in Lanes : row[l].state = "running"}
           s == [l \in Lanes |-> "paused"]
<1>1. CASE phase = "up"
  <2>1. row' = [l \in Lanes |-> IF l \in S THEN [row[l] EXCEPT !.state = s[l]] ELSE row[l]]
    BY <1>1 DEF Fault
  <2>2. s \in [Lanes -> RowStates \ {"absent"}] /\ \A l \in S : row[l].ckpt # NoCheckpoint
    BY DEF RowStates, ActiveStates, IInv, RowsSound, RowSound
  <2>3. S \in SUBSET Lanes
    OBVIOUS
  <2> HIDE DEF s, S
  <2> QED
    BY <2>1, <2>2, <2>3, StatesChange DEF Fault
<1>2. CASE phase # "up"
  BY <1>2, RowsAlone DEF Fault
<1> QED
  BY <1>1, <1>2

(* record_lane_checkpoint.                                                 *)
LEMMA CheckpointInv ==
    ASSUME IInv, HandleCheckpoint
    PROVE  IInv'
<1> DEFINE e == Head(events)
           n == CheckpointedRow(row[e.lane], e.ver)
<1>1. /\ events # <<>> /\ events' = Tail(events) /\ e.kind = "checkpoint"
      /\ row' = [row EXCEPT ![e.lane] = n]
      /\ UNCHANGED <<act, outcome, births, owner, inflight, proc, cmds>>
  BY DEF HandleCheckpoint, Polling, dispatcher, workers
<1>2. e.lane \in Lanes /\ e.ver \in Nat /\ row[e.lane].state # "absent"
  BY <1>1, HeadEvent
<1>3. row \in [Lanes -> RowTypes] /\ \A l \in Lanes : RowSound(row[l])
  BY DEF IInv, Tables, RowsSound
<1>4. /\ n \in RowTypes /\ RowSound(n) /\ n.ver = row[e.lane].ver /\ n.state # "absent"
      /\ row[e.lane].ckpt # NoCheckpoint \/ e.ver = 0 => n.ckpt # NoCheckpoint
  BY <1>2, <1>3, RowCheckpointed
<1> HIDE DEF n
<1>5. row' \in [Lanes -> RowTypes] /\ row'[e.lane] = n /\ \A l \in Lanes : l # e.lane => row'[l] = row[l]
  BY <1>1, <1>2, <1>3, <1>4
<1>6. RowsStep /\ \A l \in Lanes : row'[l].ver = row[l].ver
  BY <1>3, <1>4, <1>5 DEF RowsStep, LanesStay
<1>7. births' \in [Actions -> SUBSET Lanes]
  BY <1>1 DEF IInv, Tables
<1> QED
  BY <1>1, <1>4, <1>5, <1>6, <1>7, ReadRowsInv

(* _handle_ready and complete_lane_births.                                 *)
LEMMA ReadyInv ==
    ASSUME IInv, HandleReady
    PROVE  IInv'
<1> DEFINE e == Head(events)
           a == owner[e.lane]
           C == {l \in Lanes : owner[l] = a}
<1>1. /\ events # <<>> /\ events' = Tail(events) /\ e.kind = "ready"
      /\ UNCHANGED <<act, proc, cmds>>
  BY DEF HandleReady, Polling
<1>2. e.lane \in Lanes /\ row[e.lane].ckpt # NoCheckpoint
  BY <1>1, HeadEvent
<1>3. a \in Actions \cup {NoAction} /\ births \in [Actions -> SUBSET Lanes]
  BY <1>2 DEF IInv, Tables
<1>4. CASE a = NoAction
  <2>1. UNCHANGED <<row, outcome, births, owner, inflight>>
    BY <1>4 DEF HandleReady
  <2> QED
    BY <1>1, <1>3, <2>1, RowsAlone, ReadRowsInv
<1>5. CASE a # NoAction /\ Awaited(a, e.lane) # {}
  <2>1. births' = [births EXCEPT ![a] = births[a] \ {e.lane}] /\ UNCHANGED <<row, outcome, owner, inflight>>
    BY <1>5 DEF HandleReady, Awaited
  <2>2. births' \in [Actions -> SUBSET Lanes]
    BY <1>3, <1>5, <2>1
  <2>3. ASSUME NEW l \in Lanes, owner[l] # NoAction
        PROVE  \/ births'[owner[l]] = births[owner[l]]
               \/ l \in births'[owner[l]] \/ row'[l].ckpt # NoCheckpoint
    <3>1. owner[l] \in Actions /\ (l \in births[owner[l]] \/ row[l].ckpt # NoCheckpoint)
      BY <2>3 DEF IInv, Tables, OwnersSound
    <3> QED
      BY <1>2, <1>3, <1>5, <2>1, <3>1
  <2> QED
    BY <1>1, <2>1, <2>2, <2>3, RowsAlone, ReadRowsInv
<1>6. ASSUME a # NoAction, Awaited(a, e.lane) = {}
      PROVE  a \in Actions /\ act[a].kind \in BirthKinds /\ \A l \in C : row[l].ckpt # NoCheckpoint
  <2>1. a \in Actions /\ births[a] \subseteq {e.lane}
    BY <1>3, <1>6 DEF Awaited
  <2>2. \A l \in C : l \in births[a] \/ row[l].ckpt # NoCheckpoint
    BY <1>6 DEF IInv, OwnersSound
  <2>3. act[a].kind \in BirthKinds
    BY <1>2, <1>6 DEF IInv, OwnersSound
  <2> QED
    BY <1>2, <2>1, <2>2, <2>3
<1>7. CASE /\ a # NoAction /\ Awaited(a, e.lane) = {}
           /\ outcome[a] = "pending" /\ \E l \in C : row[l].state # "starting"
  <2>1. Fault /\ births' = [births EXCEPT ![a] = {}] /\ UNCHANGED <<owner, inflight>>
    BY <1>7 DEF HandleReady
  <2>2. births' \in [Actions -> SUBSET Lanes]
    BY <1>3, <2>1
  <2>3. RowsStep /\ outcome' = outcome /\ \A l \in Lanes : row'[l].ver = row[l].ver
    BY <2>1, FaultRows
  <2>4. ASSUME NEW l \in Lanes, owner[l] # NoAction
        PROVE  births'[owner[l]] = births[owner[l]] \/ row'[l].ckpt # NoCheckpoint
    <3>1. owner[l] \in Actions
      BY <2>4 DEF IInv, Tables
    <3>2. CASE owner[l] = a
      BY <1>6, <1>7, <2>3, <3>2 DEF RowsStep
    <3>3. CASE owner[l] # a
      BY <1>3, <2>1, <3>1, <3>3
    <3> QED
      BY <3>2, <3>3
  <2> QED
    BY <1>1, <2>1, <2>2, <2>3, <2>4, ReadRowsInv
<1>8. CASE /\ a # NoAction /\ Awaited(a, e.lane) = {}
           /\ ~(outcome[a] = "pending" /\ \E l \in C : row[l].state # "starting")
  <2>1. /\ IF outcome[a] = "pending"
           THEN /\ row' = [l \in Lanes |-> IF l \in C THEN [row[l] EXCEPT !.state = "running"] ELSE row[l]]
                /\ outcome' = [outcome EXCEPT ![a] = "applied"]
           ELSE UNCHANGED <<row, outcome>>
        /\ inflight' = inflight \ {a}
        /\ births' = [births EXCEPT ![a] = {}]
        /\ owner' = [l \in Lanes |-> IF l \in C THEN NoAction ELSE owner[l]]
    BY <1>8 DEF HandleReady
  <2>2. /\ births' \in [Actions -> SUBSET Lanes] /\ owner' \in [Lanes -> Actions \cup {NoAction}]
        /\ \A l \in Lanes : owner'[l] # NoAction =>
             owner'[l] = owner[l] /\ births'[owner[l]] = births[owner[l]]
        /\ \A l \in Lanes : owner'[l] \in {owner[l], NoAction}
    BY <1>3, <1>6, <1>8, <2>1 DEF IInv, Tables
  <2>3. RowsStep /\ \A l \in Lanes : row'[l].ver = row[l].ver
    <3>1. CASE outcome[a] = "pending"
      <4> DEFINE s == [l \in Lanes |-> "running"]
      <4>1. row' = [l \in Lanes |-> IF l \in C THEN [row[l] EXCEPT !.state = s[l]] ELSE row[l]]
        BY <2>1, <3>1
      <4>2. s \in [Lanes -> RowStates \ {"absent"}] /\ C \in SUBSET Lanes
        BY DEF RowStates, ActiveStates
      <4>3. \A l \in C : row[l].ckpt # NoCheckpoint
        BY <1>6, <1>8
      <4> HIDE DEF s, C
      <4> QED
        BY <4>1, <4>2, <4>3, StatesChange
    <3>2. CASE outcome[a] # "pending"
      BY <2>1, <3>2, RowsAlone
    <3> QED
      BY <3>1, <3>2
  <2>4. /\ outcome' \in [Actions -> Outcomes] /\ outcome'[a] # "pending"
        /\ outcome'[a] = "none" <=> outcome[a] = "none"
        /\ \A b \in Actions : b # a => outcome'[b] = outcome[b]
    BY <1>6, <1>8, <2>1 DEF IInv, Tables, Outcomes
  <2>5. ActsStep
    BY <1>1, <2>4 DEF ActsStep
  <2>6. OwnersSound'
    BY <1>1, <2>1, <2>2, <2>3, <2>4, OwnersKept DEF IInv
  <2>7. VersionCountsRevisions'
    BY <1>1, <1>6, <1>8, <2>3, <2>4, VersionKept DEF IInv
  <2> QED
    BY <1>1, <2>2, <2>3, <2>5, <2>6, <2>7, ReadInv
<1> QED
  BY <1>4, <1>5, <1>7, <1>8

(* The owners when an action that is no birth is settled.                  *)
LEMMA ChangeOwners ==
    ASSUME IInv, RowsStep, NEW a \in Actions, act[a].kind \in ChangeKinds, act' = act,
           \A b \in Actions : b # a => outcome'[b] = outcome[b] /\ (b \in inflight => b \in inflight'),
           UNCHANGED <<births, owner>>
    PROVE  OwnersSound'
<1>1. act[a].kind \notin BirthKinds
  BY DEF ChangeKinds, BirthKinds
<1> QED
  BY <1>1, OwnersKept DEF IInv

(* apply_lane_action_outcome.                                              *)
LEMMA OutcomeInv ==
    ASSUME IInv, HandleOutcome
    PROVE  IInv'
<1> DEFINE e == Head(events)
           a == e.action
           l == e.lane
           n == RevisedRow(row[l], act[a].kind, e.ver)
<1>1. /\ events # <<>> /\ events' = Tail(events) /\ e.kind = "outcome" /\ act[a].kind # "reallocate"
      /\ UNCHANGED <<act, births, owner, proc, cmds>> /\ inflight' = inflight \ {a}
      /\ ApplyLaneOutcome(a, l, e.status, e.ver)
  BY DEF HandleOutcome, Polling, workers
<1>2. l \in Lanes /\ e.ver \in Nat /\ e.status \in Answers /\ Targets(a, l)
  BY <1>1, HeadEvent
<1>3. a \in Actions /\ act[a].kind \in ChangeKinds /\ act[a].lanes = {l}
  BY <1>1, <1>2 DEF Targets, IInv, ActsExist, ChangeKinds
<1>4. births' \in [Actions -> SUBSET Lanes] /\ owner' \in [Lanes -> Actions \cup {NoAction}]
  BY <1>1 DEF IInv, Tables
<1>5. CASE \/ outcome[a] # "pending"
           \/ e.status # "applied"
           \/ ~(row[l].ver = act[a].expected[l] /\ e.ver = row[l].ver + 1)
  <2>1. /\ row' = row
        /\ \/ outcome' = outcome
           \/ /\ outcome[a] = "pending"
              /\ \E s \in {"failed", "rejected_stale_state", "rejected_late_completion"} :
                   outcome' = [outcome EXCEPT ![a] = s]
    BY <1>1, <1>2, <1>5 DEF ApplyLaneOutcome, Answers
  <2>2. /\ outcome' \in [Actions -> Outcomes] /\ (outcome'[a] = "none" <=> outcome[a] = "none")
        /\ \A b \in Actions : b # a => outcome'[b] = outcome[b]
        /\ outcome'[a] = outcome[a] \/ (outcome[a] # "applied" /\ outcome'[a] # "applied")
    BY <1>3, <2>1 DEF IInv, Tables, Outcomes
  <2>3. RowsStep /\ ActsStep
    BY <1>1, <2>1, <2>2, RowsAlone DEF ActsStep
  <2>4. VersionCountsRevisions'
    BY <1>1, <2>1, <2>2, VersionKept DEF IInv
  <2>5. OwnersSound'
    BY <1>1, <1>3, <2>2, <2>3, ChangeOwners
  <2> QED
    BY <1>1, <1>4, <2>3, <2>4, <2>5, ReadInv
<1>6. CASE /\ outcome[a] = "pending" /\ e.status = "applied"
           /\ row[l].ver = act[a].expected[l] /\ e.ver = row[l].ver + 1
  <2>1. outcome' = [outcome EXCEPT ![a] = "applied"] /\ row' = [row EXCEPT ![l] = n]
    BY <1>1, <1>6 DEF ApplyLaneOutcome
  <2>2. row \in [Lanes -> RowTypes] /\ \A m \in Lanes : RowSound(row[m])
    BY DEF IInv, Tables, RowsSound
  <2>3. n \in RowTypes /\ RowSound(n) /\ n.ckpt # NoCheckpoint /\ n.ver = row[l].ver + 1 /\ n.state # "absent"
    BY <1>2, <1>6, <2>2, RowRevised
  <2> HIDE DEF n
  <2>4. row' \in [Lanes -> RowTypes] /\ row'[l] = n /\ \A m \in Lanes : m # l => row'[m] = row[m]
    BY <1>2, <2>1, <2>2, <2>3
  <2>5. /\ outcome' \in [Actions -> Outcomes] /\ outcome'[a] = "applied"
        /\ \A b \in Actions : b # a => outcome'[b] = outcome[b]
    BY <1>3, <2>1 DEF IInv, Tables, Outcomes
  <2>6. RowsStep /\ ActsStep
    BY <1>1, <1>6, <2>2, <2>3, <2>4, <2>5 DEF RowsStep, LanesStay, ActsStep
  <2>7. VersionCountsRevisions'
    BY <1>1, <1>3, <1>6, <2>3, <2>4, <2>5, VersionMoved DEF IInv
  <2>8. OwnersSound'
    BY <1>1, <1>3, <2>5, <2>6, ChangeOwners
  <2> QED
    BY <1>1, <1>4, <2>6, <2>7, <2>8, ReadInv
<1> QED
  BY <1>5, <1>6

(* An answer that leaves the rows and the outcome as they are, or settles  *)
(* the action without applying it.                                         *)
LEMMA UnappliedInv ==
    ASSUME IInv, NEW a \in Actions, act[a].kind \in ChangeKinds,
           UNCHANGED <<row, act, births, owner, proc, cmds>>,
           outcome' = outcome \/ (outcome[a] = "pending" /\ outcome' = [outcome EXCEPT ![a] = "failed"]),
           inflight' = inflight \/ inflight' = inflight \ {a},
           events # <<>>, events' = Tail(events), Head(events).kind = "outcome"
    PROVE  IInv'
<1>1. /\ outcome' \in [Actions -> Outcomes] /\ (outcome'[a] = "none" <=> outcome[a] = "none")
      /\ \A b \in Actions : b # a => outcome'[b] = outcome[b]
      /\ outcome'[a] = outcome[a] \/ (outcome[a] # "applied" /\ outcome'[a] # "applied")
  BY DEF IInv, Tables, Outcomes
<1>2. RowsStep /\ ActsStep
  BY <1>1, RowsAlone DEF ActsStep
<1>3. VersionCountsRevisions'
  BY <1>1, VersionKept DEF IInv
<1>4. OwnersSound'
  BY <1>1, <1>2, ChangeOwners
<1>5. births' \in [Actions -> SUBSET Lanes] /\ owner' \in [Lanes -> Actions \cup {NoAction}]
  BY DEF IInv, Tables
<1> QED
  BY <1>2, <1>3, <1>4, <1>5, ReadInv

(* apply_multi_lane_action_outcome.                                        *)
LEMMA AllocationInv ==
    ASSUME IInv, HandleAllocation
    PROVE  IInv'
<1> DEFINE e == Head(events)
           a == e.action
           S == act[a].lanes
           got == [alloc[a] EXCEPT ![e.lane] = e.status]
           onTime == \A l \in S : row[l].ver = act[a].expected[l]
<1>1. /\ events # <<>> /\ events' = Tail(events) /\ e.kind = "outcome" /\ act[a].kind = "reallocate"
      /\ UNCHANGED <<act, births, owner, proc, cmds>>
  BY DEF HandleAllocation, Polling
<1>2. a \in Actions /\ act[a].kind \in ChangeKinds /\ S \subseteq Lanes
  BY <1>1, HeadEvent DEF Targets, IInv, Tables, ActTypes
<1>3. births' \in [Actions -> SUBSET Lanes] /\ owner' \in [Lanes -> Actions \cup {NoAction}]
  BY <1>1 DEF IInv, Tables
<1>4. CASE ~AllAnswered(S, got)
  <2>1. UNCHANGED <<row, outcome, inflight>>
    BY <1>4 DEF HandleAllocation
  <2> QED
    BY <1>1, <1>2, <2>1, UnappliedInv
<1>5. CASE AllAnswered(S, got) /\ outcome[a] = "pending" /\ ~Refused(S, got) /\ ~onTime
  <2>1. Fault /\ inflight' = inflight
    BY <1>5 DEF HandleAllocation
  <2>2. RowsStep /\ outcome' = outcome /\ \A l \in Lanes : row'[l].ver = row[l].ver
    BY <2>1, FaultRows
  <2> QED
    BY <1>1, <1>3, <2>1, <2>2, ReadRowsInv
<1>6. CASE /\ AllAnswered(S, got) /\ ~(outcome[a] = "pending" /\ ~Refused(S, got) /\ ~onTime)
           /\ outcome[a] # "pending" \/ Refused(S, got)
  <2>1. /\ row' = row /\ inflight' = inflight \ {a}
        /\ outcome' = outcome \/ (outcome[a] = "pending" /\ outcome' = [outcome EXCEPT ![a] = "failed"])
    BY <1>6 DEF HandleAllocation
  <2> QED
    BY <1>1, <1>2, <2>1, UnappliedInv
<1>7. CASE AllAnswered(S, got) /\ outcome[a] = "pending" /\ ~Refused(S, got) /\ onTime
  <2>1. /\ outcome' = [outcome EXCEPT ![a] = "applied"] /\ inflight' = inflight \ {a}
        /\ row' = [l \in Lanes |-> IF l \in S THEN AllocatedRow(row[l]) ELSE row[l]]
    BY <1>7 DEF HandleAllocation
  <2>2. \A l \in Lanes : row[l] \in RowTypes /\ RowSound(row[l]) /\ (l \in S => row[l].state # "absent")
    BY <1>2 DEF IInv, Tables, RowsSound, ActsExist
  <2>3. \A l \in S : /\ row'[l] \in RowTypes /\ RowSound(row'[l]) /\ row'[l].ckpt # NoCheckpoint
                     /\ row'[l].ver = row[l].ver + 1 /\ row'[l].state # "absent"
    BY <1>2, <2>1, <2>2, RowAllocated
  <2>4. \A l \in Lanes \ S : row'[l] = row[l]
    BY <2>1
  <2>5. row' \in [Lanes -> RowTypes]
    BY <2>1, <2>2, <2>3, <2>4
  <2>6. /\ outcome' \in [Actions -> Outcomes] /\ outcome'[a] = "applied"
        /\ \A b \in Actions : b # a => outcome'[b] = outcome[b]
    BY <1>2, <2>1 DEF IInv, Tables, Outcomes
  <2>7. RowsStep
    BY <2>2, <2>3, <2>4, <2>5 DEF RowsStep, LanesStay
  <2>8. ActsStep
    BY <1>1, <1>7, <2>6 DEF ActsStep
  <2>9. VersionCountsRevisions'
    BY <1>1, <1>2, <1>7, <2>3, <2>4, <2>6, VersionMoved DEF IInv
  <2>10. OwnersSound'
    BY <1>1, <1>2, <2>1, <2>6, <2>7, ChangeOwners
  <2> QED
    BY <1>1, <1>3, <2>7, <2>8, <2>9, <2>10, ReadInv
<1> QED
  BY <1>4, <1>5, <1>6, <1>7

(* The rows after the exit of a lane: record_lane_exit, and                *)
(* mark_lane_birth_failed after it.                                        *)
LEMMA ExitRows ==
    ASSUME IInv, NEW e, e.lane \in Lanes, NEW a, row' = ExitedRow(e) \/ row' = BirthFailed(ExitedRow(e), a)
    PROVE  RowsStep /\ \A l \in Lanes : row'[l].ver = row[l].ver
<1> DEFINE t == ExitedRow(e)
           s == IF e.status = "failure" THEN "failed" ELSE "stopped"
<1>1. s \in RowStates /\ s # "absent" /\ s \notin {"running", "paused"} /\ "failed" \in RowStates
  BY DEF RowStates, ActiveStates
<1>2. row \in [Lanes -> RowTypes] /\ \A l \in Lanes : RowSound(row[l])
  BY DEF IInv, Tables, RowsSound
<1>3. t = row \/ (row[e.lane].state # "absent" /\ t = [row EXCEPT ![e.lane] = [row[e.lane] EXCEPT !.state = s]])
  BY DEF ExitedRow
<1> DEFINE n == [row[e.lane] EXCEPT !.state = s]
<1>4. /\ n \in RowTypes /\ RowSound(n) /\ n.state = s
      /\ n.ver = row[e.lane].ver /\ n.ckpt = row[e.lane].ckpt
  BY <1>1, <1>2, StateChanged
<1> HIDE DEF n, s
<1>5. \A l \in Lanes : t[l] = row[l] \/ (l = e.lane /\ t[l] = n)
  BY <1>2, <1>3 DEF n
<1>6. t \in [Lanes -> RowTypes]
  BY <1>2, <1>3, <1>4 DEF n
<1>7. \A l \in Lanes : /\ t[l] \in RowTypes /\ RowSound(t[l])
                       /\ t[l] = row[l] \/ (t[l].state # "absent" /\ t[l].ver = row[l].ver /\ t[l].ckpt = row[l].ckpt)
  BY <1>1, <1>2, <1>4, <1>5, <1>6
<1> HIDE DEF t
<1>8. CASE row' = t
  BY <1>6, <1>7, <1>8, RowsAppear
<1>9. CASE row' = BirthFailed(t, a)
  <2>1. ASSUME NEW l \in Lanes
        PROVE  /\ row'[l] \in RowTypes /\ RowSound(row'[l])
               /\ \/ row'[l] = t[l]
                  \/ row'[l].state # "absent" /\ row'[l].ver = t[l].ver /\ row'[l].ckpt = t[l].ckpt
    <3>1. row'[l] = IF t[l].by = a /\ t[l].state = "starting" THEN [t[l] EXCEPT !.state = "failed"] ELSE t[l]
      BY <1>9 DEF BirthFailed
    <3> QED
      BY <1>1, <1>7, <3>1, StateChanged
  <2>2. row' \in [Lanes -> RowTypes]
    BY <1>9, <2>1 DEF BirthFailed
  <2>3. ASSUME NEW l \in Lanes
        PROVE  \/ row'[l] = row[l]
               \/ /\ RowSound(row'[l]) /\ row'[l].state # "absent"
                  /\ row'[l].ver = row[l].ver /\ row'[l].ckpt = row[l].ckpt
    BY <1>7, <2>1
  <2> QED
    BY <2>2, <2>3, RowsAppear
<1> QED
  BY <1>8, <1>9 DEF t

(* _handle_exit.                                                           *)
LEMMA ExitInv ==
    ASSUME IInv, HandleExit
    PROVE  IInv'
<1> DEFINE e == Head(events)
           a == owner[e.lane]
           siblings == {l \in Lanes \ {e.lane} : owner[l] = a}
<1>1. /\ events # <<>> /\ events' = Tail(events) /\ e.kind = "exit"
      /\ UNCHANGED <<act, proc, cmds>>
  BY DEF HandleExit, Polling
<1>2. e.lane \in Lanes
  BY <1>1, HeadEvent
<1>3. a \in Actions \cup {NoAction} /\ births \in [Actions -> SUBSET Lanes]
  BY <1>2 DEF IInv, Tables
<1>4. CASE a # NoAction /\ a \in inflight
  <2>1. /\ row' = BirthFailed(ExitedRow(e), a)
        /\ outcome' = [outcome EXCEPT ![a] = IF @ = "pending" THEN "failed" ELSE @]
        /\ owner' = [l \in Lanes |-> IF l \in siblings \cup {e.lane} THEN NoAction ELSE owner[l]]
        /\ births' = [births EXCEPT ![a] = {}]
        /\ inflight' = inflight \ {a}
    BY <1>4 DEF HandleExit
  <2>2. /\ births' \in [Actions -> SUBSET Lanes] /\ owner' \in [Lanes -> Actions \cup {NoAction}]
        /\ \A l \in Lanes : owner'[l] # NoAction =>
             owner'[l] = owner[l] /\ births'[owner[l]] = births[owner[l]]
        /\ \A l \in Lanes : owner'[l] \in {owner[l], NoAction}
    BY <1>3, <1>4, <2>1 DEF IInv, Tables
  <2>3. RowsStep /\ \A l \in Lanes : row'[l].ver = row[l].ver
    BY <1>2, <2>1, ExitRows
  <2>4. /\ outcome' \in [Actions -> Outcomes] /\ outcome'[a] # "pending"
        /\ (outcome'[a] = "none" <=> outcome[a] = "none")
        /\ \A b \in Actions : b # a => outcome'[b] = outcome[b]
        /\ outcome'[a] = outcome[a] \/ (outcome[a] # "applied" /\ outcome'[a] # "applied")
    BY <1>3, <1>4, <2>1 DEF IInv, Tables, Outcomes
  <2>5. ActsStep
    BY <1>1, <2>4 DEF ActsStep
  <2>6. OwnersSound'
    BY <1>1, <2>1, <2>2, <2>3, <2>4, OwnersKept DEF IInv
  <2>7. VersionCountsRevisions'
    BY <1>1, <2>3, <2>4, VersionKept DEF IInv
  <2> QED
    BY <1>1, <2>2, <2>3, <2>5, <2>6, <2>7, ReadInv
<1>5. CASE ~(a # NoAction /\ a \in inflight)
  <2>1. /\ row' = ExitedRow(e) /\ owner' = [owner EXCEPT ![e.lane] = NoAction]
        /\ UNCHANGED <<outcome, births, inflight>>
    BY <1>5 DEF HandleExit
  <2>2. /\ owner' \in [Lanes -> Actions \cup {NoAction}]
        /\ \A l \in Lanes : owner'[l] \in {owner[l], NoAction}
    BY <2>1 DEF IInv, Tables
  <2>3. RowsStep /\ \A l \in Lanes : row'[l].ver = row[l].ver
    BY <1>2, <2>1, ExitRows
  <2>4. ActsStep
    BY <1>1, <2>1 DEF ActsStep, IInv, Tables
  <2>5. OwnersSound'
    BY <1>1, <2>1, <2>2, <2>3, OwnersKept DEF IInv
  <2>6. VersionCountsRevisions'
    BY <1>1, <2>1, <2>3, VersionKept DEF IInv
  <2> QED
    BY <1>1, <1>3, <2>1, <2>2, <2>3, <2>4, <2>5, <2>6, ReadInv
<1> QED
  BY <1>4, <1>5

-----------------------------------------------------------------------------
(* The theorems.                                                           *)

(* Nothing exists at first.                                                *)
LEMMA InitInv ==
    ASSUME Init
    PROVE  IInv
<1>1. Tables
  BY DEF Init, Tables, RowTypes, RowStates, ActTypes, NoAct, Outcomes, ProcTypes
<1>2. Messages
  BY EmptySeq DEF Init, Messages
<1>3. ActsExist /\ OwnersSound /\ ReadySound
  BY DEF Init, ActsExist, OwnersSound, ReadySound, NoAct, ChangeKinds
<1>4. RowsSound
  BY DEF Init, RowsSound, RowSound
<1>5. VersionCountsRevisions
  <2>1. \A l \in Lanes : Revisions(l) = {} /\ row[l].ver = 0
    BY DEF Init, Revisions
  <2> QED
    BY <2>1, FS_EmptySet DEF VersionCountsRevisions
<1> QED
  BY <1>1, <1>2, <1>3, <1>4, <1>5 DEF IInv

(* A step that changes nothing.                                            *)
LEMMA StutterInv ==
    ASSUME IInv, UNCHANGED vars
    PROVE  IInv'
<1>1. UNCHANGED <<row, act, outcome, births, owner, inflight, proc, cmds, events>>
  BY DEF vars, rows, dispatcher, workers
<1> QED
  BY <1>1, RowsAlone, RowsOnly

(* Every step keeps the invariant.                                         *)
LEMMA NextInv ==
    ASSUME IInv, [Next]_vars
    PROVE  IInv'
<1>1. CASE Commit
  BY <1>1, CommitsInv
<1>2. CASE \E a \in Actions : DispatchExpired(a)
  BY <1>2, ExpiredInv
<1>3. CASE Dispatch
  BY <1>3, BirthInv, BirthFailsInv, ChangeInv DEF Dispatch
<1>4. CASE \E l \in Lanes : WorkerStep(l) \/ WorkerFails(l)
  BY <1>4, WorkerReadyInv, WorkerAppliesInv, WorkerEndsInv DEF WorkerStep
<1>5. CASE Poll
  BY <1>5, CheckpointInv, ReadyInv, OutcomeInv, AllocationInv, ExitInv DEF Poll
<1>6. CASE \/ ShutdownEnd \/ Crash
           \/ \E a \in Actions, made \in SUBSET Lanes : CrashInBirth(a, made)
  BY <1>6, EndInv
<1>7. CASE \E R \in SUBSET Lanes : Recover(R)
  BY <1>7, RecoverInv
<1>8. CASE ActivateRecovered \/ Shutdown
  BY <1>8, ActivateInv
<1>9. CASE UNCHANGED vars
  BY <1>9, StutterInv
<1> QED
  BY <1>1, <1>2, <1>3, <1>4, <1>5, <1>6, <1>7, <1>8, <1>9 DEF Next

(* Through crashes, redelivery after recovery, failed births and lost      *)
(* answers, the durable rows, the actions and what is under way between    *)
(* the coordinator and its workers keep to one account of each lane.       *)
THEOREM Invariant == Spec => []IInv
<1>1. Init => IInv
  BY InitInv
<1>2. IInv /\ [Next]_vars => IInv'
  BY NextInv
<1> QED
  BY <1>1, <1>2, PTL DEF Spec

(* Exactly once: whatever is delivered again after a crash, the version of *)
(* a lane's row is the number of actions applied to it                     *)
(* (apply_lane_action_outcome, apply_multi_lane_action_outcome).           *)
THEOREM VersionsExact == Spec => []VersionCountsRevisions
<1>1. IInv => VersionCountsRevisions
  BY DEF IInv
<1> QED
  BY <1>1, Invariant, PTL

(* Wherever the coordinator may crash, a lane that is running or paused    *)
(* has a durable checkpoint taken at the version of its row, the one       *)
(* CampaignRecovery.recover restores it from.                              *)
THEOREM RunningRestorable == Spec => []RunningLanesRestorable
<1>1. IInv => RunningLanesRestorable
  BY DEF IInv, RowsSound, RowSound, RunningLanesRestorable
<1> QED
  BY <1>1, Invariant, PTL

-----------------------------------------------------------------------------
(* Births: a fork's children start running together, in the transaction    *)
(* that applies the fork.                                                  *)

(* An action that makes lanes: start_lane and fork_lane.                   *)
IsBirth(a) == act[a].kind \in BirthKinds

(* Two births claim no lane twice, and a row belongs to a birth.           *)
BirthsApart ==
    /\ \A a, b \in Actions, l \in Lanes :
        IsBirth(a) /\ IsBirth(b) /\ l \in act[a].lanes /\ l \in act[b].lanes => a = b
    /\ \A l \in Lanes : row[l].state # "absent" => ~Unclaimed(l)

(* A birth under way owns all of its children, and none of them was        *)
(* restored from an earlier attempt.                                       *)
UnderWay ==
    /\ \A a \in Actions : IsBirth(a) /\ outcome[a] = "pending" /\ a \in inflight =>
        \A l \in act[a].lanes : owner[l] = a /\ l \notin restored
    /\ \A l \in restored : l \in Lanes /\ row[l].state # "absent"
    /\ \A a \in inflight : a \in Actions /\ outcome[a] # "none"
    /\ phase = "down" => inflight = {}

(* The children of an applied birth have all been running.                 *)
BirthsComplete ==
    \A a \in Actions : IsBirth(a) /\ outcome[a] = "applied" =>
        \A l \in act[a].lanes : row[l].state \notin {"absent", "starting"}

(* Without patch_lane and restart_lane, nothing else sets a child running. *)
NoneBefore ==
    "patch" \notin Kinds =>
        \A a \in Actions : IsBirth(a) /\ outcome[a] = "pending" =>
            \A l \in act[a].lanes : row[l].state # "running"

BirthInvs == BirthsApart /\ UnderWay /\ BirthsComplete /\ NoneBefore

(* Rows keep their state, leave the state they have, or appear.            *)
StatesMove ==
    \A l \in Lanes : \/ row'[l].state = row[l].state
                     \/ row[l].state # "absent" /\ row'[l].state \in {"running", "paused", "stopped", "failed"}
                     \/ row[l].state = "absent" /\ ~Unclaimed(l)

(* A birth is settled once, as applied only with all of its children.      *)
BirthsMove ==
    \A a \in Actions :
        /\ outcome[a] # "none" => outcome'[a] # "none"
        /\ IsBirth(a) => \/ outcome'[a] = outcome[a]
                         \/ /\ outcome'[a] # "pending"
                            /\ outcome'[a] = "applied" =>
                                 \A l \in act[a].lanes : row'[l].state \notin {"absent", "starting"}

(* A lane is set running only when no birth waits for it.                  *)
RunningMoves ==
    "patch" \notin Kinds =>
        \A l \in Lanes : row'[l].state = "running" =>
            \/ row[l].state = "running"
            \/ \A a \in Actions : IsBirth(a) /\ l \in act[a].lanes => outcome'[a] # "pending"

(* A step that keeps the actions, moves rows as StatesMove says and        *)
(* settles births as BirthsMove and RunningMoves say, keeps the account of *)
(* births.                                                                 *)
LEMMA BirthsKept ==
    ASSUME IInv, BirthInvs, act' = act, StatesMove, BirthsMove, RunningMoves, UnderWay'
    PROVE  BirthInvs'
<1>1. \A a \in Actions : act[a].lanes \subseteq Lanes
  BY DEF IInv, Tables, ActTypes
<1>2. BirthsApart'
  BY DEF BirthInvs, BirthsApart, IsBirth, StatesMove, Unclaimed
<1>3. BirthsComplete'
  BY <1>1 DEF BirthInvs, BirthsComplete, IsBirth, StatesMove, BirthsMove
<1>4. NoneBefore'
  BY <1>1 DEF BirthInvs, NoneBefore, IsBirth, BirthsMove, RunningMoves
<1> QED
  BY <1>2, <1>3, <1>4 DEF BirthInvs

(* A step that leaves the rows alone has only births and owners to account *)
(* for.                                                                    *)
LEMMA RowsAloneBirths ==
    ASSUME IInv, BirthInvs, act' = act, row' = row, BirthsMove, UnderWay'
    PROVE  BirthInvs'
BY BirthsKept DEF StatesMove, RunningMoves

(* A birth stays under way through a step that changes no owner and puts   *)
(* no birth in flight.                                                     *)
LEMMA UnderWayKept ==
    ASSUME IInv, BirthInvs, act' = act, StatesMove, BirthsMove,
           \A l \in Lanes : owner'[l] = owner[l], restored' = restored,
           \A a \in inflight' : a \in inflight \/ (a \in Actions /\ outcome[a] # "none" /\ ~IsBirth(a)),
           phase' # "down"
    PROVE  UnderWay'
<1>1. \A a \in Actions : act[a].lanes \subseteq Lanes
  BY DEF IInv, Tables, ActTypes
<1>2. \A a \in Actions : IsBirth(a) /\ outcome'[a] = "pending" => outcome[a] = "pending"
  BY DEF BirthsMove
<1>3. \A l \in Lanes : row[l].state # "absent" => row'[l].state # "absent"
  BY DEF StatesMove
<1> QED
  BY <1>1, <1>2, <1>3 DEF BirthInvs, UnderWay, IsBirth, BirthsMove

(* A committed birth claims lanes that no other birth claims: the ids of   *)
(* children are derived from the action (_derived_id).                     *)
LEMMA CommitBirths ==
    ASSUME IInv, BirthInvs, NEW a \in Actions, NEW kind, NEW S \in SUBSET Lanes, NEW parent,
           CommitAs(a, kind, S, parent), kind \in BirthKinds => \A l \in S : Unclaimed(l)
    PROVE  BirthInvs'
<1> DEFINE new == [kind |-> kind, lanes |-> S, parent |-> parent, expected |-> [l \in Lanes |-> row[l].ver]]
<1>1. /\ outcome[a] = "none" /\ act' = [act EXCEPT ![a] = new] /\ outcome' = [outcome EXCEPT ![a] = "pending"]
      /\ UNCHANGED <<row, owner, inflight, restored, phase>>
  BY DEF CommitAs, dispatcher, manager
<1>2. act[a].kind = "none" /\ act \in [Actions -> ActTypes] /\ outcome \in [Actions -> Outcomes]
  BY <1>1 DEF IInv, ActsExist, Tables
<1>3. new.kind = kind /\ new.lanes = S
  OBVIOUS
<1> HIDE DEF new
<1>4. /\ act'[a] = new /\ outcome'[a] = "pending"
      /\ \A b \in Actions : b # a => act'[b] = act[b] /\ outcome'[b] = outcome[b]
  BY <1>1, <1>2
<1>5. ~IsBirth(a) /\ a \notin inflight
  BY <1>1, <1>2 DEF IsBirth, BirthKinds, BirthInvs, UnderWay
<1>6. BirthsApart'
  <2>1. \A l \in Lanes : ~Unclaimed(l) => ~Unclaimed(l)'
    BY <1>4, <1>5 DEF Unclaimed, IsBirth
  <2>2. ASSUME NEW b \in Actions, NEW l \in Lanes, b # a, IsBirth(b)', l \in act'[b].lanes,
               IsBirth(a)', l \in act'[a].lanes
        PROVE  FALSE
    BY <1>3, <1>4, <2>2 DEF IsBirth, Unclaimed
  <2> QED
    BY <1>1, <1>4, <2>1, <2>2 DEF BirthInvs, BirthsApart, IsBirth
<1>7. UnderWay'
  BY <1>1, <1>4, <1>5 DEF BirthInvs, UnderWay, IsBirth
<1>8. BirthsComplete'
  BY <1>1, <1>4 DEF BirthInvs, BirthsComplete, IsBirth
<1>9. NoneBefore'
  <2>1. IsBirth(a)' => \A l \in S : row[l].state = "absent"
    BY <1>3, <1>4 DEF IsBirth, BirthInvs, BirthsApart
  <2> QED
    BY <1>1, <1>3, <1>4, <2>1 DEF BirthInvs, NoneBefore, IsBirth
<1> QED
  BY <1>6, <1>7, <1>8, <1>9 DEF BirthInvs

(* No kind of commit disturbs a birth.                                     *)
LEMMA CommitsBirths ==
    ASSUME IInv, BirthInvs, Commit
    PROVE  BirthInvs'
<1>1. PICK a \in Actions :
        \/ \E l \in Lanes : CommitStart(a, l)
        \/ \E p \in Lanes, S \in SUBSET Lanes : CommitFork(a, p, S)
        \/ \E l \in Lanes, kind \in {"patch", "stop"} : CommitChange(a, kind, l)
        \/ \E S \in SUBSET Lanes : CommitReallocation(a, S)
  BY DEF Commit
<1>2. ASSUME NEW l \in Lanes, CommitStart(a, l) PROVE BirthInvs'
  BY <1>2, CommitBirths DEF CommitStart
<1>3. ASSUME NEW p \in Lanes, NEW S \in SUBSET Lanes, CommitFork(a, p, S) PROVE BirthInvs'
  BY <1>3, CommitBirths DEF CommitFork
<1>4. ASSUME NEW l \in Lanes, NEW kind \in {"patch", "stop"}, CommitChange(a, kind, l) PROVE BirthInvs'
  BY <1>4, CommitBirths DEF CommitChange, BirthKinds
<1>5. ASSUME NEW S \in SUBSET Lanes, CommitReallocation(a, S) PROVE BirthInvs'
  BY <1>5, CommitBirths DEF CommitReallocation, BirthKinds
<1> QED
  BY <1>1, <1>2, <1>3, <1>4, <1>5

(* An action settled other than as applied changes no birth's children.    *)
LEMMA SettledBirths ==
    ASSUME IInv, BirthInvs, NEW a \in Actions, outcome[a] = "pending",
           NEW s \in Outcomes \ {"none", "pending", "applied"},
           outcome' = [outcome EXCEPT ![a] = s] \/ outcome' = outcome,
           act' = act, row' = row, owner' = owner, restored' = restored, phase' # "down",
           inflight' \subseteq inflight \/ (inflight' = inflight \cup {a} /\ ~IsBirth(a))
    PROVE  BirthInvs'
<1>1. \A b \in Actions : outcome'[b] = outcome[b] \/ (b = a /\ outcome'[b] = s)
  BY DEF IInv, Tables
<1>2. BirthsMove /\ StatesMove
  BY <1>1 DEF BirthsMove, StatesMove
<1>3. UnderWay'
  BY <1>2, UnderWayKept
<1> QED
  BY <1>2, <1>3, RowsAloneBirths

(* The dispatcher's delivery of a change, its failure and an expired       *)
(* action leave births alone.                                              *)
LEMMA DeliveredBirths ==
    ASSUME IInv, BirthInvs, NEW a \in Actions,
           \/ DispatchExpired(a) \/ DispatchChange(a)
           \/ \E sent \in SUBSET Lanes : DispatchChangeFails(a, sent)
    PROVE  BirthInvs'
<1>1. CASE DispatchExpired(a)
  <2>1. "rejected_lease_expired" \in Outcomes \ {"none", "pending", "applied"}
    BY DEF Outcomes
  <2> QED
    BY <1>1, <2>1, SettledBirths DEF DispatchExpired, Deliverable, dispatcher, manager
<1>2. CASE DispatchChange(a)
  <2>1. "failed" \in Outcomes \ {"none", "pending", "applied"}
    BY DEF Outcomes
  <2> QED
    BY <1>2, <2>1, SettledBirths DEF DispatchChange, Deliverable, manager, rows, IsBirth
<1>3. ASSUME NEW sent \in SUBSET Lanes, DispatchChangeFails(a, sent) PROVE BirthInvs'
  <2>1. "failed" \in Outcomes \ {"none", "pending", "applied"}
    BY DEF Outcomes
  <2> QED
    BY <1>3, <2>1, SettledBirths DEF DispatchChangeFails, Deliverable, dispatcher, manager
<1> QED
  BY <1>1, <1>2, <1>3

(* The delivery of a birth gives it all of its children, each in state     *)
(* starting.                                                               *)
LEMMA BirthBirths ==
    ASSUME IInv, BirthInvs, NEW a \in Actions, DispatchBirth(a)
    PROVE  BirthInvs'
<1> DEFINE S == act[a].lanes
<1>1. /\ Deliverable(a) /\ act[a].kind \in BirthKinds /\ \A l \in S : row[l].state = "absent"
      /\ row' = [l \in Lanes |-> IF l \in S THEN NewRow(a) ELSE row[l]]
      /\ owner' = [l \in Lanes |-> IF l \in S THEN a ELSE owner[l]]
      /\ UNCHANGED <<act, outcome, restored, phase>> /\ inflight' = inflight \cup {a}
  BY DEF DispatchBirth, BirthPossible
<1>2. S \subseteq Lanes /\ \A b \in Actions : act[b].lanes \subseteq Lanes
  BY DEF IInv, Tables, ActTypes
<1>3. IsBirth(a) /\ outcome[a] = "pending" /\ phase # "down" /\ \A l \in S : ~Unclaimed(l)
  BY <1>1, <1>2 DEF IsBirth, Unclaimed, Deliverable
<1>4. \A l \in Lanes : row'[l] = row[l] \/ (l \in S /\ row'[l].state = "starting")
  BY <1>1, RowCreated
<1>5. StatesMove /\ BirthsMove
  BY <1>1, <1>3, <1>4 DEF StatesMove, BirthsMove
<1>6. RunningMoves
  BY <1>4 DEF RunningMoves
<1>7. UnderWay'
  <2>1. \A l \in S : l \notin restored
    BY <1>1 DEF BirthInvs, UnderWay
  <2>2. \A b \in Actions, l \in Lanes : b # a /\ IsBirth(b) /\ l \in act[b].lanes => owner'[l] = owner[l]
    BY <1>1, <1>2, <1>3 DEF BirthInvs, BirthsApart
  <2>3. \A l \in S : owner'[l] = a
    BY <1>1, <1>2
  <2>4. \A l \in restored : row'[l].state # "absent"
    BY <1>4 DEF BirthInvs, UnderWay
  <2> QED
    BY <1>1, <1>2, <1>3, <2>1, <2>2, <2>3, <2>4 DEF BirthInvs, UnderWay, IsBirth
<1> QED
  BY <1>1, <1>5, <1>6, <1>7, BirthsKept

(* A birth whose registration or whose processes fail is settled as        *)
(* failed, its rows with it.                                               *)
LEMMA BirthFailsBirths ==
    ASSUME IInv, BirthInvs, NEW a \in Actions, NEW made \in SUBSET Lanes, NEW orphan \in SUBSET Lanes,
           DispatchBirthFails(a, made, orphan)
    PROVE  BirthInvs'
<1> DEFINE registered == IF act[a].kind = "start" THEN orphan ELSE {}
           N == made \cup orphan
           table == [l \in Lanes |-> IF l \in N THEN NewRow(a) ELSE row[l]]
<1>1. /\ Deliverable(a) /\ act[a].kind \in BirthKinds
      /\ row' = BirthFailed(table, a)
      /\ owner' = [l \in Lanes |-> IF l \in registered THEN a ELSE owner[l]]
      /\ UNCHANGED <<act, inflight, restored, phase>> /\ outcome' = [outcome EXCEPT ![a] = "failed"]
  BY DEF DispatchBirthFails
<1>2. /\ made \subseteq act[a].lanes /\ orphan \subseteq act[a].lanes
      /\ \A l \in N : row[l].state = "absent"
  <2>1. CASE \/ \E l \in act[a].lanes : row[l].state # "absent"
             \/ act[a].kind = "fork" /\ mgr[act[a].parent] = "none"
    BY <2>1 DEF DispatchBirthFails
  <2>2. CASE ~(\/ \E l \in act[a].lanes : row[l].state # "absent"
               \/ act[a].kind = "fork" /\ mgr[act[a].parent] = "none")
    <3>1. made \subseteq act[a].lanes /\ \E l \in act[a].lanes \ made : orphan = {l}
      BY <2>2 DEF DispatchBirthFails
    <3> QED
      BY <2>2, <3>1
  <2> QED
    BY <2>1, <2>2
<1>3. IsBirth(a) /\ outcome[a] = "pending" /\ phase # "down" /\ \A l \in N : ~Unclaimed(l)
  BY <1>1, <1>2 DEF IsBirth, Unclaimed, Deliverable
<1>4. /\ \A b \in Actions : b # a => outcome'[b] = outcome[b]
      /\ outcome'[a] = "failed"
      /\ \A b \in Actions : act[b].lanes \subseteq Lanes
  BY <1>1 DEF IInv, Tables, ActTypes
<1>5. \A l \in Lanes : table[l] \in RowTypes
  BY RowCreated DEF IInv, Tables
<1>6. ASSUME NEW l \in Lanes
      PROVE  \/ row'[l] = row[l]
             \/ row[l].state # "absent" /\ row'[l].state = "failed"
             \/ l \in N /\ row'[l].state \in {"starting", "failed"}
  <2>1. row'[l] = IF table[l].by = a /\ table[l].state = "starting"
                  THEN [table[l] EXCEPT !.state = "failed"] ELSE table[l]
    BY <1>1 DEF BirthFailed
  <2>2. (row'[l] = table[l] \/ (table[l].state = "starting" /\ row'[l].state = "failed"))
    BY <1>5, <2>1 DEF RowTypes
  <2>3. table[l] = IF l \in N THEN NewRow(a) ELSE row[l]
    OBVIOUS
  <2> HIDE DEF table
  <2> QED
    BY <2>2, <2>3, RowCreated
<1> HIDE DEF table
<1>7. StatesMove /\ BirthsMove
  BY <1>2, <1>3, <1>4, <1>6 DEF StatesMove, BirthsMove
<1>8. RunningMoves
  BY <1>6 DEF RunningMoves
<1>9. UnderWay'
  <2>1. registered \subseteq act[a].lanes
    BY <1>2
  <2>2. \A b \in Actions, l \in Lanes : b # a /\ IsBirth(b) /\ l \in act[b].lanes => owner'[l] = owner[l]
    BY <1>1, <1>3, <1>4, <2>1 DEF BirthInvs, BirthsApart
  <2>3. \A l \in restored : row'[l].state # "absent"
    BY <1>6 DEF BirthInvs, UnderWay
  <2> QED
    BY <1>1, <1>3, <1>4, <2>2, <2>3 DEF BirthInvs, UnderWay, IsBirth
<1> QED
  BY <1>1, <1>7, <1>8, <1>9, BirthsKept

(* A step that changes neither rows nor actions, outcomes, owners and      *)
(* restored lanes keeps the account of births.                             *)
LEMMA AsideBirths ==
    ASSUME IInv, BirthInvs, UNCHANGED <<row, act, outcome, owner, inflight, restored>>,
           phase' = phase \/ phase' # "down"
    PROVE  BirthInvs'
BY DEF BirthInvs, BirthsApart, UnderWay, BirthsComplete, NoneBefore, IsBirth, Unclaimed

(* What worker processes do by themselves changes no birth.                *)
LEMMA WorkerBirths ==
    ASSUME IInv, BirthInvs, NEW l \in Lanes, WorkerStep(l) \/ WorkerFails(l)
    PROVE  BirthInvs'
<1>1. UNCHANGED <<row, act, outcome, owner, inflight, restored, phase>>
  BY DEF WorkerStep, WorkerReady, WorkerApplies, WorkerStops, WorkerFails, rows, dispatcher, manager
<1> QED
  BY <1>1, AsideBirths

(* A durable checkpoint sets no lane running.                              *)
LEMMA CheckpointBirths ==
    ASSUME IInv, BirthInvs, HandleCheckpoint
    PROVE  BirthInvs'
<1> DEFINE e == Head(events)
<1>1. /\ events # <<>> /\ e.kind = "checkpoint"
      /\ row' = [row EXCEPT ![e.lane] = CheckpointedRow(row[e.lane], e.ver)]
      /\ UNCHANGED <<act, outcome, owner, inflight, restored, phase>> /\ phase # "down"
  BY DEF HandleCheckpoint, Polling, dispatcher, manager, NoFault
<1>2. e.lane \in Lanes
  BY <1>1, HeadEvent
<1>3. \A l \in Lanes : row'[l].state = row[l].state
  <2>1. row \in [Lanes -> RowTypes]
    BY DEF IInv, Tables
  <2>2. CheckpointedRow(row[e.lane], e.ver).state = row[e.lane].state
    BY <1>2, <2>1 DEF CheckpointedRow, RowTypes
  <2> QED
    BY <1>1, <1>2, <2>1, <2>2
<1>4. StatesMove /\ BirthsMove /\ RunningMoves
  BY <1>1, <1>3 DEF StatesMove, BirthsMove, RunningMoves
<1>5. UnderWay'
  BY <1>1, <1>4, UnderWayKept
<1> QED
  BY <1>1, <1>4, <1>5, BirthsKept

(* An ordinary fault of the coordinator pauses running lanes and settles   *)
(* no birth.                                                               *)
LEMMA FaultBirths ==
    ASSUME IInv, BirthInvs, Fault, phase # "down", UNCHANGED <<act, owner, inflight, restored>>
    PROVE  BirthInvs'
<1>1. \A l \in Lanes : row'[l].state = row[l].state \/ (row[l].state = "running" /\ row'[l].state = "paused")
  <2>1. row \in [Lanes -> RowTypes]
    BY DEF IInv, Tables
  <2> QED
    BY <2>1 DEF Fault, RowTypes
<1>2. outcome' = outcome /\ phase' # "down"
  BY DEF Fault, BeginDrain
<1>3. StatesMove /\ BirthsMove /\ RunningMoves
  BY <1>1, <1>2 DEF StatesMove, BirthsMove, RunningMoves
<1>4. UnderWay'
  BY <1>2, <1>3, UnderWayKept
<1> QED
  BY <1>3, <1>4, BirthsKept

(* The ready event of the last child is the one that sets a birth's        *)
(* children running and applies it (_handle_ready, complete_lane_births).  *)
LEMMA ReadyBirths ==
    ASSUME IInv, BirthInvs, HandleReady
    PROVE  BirthInvs'
<1> DEFINE e == Head(events)
           a == owner[e.lane]
           C == {l \in Lanes : owner[l] = a}
<1>1. /\ events # <<>> /\ e.kind = "ready" /\ phase # "down"
      /\ UNCHANGED <<act, restored>>
  BY DEF HandleReady, Polling
<1>2. e.lane \in Lanes
  BY <1>1, HeadEvent
<1>3. a \in Actions \cup {NoAction}
  BY <1>2 DEF IInv, Tables
<1>4. CASE a = NoAction \/ Awaited(a, e.lane) # {}
  <2>1. UNCHANGED <<row, outcome, owner, inflight, phase>>
    BY <1>4 DEF HandleReady, NoFault
  <2> QED
    BY <1>1, <2>1, AsideBirths
<1>5. CASE /\ a # NoAction /\ Awaited(a, e.lane) = {}
           /\ outcome[a] = "pending" /\ \E l \in C : row[l].state # "starting"
  <2>1. Fault /\ UNCHANGED <<owner, inflight>>
    BY <1>5 DEF HandleReady
  <2> QED
    BY <1>1, <2>1, FaultBirths
<1>6. CASE /\ a # NoAction /\ Awaited(a, e.lane) = {}
           /\ ~(outcome[a] = "pending" /\ \E l \in C : row[l].state # "starting")
  <2>1. /\ IF outcome[a] = "pending"
           THEN /\ row' = [l \in Lanes |-> IF l \in C THEN [row[l] EXCEPT !.state = "running"] ELSE row[l]]
                /\ outcome' = [outcome EXCEPT ![a] = "applied"]
           ELSE UNCHANGED <<row, outcome>>
        /\ inflight' = inflight \ {a}
        /\ owner' = [l \in Lanes |-> IF l \in C THEN NoAction ELSE owner[l]]
        /\ phase' = phase
    BY <1>6 DEF HandleReady, NoFault
  <2>2. a \in Actions /\ IsBirth(a) /\ \A l \in C : l \in act[a].lanes
    BY <1>2, <1>3, <1>6 DEF IInv, OwnersSound, IsBirth
  <2>3. /\ \A b \in Actions : act[b].lanes \subseteq Lanes
        /\ \A b \in Actions : b # a => outcome'[b] = outcome[b]
        /\ outcome'[a] # "pending" /\ (outcome'[a] = "none" => outcome[a] = "none")
        /\ outcome'[a] = outcome[a] \/ outcome[a] = "pending"
    BY <2>1, <2>2 DEF IInv, Tables, ActTypes
  <2>4. /\ \A l \in Lanes \ C : row'[l] = row[l]
        /\ \A l \in C : IF outcome[a] = "pending" THEN row'[l].state = "running" ELSE row'[l] = row[l]
    BY <2>1 DEF IInv, Tables, RowTypes
  <2>5. outcome[a] = "pending" => \A l \in act[a].lanes : l \in C
    <3>1. outcome[a] = "pending" => a \in inflight
      BY <1>2, <1>6 DEF IInv, OwnersSound
    <3> QED
      BY <2>2, <2>3, <3>1 DEF BirthInvs, UnderWay
  <2>6. outcome[a] = "pending" => \A l \in C : row[l].state = "starting"
    BY <1>6
  <2>7. StatesMove
    BY <2>4, <2>6 DEF StatesMove
  <2>8. BirthsMove
    <3>1. outcome'[a] = "applied" /\ outcome[a] = "pending" =>
            \A l \in act[a].lanes : row'[l].state \notin {"absent", "starting"}
      BY <2>4, <2>5
    <3> QED
      BY <2>3, <3>1 DEF BirthsMove
  <2>9. RunningMoves
    <3>1. \A l \in C, b \in Actions : IsBirth(b) /\ l \in act[b].lanes => b = a
      BY <2>2 DEF BirthInvs, BirthsApart
    <3> QED
      BY <2>3, <2>4, <3>1 DEF RunningMoves
  <2>10. UnderWay'
    <3>1. \A b \in Actions, l \in Lanes : b # a /\ owner[l] = b => owner'[l] = b
      BY <2>1
    <3>2. \A l \in restored : row'[l].state # "absent"
      BY <2>4 DEF BirthInvs, UnderWay
    <3> QED
      BY <1>1, <2>1, <2>3, <3>1, <3>2 DEF BirthInvs, UnderWay, IsBirth
  <2> QED
    BY <1>1, <2>7, <2>8, <2>9, <2>10, BirthsKept
<1> QED
  BY <1>4, <1>5, <1>6

(* The outcome of a patch or a stop settles that action and revises its    *)
(* lane; without patches it sets no lane running.                          *)
LEMMA OutcomeBirths ==
    ASSUME IInv, BirthInvs, HandleOutcome
    PROVE  BirthInvs'
<1> DEFINE e == Head(events)
           a == e.action
           l == e.lane
           n == RevisedRow(row[l], act[a].kind, e.ver)
<1>1. /\ events # <<>> /\ e.kind = "outcome" /\ act[a].kind # "reallocate" /\ phase # "down"
      /\ UNCHANGED <<act, owner, restored, phase>> /\ inflight' = inflight \ {a}
      /\ ApplyLaneOutcome(a, l, e.status, e.ver)
  BY DEF HandleOutcome, Polling, NoFault
<1>2. l \in Lanes /\ e.ver \in Nat /\ e.status \in Answers /\ Targets(a, l) /\ row[l].state # "absent"
  BY <1>1, HeadEvent
<1>3. a \in Actions /\ ~IsBirth(a) /\ ("patch" \notin Kinds => act[a].kind = "stop")
  <2>1. a \in Actions /\ act[a].kind \in {"patch", "stop"} /\ act[a].kind \in Kinds \cup {"none"}
    BY <1>1, <1>2 DEF Targets, ChangeKinds, IInv, Tables, ActTypes
  <2> QED
    BY <2>1 DEF IsBirth, BirthKinds
<1>4. \/ row' = row \/ row' = [row EXCEPT ![l] = n]
  BY <1>1 DEF ApplyLaneOutcome
<1>5. /\ \A b \in Actions : b # a => outcome'[b] = outcome[b]
      /\ outcome[a] # "none" => outcome'[a] # "none"
  BY <1>1, <1>2, <1>3 DEF ApplyLaneOutcome, IInv, Tables, Answers
<1>6. n.state \in {"stopped", "running"} /\ ("patch" \notin Kinds => n.state = "stopped")
  <2>1. row[l] \in RowTypes
    BY <1>2 DEF IInv, Tables
  <2> QED
    BY <1>3, <2>1 DEF RevisedRow, RowTypes
<1> HIDE DEF n
<1>7. \A m \in Lanes : row'[m] = row[m] \/ (m = l /\ row'[m] = n)
  BY <1>2, <1>4 DEF IInv, Tables
<1>8. StatesMove /\ BirthsMove /\ RunningMoves
  BY <1>2, <1>3, <1>5, <1>6, <1>7 DEF StatesMove, BirthsMove, RunningMoves
<1>9. UnderWay'
  BY <1>1, <1>8, UnderWayKept
<1> QED
  BY <1>1, <1>8, <1>9, BirthsKept

(* A reallocation that is answered by all of its lanes settles no birth.   *)
LEMMA AllocationBirths ==
    ASSUME IInv, BirthInvs, HandleAllocation
    PROVE  BirthInvs'
<1> DEFINE e == Head(events)
           a == e.action
           S == act[a].lanes
           got == [alloc[a] EXCEPT ![e.lane] = e.status]
           onTime == \A l \in S : row[l].ver = act[a].expected[l]
<1>1. /\ events # <<>> /\ e.kind = "outcome" /\ act[a].kind = "reallocate" /\ phase # "down"
      /\ UNCHANGED <<act, owner, restored>>
  BY DEF HandleAllocation, Polling
<1>2. a \in Actions /\ ~IsBirth(a) /\ S \subseteq Lanes
  BY <1>1, HeadEvent DEF Targets, IInv, Tables, ActTypes, IsBirth, BirthKinds
<1>3. CASE AllAnswered(S, got) /\ outcome[a] = "pending" /\ ~Refused(S, got) /\ ~onTime
  <2>1. Fault /\ inflight' = inflight
    BY <1>3 DEF HandleAllocation
  <2> QED
    BY <1>1, <2>1, FaultBirths
<1>4. CASE ~(AllAnswered(S, got) /\ outcome[a] = "pending" /\ ~Refused(S, got) /\ ~onTime)
  <2>1. /\ phase' = phase /\ inflight' \subseteq inflight
        /\ \/ outcome' = outcome \/ outcome' = [outcome EXCEPT ![a] = "failed"]
           \/ outcome' = [outcome EXCEPT ![a] = "applied"]
        /\ row' = row \/ row' = [l \in Lanes |-> IF l \in S THEN AllocatedRow(row[l]) ELSE row[l]]
    <3>1. CASE ~AllAnswered(S, got)
      BY <3>1 DEF HandleAllocation, NoFault
    <3>2. CASE AllAnswered(S, got)
      BY <1>4, <3>2 DEF HandleAllocation, NoFault
    <3> QED
      BY <3>1, <3>2
  <2>2. \A l \in Lanes : row'[l].state = row[l].state
    <3>1. \A l \in Lanes : AllocatedRow(row[l]).state = row[l].state
      BY DEF AllocatedRow, IInv, Tables, RowTypes
    <3> QED
      BY <2>1, <3>1
  <2>3. /\ \A b \in Actions : b # a => outcome'[b] = outcome[b]
        /\ outcome[a] # "none" => outcome'[a] # "none"
    BY <1>2, <2>1 DEF IInv, Tables
  <2>4. StatesMove /\ BirthsMove /\ RunningMoves
    BY <1>2, <2>2, <2>3 DEF StatesMove, BirthsMove, RunningMoves
  <2>5. UnderWay'
    BY <1>1, <2>1, <2>4, UnderWayKept
  <2> QED
    BY <1>1, <2>4, <2>5, BirthsKept
<1> QED
  BY <1>3, <1>4

(* The exit of a worker stops or fails rows, its siblings' rows of a       *)
(* failed birth included (_handle_exit).                                   *)
LEMMA ExitStates ==
    ASSUME IInv, NEW e, e.lane \in Lanes, NEW a, row' = ExitedRow(e) \/ row' = BirthFailed(ExitedRow(e), a)
    PROVE  \A l \in Lanes : \/ row'[l].state = row[l].state
                            \/ row[l].state # "absent" /\ row'[l].state \in {"stopped", "failed"}
<1> DEFINE t == ExitedRow(e)
<1>1. row \in [Lanes -> RowTypes]
  BY DEF IInv, Tables
<1>2. /\ t \in [Lanes -> RowTypes]
      /\ \A l \in Lanes : \/ t[l].state = row[l].state
                          \/ row[l].state # "absent" /\ t[l].state \in {"stopped", "failed"}
  BY <1>1 DEF ExitedRow, RowTypes, RowStates, ActiveStates
<1> HIDE DEF t
<1>3. ASSUME NEW l \in Lanes, row' = BirthFailed(t, a)
      PROVE  row'[l] = t[l] \/ (t[l].state = "starting" /\ row'[l].state = "failed")
  BY <1>2, <1>3 DEF BirthFailed, RowTypes
<1> QED
  BY <1>2, <1>3 DEF t

(* The exit of a child before its birth is complete fails the birth, and   *)
(* never applies it.                                                       *)
LEMMA ExitBirths ==
    ASSUME IInv, BirthInvs, HandleExit
    PROVE  BirthInvs'
<1> DEFINE e == Head(events)
           a == owner[e.lane]
           siblings == {l \in Lanes \ {e.lane} : owner[l] = a}
<1>1. /\ events # <<>> /\ e.kind = "exit" /\ phase # "down"
      /\ UNCHANGED <<act, restored, phase>>
  BY DEF HandleExit, Polling, NoFault
<1>2. e.lane \in Lanes
  BY <1>1, HeadEvent
<1>3. a \in Actions \cup {NoAction} /\ \A b \in Actions : act[b].lanes \subseteq Lanes
  BY <1>2 DEF IInv, Tables, ActTypes
<1>4. row' = ExitedRow(e) \/ row' = BirthFailed(ExitedRow(e), a)
  BY DEF HandleExit
<1>5. \A l \in Lanes : \/ row'[l].state = row[l].state
                       \/ row[l].state # "absent" /\ row'[l].state \in {"stopped", "failed"}
  BY <1>2, <1>4, ExitStates
<1>6. StatesMove /\ RunningMoves
  BY <1>5 DEF StatesMove, RunningMoves
<1>7. CASE a # NoAction /\ a \in inflight
  <2>1. /\ outcome' = [outcome EXCEPT ![a] = IF @ = "pending" THEN "failed" ELSE @]
        /\ owner' = [l \in Lanes |-> IF l \in siblings \cup {e.lane} THEN NoAction ELSE owner[l]]
        /\ inflight' = inflight \ {a}
    BY <1>7 DEF HandleExit
  <2>2. /\ \A b \in Actions : b # a => outcome'[b] = outcome[b]
        /\ outcome'[a] = outcome[a] \/ outcome'[a] = "failed"
    BY <1>3, <1>7, <2>1 DEF IInv, Tables
  <2>3. BirthsMove
    BY <2>2 DEF BirthsMove
  <2>4. UnderWay'
    <3>1. \A b \in Actions, l \in Lanes : b # a /\ owner[l] = b => owner'[l] = b
      BY <2>1
    <3>2. \A l \in restored : row'[l].state # "absent"
      BY <1>5 DEF BirthInvs, UnderWay
    <3> QED
      BY <1>1, <1>3, <2>1, <2>2, <3>1, <3>2 DEF BirthInvs, UnderWay, IsBirth
  <2> QED
    BY <1>1, <1>6, <2>3, <2>4, BirthsKept
<1>8. CASE ~(a # NoAction /\ a \in inflight)
  <2>1. owner' = [owner EXCEPT ![e.lane] = NoAction] /\ UNCHANGED <<outcome, inflight>>
    BY <1>8 DEF HandleExit
  <2>2. BirthsMove
    BY <2>1 DEF BirthsMove
  <2>3. UnderWay'
    <3>1. \A b \in inflight, l \in Lanes : owner[l] = b => owner'[l] = b
      <4>1. \A b \in inflight : b # NoAction
        BY DispatchAssumption DEF BirthInvs, UnderWay
      <4> QED
        BY <1>2, <1>8, <2>1, <4>1 DEF IInv, Tables
    <3>2. \A l \in restored : row'[l].state # "absent"
      BY <1>5 DEF BirthInvs, UnderWay
    <3> QED
      BY <1>1, <1>3, <2>1, <3>1, <3>2 DEF BirthInvs, UnderWay, IsBirth
  <2> QED
    BY <1>1, <1>6, <2>2, <2>3, BirthsKept
<1> QED
  BY <1>7, <1>8

(* The end of an attempt forgets owners and commands in flight together.   *)
LEMMA DownBirths ==
    ASSUME IInv, BirthInvs, GoDown, UNCHANGED <<act, outcome>>, StatesMove, RunningMoves
    PROVE  BirthInvs'
<1>1. BirthsMove
  BY DEF BirthsMove
<1>2. UnderWay'
  BY DEF GoDown, UnderWay
<1> QED
  BY <1>1, <1>2, BirthsKept

(* Orderly ends and crashes, in the middle of a birth too, apply no birth. *)
LEMMA EndBirths ==
    ASSUME IInv, BirthInvs, \/ ShutdownEnd \/ Crash
                            \/ \E a \in Actions, made \in SUBSET Lanes : CrashInBirth(a, made)
    PROVE  BirthInvs'
<1>1. CASE Crash
  BY <1>1, DownBirths DEF Crash, rows, StatesMove, RunningMoves
<1>2. CASE ShutdownEnd
  <2>1. \A l \in Lanes : row'[l] = row[l] \/ (row'[l].state = "paused" /\ row[l].state # "absent")
    BY <1>2 DEF ShutdownEnd, Preserved, IInv, Tables, RowTypes, RowsSound, RowSound
  <2>2. StatesMove /\ RunningMoves
    BY <2>1 DEF StatesMove, RunningMoves
  <2> QED
    BY <1>2, <2>2, DownBirths DEF ShutdownEnd
<1>3. ASSUME NEW a \in Actions, NEW made \in SUBSET Lanes, CrashInBirth(a, made) PROVE BirthInvs'
  <2>1. \A l \in made : row[l].state = "absent" /\ ~Unclaimed(l)
    BY <1>3 DEF CrashInBirth, BirthPossible, Unclaimed, BirthKinds
  <2>2. \A l \in Lanes : row'[l] = row[l] \/ (l \in made /\ row'[l].state = "starting")
    BY <1>3, RowCreated DEF CrashInBirth
  <2>3. StatesMove /\ RunningMoves
    BY <2>1, <2>2 DEF StatesMove, RunningMoves
  <2> QED
    BY <1>3, <2>3, DownBirths DEF CrashInBirth
<1> QED
  BY <1>1, <1>2, <1>3

(* Recovery restores lanes whose birth an earlier attempt has recorded, or *)
(* whose children it finds active.                                         *)
LEMMA RecoverBirths ==
    ASSUME IInv, BirthInvs, NEW R \in SUBSET Lanes, Recover(R)
    PROVE  BirthInvs'
<1>1. /\ \A l \in R : row[l].state \in ActiveStates
      /\ UNCHANGED <<act, outcome, owner, inflight>> /\ restored' = R /\ phase' # "down" /\ phase = "down"
  BY DEF Recover, Restorable, dispatcher
<1>2. \A l \in Lanes : \/ row'[l] = row[l]
                       \/ row[l].state \in ActiveStates /\ row'[l].state \in {"paused", "failed"}
  BY DEF Recover, IInv, Tables, RowTypes
<1>3. StatesMove /\ BirthsMove /\ RunningMoves
  BY <1>1, <1>2 DEF StatesMove, BirthsMove, RunningMoves, ActiveStates
<1>4. UnderWay'
  BY <1>1, <1>2 DEF BirthInvs, UnderWay, ActiveStates
<1> QED
  BY <1>1, <1>3, <1>4, BirthsKept

(* Recovered lanes are set running after the actions left pending by a     *)
(* crash are settled.                                                      *)
LEMMA ActivateBirths ==
    ASSUME IInv, BirthInvs, ActivateRecovered
    PROVE  BirthInvs'
<1>1. /\ UNCHANGED <<act, outcome, owner, inflight, restored>> /\ phase' # "down"
      /\ \A a \in Actions : outcome[a] = "pending" => a \in inflight
  BY DEF ActivateRecovered, dispatcher, manager, Deliverable
<1>2. \A l \in Lanes : \/ row'[l] = row[l]
                       \/ l \in restored /\ row[l].state = "paused" /\ row'[l].state = "running"
  BY DEF ActivateRecovered, IInv, Tables, RowTypes
<1>3. \A a \in Actions : IsBirth(a) /\ outcome[a] = "pending" => \A l \in act[a].lanes : l \notin restored
  BY <1>1 DEF BirthInvs, UnderWay
<1>4. StatesMove /\ BirthsMove /\ RunningMoves
  BY <1>1, <1>2, <1>3 DEF StatesMove, BirthsMove, RunningMoves
<1>5. UnderWay'
  BY <1>1, <1>4, UnderWayKept
<1> QED
  BY <1>1, <1>4, <1>5, BirthsKept

(* Every step of the dispatcher keeps the account of births.               *)
LEMMA NextBirths ==
    ASSUME IInv, BirthInvs, [Next]_vars
    PROVE  BirthInvs'
<1>1. CASE Commit
  BY <1>1, CommitsBirths
<1>2. CASE \E a \in Actions : DispatchExpired(a)
  BY <1>2, DeliveredBirths
<1>3. CASE Dispatch
  BY <1>3, DeliveredBirths, BirthBirths, BirthFailsBirths DEF Dispatch
<1>4. CASE \E l \in Lanes : WorkerStep(l) \/ WorkerFails(l)
  BY <1>4, WorkerBirths
<1>5. CASE Poll
  BY <1>5, CheckpointBirths, ReadyBirths, OutcomeBirths, AllocationBirths, ExitBirths DEF Poll
<1>6. CASE \/ ShutdownEnd \/ Crash
           \/ \E a \in Actions, made \in SUBSET Lanes : CrashInBirth(a, made)
  BY <1>6, EndBirths
<1>7. CASE \E R \in SUBSET Lanes : Recover(R)
  BY <1>7, RecoverBirths
<1>8. CASE ActivateRecovered
  BY <1>8, ActivateBirths
<1>9. CASE Shutdown \/ UNCHANGED vars
  <2>1. UNCHANGED <<row, act, outcome, owner, inflight, restored>> /\ (phase' = phase \/ phase' # "down")
    BY <1>9 DEF Shutdown, BeginDrain, vars, rows, dispatcher, manager
  <2> QED
    BY <2>1, AsideBirths
<1> QED
  BY <1>1, <1>2, <1>3, <1>4, <1>5, <1>6, <1>7, <1>8, <1>9 DEF Next

(* No birth exists initially.                                              *)
LEMMA InitBirths ==
    ASSUME Init
    PROVE  BirthInvs
<1>1. \A a \in Actions : ~IsBirth(a)
  BY DEF Init, NoAct, IsBirth, BirthKinds
<1> QED
  BY <1>1 DEF Init, BirthInvs, BirthsApart, UnderWay, BirthsComplete, NoneBefore

(* The account of births holds for all kinds of action: two births never   *)
(* share a lane, a birth under way owns all of its children, and those of  *)
(* an applied birth have all left starting.                                *)
THEOREM BirthsHold == Spec => []BirthInvs
<1>1. Init => IInv /\ BirthInvs
  BY InitInv, InitBirths
<1>2. IInv /\ BirthInvs /\ [Next]_vars => IInv' /\ BirthInvs'
  BY NextInv, NextBirths
<1> QED
  BY <1>1, <1>2, PTL DEF Spec

(* A fork or start is one event, for any number of lanes, actions and      *)
(* attempts: its children start running together in the transaction that   *)
(* applies it, and not before (_handle_ready, complete_lane_births). The   *)
(* hypothesis leaves out patch_lane: a patch of a child that is still      *)
(* starting sets it running by itself (apply_lane_action_outcome), after   *)
(* which complete_lane_births finds the birth stale.                       *)
THEOREM BirthsAllOrNothing == ASSUME "patch" \notin Kinds PROVE Spec => []BirthsAtomic
<1>1. BirthInvs => BirthsAtomic
  BY DEF BirthInvs, BirthsComplete, NoneBefore, BirthsAtomic, IsBirth
<1> QED
  BY <1>1, BirthsHold, PTL

-----------------------------------------------------------------------------
(***************************************************************************)
(* Agreement of rows, manager and workers, without reallocations and with  *)
(* an event queue that never refuses an event.                             *)
(***************************************************************************)

(* What event e tells about lane l, whose worker's version was u before    *)
(* and is v after what e reports.                                          *)
Told(e, l, u, v) ==
    IF e.kind = "outcome" /\ e.lane = l
    THEN v = e.ver /\ u = IF e.status = "applied" THEN e.ver - 1 ELSE e.ver
    ELSE v = u /\ (e.lane = l /\ (e.kind = "ready" \/ e.status = "stopped") => e.ver = v)

(* The events of q lead lane l from version u to version v.                *)
Story(q, l, u, v) ==
    \E h \in [0 .. Len(q) -> Nat] :
        /\ h[0] = u /\ h[Len(q)] = v
        /\ \A i \in 1 .. Len(q) : Told(q[i], l, h[i - 1], h[i])

(* Events of other lanes leave the version of a lane where it is.          *)
LEMMA StoryOfOthers ==
    ASSUME NEW S, NEW q \in Seq(S), NEW l, NEW v \in Nat, \A i \in 1 .. Len(q) : q[i].lane # l
    PROVE  Story(q, l, v, v)
<1> DEFINE h == [i \in 0 .. Len(q) |-> v]
<1>1. Len(q) \in Nat
  BY LenProperties
<1>2. h \in [0 .. Len(q) -> Nat] /\ \A i \in 0 .. Len(q) : h[i] = v
  OBVIOUS
<1>3. 0 \in 0 .. Len(q) /\ Len(q) \in 0 .. Len(q) /\ \A i \in 1 .. Len(q) : i \in 0 .. Len(q) /\ i - 1 \in 0 .. Len(q)
  BY <1>1
<1> HIDE DEF h
<1>4. \A i \in 1 .. Len(q) : Told(q[i], l, h[i - 1], h[i])
  BY <1>2, <1>3 DEF Told
<1> QED
  BY <1>2, <1>3, <1>4 DEF Story

(* Reading the first event of a story leaves a story, from the version     *)
(* that the event tells.                                                   *)
LEMMA StoryRead ==
    ASSUME NEW S, NEW q \in Seq(S), q # <<>>, NEW l, NEW u, NEW v, Story(q, l, u, v)
    PROVE  \E w \in Nat : Told(Head(q), l, u, w) /\ Story(Tail(q), l, w, v)
<1>1. PICK h \in [0 .. Len(q) -> Nat] :
        /\ h[0] = u /\ h[Len(q)] = v
        /\ \A i \in 1 .. Len(q) : Told(q[i], l, h[i - 1], h[i])
  BY DEF Story
<1>2. /\ Len(q) \in Nat /\ Len(q) > 0 /\ Head(q) = q[1] /\ Len(Tail(q)) = Len(q) - 1
      /\ \A i \in 1 .. Len(q) - 1 : Tail(q)[i] = q[i + 1]
  BY HeadTailProperties, LenProperties, EmptySeq
<1> DEFINE n == Len(q)
           g == [i \in 0 .. n - 1 |-> h[i + 1]]
<1>3. g \in [0 .. n - 1 -> Nat] /\ \A i \in 0 .. n - 1 : g[i] = h[i + 1]
  BY <1>1, <1>2
<1>4. h[1] \in Nat /\ g[0] = h[1] /\ g[n - 1] = v
  BY <1>1, <1>2, <1>3
<1>5. ASSUME NEW i \in 1 .. n - 1
      PROVE  Told(Tail(q)[i], l, g[i - 1], g[i])
  <2>1. i + 1 \in 1 .. n /\ i - 1 \in 0 .. n - 1 /\ i \in 0 .. n - 1 /\ (i - 1) + 1 = i /\ (i + 1) - 1 = i
    BY <1>2
  <2>2. Told(q[i + 1], l, h[(i + 1) - 1], h[i + 1])
    BY <1>1, <2>1
  <2>3. g[i] = h[i + 1] /\ g[i - 1] = h[i]
    BY <1>3, <2>1
  <2> HIDE DEF g
  <2> QED
    BY <1>2, <2>1, <2>2, <2>3
<1>6. Told(q[1], l, u, h[1])
  <2>1. 1 \in 1 .. n /\ 1 - 1 = 0
    BY <1>2
  <2> QED
    BY <1>1, <2>1
<1> HIDE DEF g
<1>7. Story(Tail(q), l, h[1], v)
  BY <1>2, <1>3, <1>4, <1>5 DEF Story
<1> QED
  BY <1>2, <1>4, <1>6, <1>7

(* A set of natural numbers that is not empty has a least element.         *)
LEMMA LeastIndex ==
    ASSUME NEW S, S \subseteq Nat, S # {}
    PROVE  \E m \in S : \A y \in S : m <= y
<1>1. PICK m \in S : \A y \in S : ~(<<y, m>> \in OpToRel(<, Nat))
  BY NatLessThanWellFounded, WFMin
<1>2. \A y \in S : ~(y < m)
  BY <1>1 DEF OpToRel
<1> QED
  BY <1>2

(* A story without an event of its lane ends where it began: otherwise the *)
(* version would have moved first at some event, which would be one of the *)
(* lane.                                                                   *)
LEMMA SilentStory ==
    ASSUME NEW S, NEW q \in Seq(S), NEW l, NEW u, NEW v, Story(q, l, u, v), \A i \in 1 .. Len(q) : q[i].lane # l
    PROVE  v = u
<1>1. PICK h \in [0 .. Len(q) -> Nat] :
        /\ h[0] = u /\ h[Len(q)] = v
        /\ \A i \in 1 .. Len(q) : Told(q[i], l, h[i - 1], h[i])
  BY DEF Story
<1>2. Len(q) \in Nat
  BY LenProperties
<1> DEFINE n == Len(q)
           T == {m \in 0 .. n : h[m] # u}
<1>3. SUFFICES ASSUME T # {} PROVE FALSE
  BY <1>1, <1>2
<1>4. T \subseteq Nat
  BY <1>2
<1>5. PICK m \in T : \A y \in T : m <= y
  BY <1>3, <1>4, LeastIndex
<1>6. m \in 0 .. n /\ m # 0
  BY <1>1, <1>5
<1>7. m - 1 \in 0 .. n /\ m \in 1 .. n /\ ~(m <= m - 1)
  BY <1>2, <1>6
<1>8. h[m - 1] = u
  BY <1>5, <1>7
<1>9. h[m] = h[m - 1]
  BY <1>1, <1>7 DEF Told
<1> QED
  BY <1>5, <1>8, <1>9

(* Where an index of a joined sequence lies in the second part.            *)
LEMMA Offset ==
    ASSUME NEW n \in Nat, NEW m \in Nat, NEW i \in 0 .. n + m, ~(i <= n)
    PROVE  /\ i - n \in 1 .. m /\ i - n \in 0 .. m /\ (i - n) - 1 \in 0 .. m
           /\ n + (i - n) = i /\ n + ((i - n) - 1) = i - 1
OBVIOUS

(* Two stories of which the second begins where the first ends make one.   *)
LEMMA StoryJoined ==
    ASSUME NEW S, NEW q \in Seq(S), NEW s \in Seq(S), NEW l, NEW u, NEW v, NEW w,
           Story(q, l, u, v), Story(s, l, v, w)
    PROVE  Story(q \o s, l, u, w)
<1>1. PICK h \in [0 .. Len(q) -> Nat] :
        /\ h[0] = u /\ h[Len(q)] = v
        /\ \A i \in 1 .. Len(q) : Told(q[i], l, h[i - 1], h[i])
  BY DEF Story
<1>2. PICK g \in [0 .. Len(s) -> Nat] :
        /\ g[0] = v /\ g[Len(s)] = w
        /\ \A i \in 1 .. Len(s) : Told(s[i], l, g[i - 1], g[i])
  BY DEF Story
<1> DEFINE n == Len(q)
           m == Len(s)
           f == [i \in 0 .. n + m |-> IF i <= n THEN h[i] ELSE g[i - n]]
<1>3. /\ n \in Nat /\ m \in Nat /\ Len(q \o s) = n + m
      /\ \A i \in 1 .. n : (q \o s)[i] = q[i]
      /\ \A i \in 1 .. m : (q \o s)[n + i] = s[i]
  BY LenProperties, ConcatProperties
<1>4. /\ \A i \in 0 .. n : i \in 0 .. n + m /\ f[i] = h[i]
      /\ \A i \in 0 .. m : n + i \in 0 .. n + m /\ f[n + i] = g[i]
  <2>1. ASSUME NEW i \in 0 .. m
        PROVE  n + i \in 0 .. n + m /\ f[n + i] = g[i]
    <3>1. CASE i = 0
      BY <1>1, <1>2, <1>3, <3>1
    <3>2. CASE i # 0
      <4>1. n + i \in 0 .. n + m /\ ~(n + i <= n) /\ (n + i) - n = i
        BY <1>3, <3>2
      <4> QED
        BY <4>1
    <3> QED
      BY <3>1, <3>2
  <2> QED
    BY <1>3, <2>1
<1>5. f \in [0 .. n + m -> Nat]
  <2>1. ASSUME NEW i \in 0 .. n + m
        PROVE  (IF i <= n THEN h[i] ELSE g[i - n]) \in Nat
    <3>1. CASE i <= n
      <4>1. i \in 0 .. n
        BY <1>3, <3>1
      <4> QED
        BY <1>1, <3>1, <4>1
    <3>2. CASE ~(i <= n)
      <4>1. i - n \in 0 .. m
        BY <1>3, <3>2, Offset
      <4> QED
        BY <1>2, <3>2, <4>1
    <3> QED
      BY <3>1, <3>2
  <2> QED
    BY <2>1
<1>6. f[0] = u /\ f[n + m] = w
  BY <1>1, <1>2, <1>3, <1>4
<1> HIDE DEF f
<1>7. ASSUME NEW i \in 1 .. n + m
      PROVE  Told((q \o s)[i], l, f[i - 1], f[i])
  <2>1. CASE i <= n
    <3>1. i \in 1 .. n /\ i \in 0 .. n /\ i - 1 \in 0 .. n
      BY <1>3, <2>1
    <3> QED
      BY <1>1, <1>3, <1>4, <3>1
  <2>2. CASE ~(i <= n)
    <3> DEFINE k == i - n
    <3>1. k \in 1 .. m /\ k \in 0 .. m /\ k - 1 \in 0 .. m /\ n + k = i /\ n + (k - 1) = i - 1
      <4>1. i \in 0 .. n + m
        BY <1>3
      <4> QED
        BY <1>3, <2>2, <4>1, Offset
    <3> HIDE DEF k
    <3>2. (q \o s)[i] = s[k] /\ f[i - 1] = g[k - 1] /\ f[i] = g[k]
      BY <1>3, <1>4, <3>1
    <3> QED
      BY <1>2, <3>1, <3>2
  <2> QED
    BY <2>1, <2>2
<1> QED
  BY <1>3, <1>5, <1>6, <1>7 DEF Story

(* What one event tells is a story.                                        *)
LEMMA StoryOfOne ==
    ASSUME NEW e, NEW l, NEW u \in Nat, NEW v \in Nat, Told(e, l, u, v)
    PROVE  Story(<<e>>, l, u, v)
<1> DEFINE h == [i \in 0 .. 1 |-> IF i = 0 THEN u ELSE v]
<1>1. h \in [0 .. 1 -> Nat] /\ h[0] = u /\ h[1] = v
  OBVIOUS
<1> HIDE DEF h
<1>2. Len(<<e>>) = 1 /\ <<e>>[1] = e
  OBVIOUS
<1>3. \A i \in 1 .. 1 : i = 1 /\ i - 1 = 0
  OBVIOUS
<1>4. \A i \in 1 .. 1 : Told(<<e>>[i], l, h[i - 1], h[i])
  BY <1>1, <1>2, <1>3
<1> QED
  BY <1>1, <1>2, <1>4 DEF Story

(* What two events tell, one after the other, is a story.                  *)
LEMMA StoryOfTwo ==
    ASSUME NEW e, NEW f, NEW l, NEW u \in Nat, NEW v \in Nat, NEW w \in Nat,
           Told(e, l, u, v), Told(f, l, v, w)
    PROVE  Story(<<e, f>>, l, u, w)
<1> DEFINE h == [i \in 0 .. 2 |-> IF i = 0 THEN u ELSE IF i = 1 THEN v ELSE w]
<1>1. h \in [0 .. 2 -> Nat] /\ h[0] = u /\ h[1] = v /\ h[2] = w
  OBVIOUS
<1> HIDE DEF h
<1>2. Len(<<e, f>>) = 2 /\ <<e, f>>[1] = e /\ <<e, f>>[2] = f
  OBVIOUS
<1>3. \A i \in 1 .. 2 : (i = 1 /\ i - 1 = 0) \/ (i = 2 /\ i - 1 = 1)
  OBVIOUS
<1>4. \A i \in 1 .. 2 : Told(<<e, f>>[i], l, h[i - 1], h[i])
  BY <1>1, <1>2, <1>3
<1> QED
  BY <1>1, <1>2, <1>4 DEF Story

-----------------------------------------------------------------------------
(* No reallocations, and no event that times out on a full queue.          *)
Plain == "reallocate" \notin Kinds /\ ~EmitTimeouts

(* The process of lane l has not ended.                                    *)
Working(l) == proc[l].state \in {"booting", "live"}
(* Event i reports the end of lane l's process.                            *)
ExitAt(i, l) == events[i].kind = "exit" /\ events[i].lane = l
(* Action a is under way, before and after a step.                         *)
Under(a) == a \in inflight /\ outcome[a] = "pending"
StaysUnder(a) == a \in inflight' /\ outcome'[a] = "pending"

(* The queued events lead from the version of the row to the worker's.     *)
Stories == \A l \in Lanes : proc[l].state # "none" => Story(events, l, row[l].ver, proc[l].ver)

(* The manager knows the version of the row.                               *)
ManagerKnows ==
    /\ mver \in [Lanes -> Nat]
    /\ \A l \in Lanes : proc[l].state # "none" \/ row[l].state = "absent" => mver[l] = row[l].ver

(* Nothing is queued between attempts.                                     *)
NothingQueued == phase = "down" => events = <<>> /\ \A l \in Lanes : proc[l].state = "none" /\ cmds[l] = <<>>

(* A report answers an action under way, and no other report answers it.   *)
ReportsOnce ==
    \A i \in 1 .. Len(events) : events[i].kind = "outcome" =>
        /\ Under(events[i].action)
        /\ events[i].status = "applied" => act[events[i].action].expected[events[i].lane] = events[i].ver - 1
        /\ \A j \in 1 .. Len(events) :
             events[j].kind = "outcome" /\ events[j].action = events[i].action => i = j

(* So does a command that waits for its answer.                            *)
Apart(s, q) ==
    \A k \in 1 .. Len(s) :
        /\ \A m \in 1 .. Len(s) : s[m].action = s[k].action => m = k
        /\ \A i \in 1 .. Len(q) : q[i].kind = "outcome" => q[i].action # s[k].action
CommandsOnce ==
    \A l \in Lanes :
        /\ Apart(cmds[l], events)
        /\ \A k \in 1 .. Len(cmds[l]) :
             Under(cmds[l][k].action) /\ cmds[l][k].expected = act[cmds[l][k].action].expected[l]

(* After what it reported a worker works on or is seen to end.             *)
EndsSeen ==
    \A i \in 1 .. Len(events) :
        /\ proc[events[i].lane].state # "none"
        /\ Working(events[i].lane) \/ \E j \in i .. Len(events) : ExitAt(j, events[i].lane)
        /\ events[i].kind = "exit" => events[i].status \in {"stopped", "failure"}

(* A lane that is to run has a worker, or its end is on the way.           *)
LanesAlive ==
    phase # "down" => \A l \in Lanes : row[l].state \in ActiveStates =>
        Working(l) \/ \E j \in 1 .. Len(events) : ExitAt(j, l)

(* How rows, manager, queues and workers agree.                            *)
AgreeInv ==
    Stories /\ ManagerKnows /\ NothingQueued /\ ReportsOnce /\ CommandsOnce /\ EndsSeen /\ LanesAlive

(* The indices of a sequence and of its tail.                              *)
LEMMA TailIndex ==
    ASSUME NEW S, NEW q \in Seq(S), q # <<>>
    PROVE  /\ Len(q) \in Nat /\ Len(q) > 0 /\ Head(q) = q[1] /\ 1 \in 1 .. Len(q) /\ Len(Tail(q)) = Len(q) - 1
           /\ \A i \in 1 .. Len(Tail(q)) : Tail(q)[i] = q[i + 1] /\ i + 1 \in 1 .. Len(q) /\ i + 1 # 1
           /\ \A j \in 1 .. Len(q) : j # 1 => j - 1 \in 1 .. Len(Tail(q)) /\ Tail(q)[j - 1] = q[j]
<1>1. /\ Len(q) \in Nat /\ Len(q) > 0 /\ Head(q) = q[1] /\ Len(Tail(q)) = Len(q) - 1
      /\ \A i \in 1 .. Len(q) - 1 : Tail(q)[i] = q[i + 1]
  BY HeadTailProperties, LenProperties, EmptySeq
<1>2. \A j \in 1 .. Len(q) : j # 1 => j - 1 \in 1 .. Len(q) - 1 /\ (j - 1) + 1 = j
  BY <1>1
<1> QED
  BY <1>1, <1>2

(* Reading an event of the queue keeps the agreement if the row follows    *)
(* what the event tells, the manager follows the row, only the action the  *)
(* event answers is settled, and a lane is activated only by its own       *)
(* report.                                                                 *)
LEMMA ReadAgree ==
    ASSUME IInv, AgreeInv, events # <<>>, events' = Tail(events), UNCHANGED <<proc, cmds, act>>,
           phase' # "down", phase # "down",
           \A a \in Actions : act[a].kind \in ChangeKinds /\ Under(a) =>
               StaysUnder(a) \/ (Head(events).kind = "outcome" /\ Head(events).action = a),
           \A l \in Lanes, v \in Nat : Told(Head(events), l, row[l].ver, v) => row'[l].ver = v,
           ManagerKnows',
           \A l \in Lanes : row'[l].state \in ActiveStates =>
               \/ row[l].state \in ActiveStates /\ ~(Head(events).kind = "exit" /\ Head(events).lane = l)
               \/ Head(events).kind = "outcome" /\ Head(events).lane = l
    PROVE  AgreeInv'
<1> DEFINE q == events
           t == Tail(events)
           e == Head(events)
<1>1. events \in Seq(GoodEvents) /\ events' = t
  BY DEF IInv, Messages
<1>2. /\ Len(q) \in Nat /\ Len(q) > 0 /\ e = q[1] /\ 1 \in 1 .. Len(q) /\ Len(t) = Len(q) - 1
      /\ \A i \in 1 .. Len(t) : t[i] = q[i + 1] /\ i + 1 \in 1 .. Len(q) /\ i + 1 # 1
      /\ \A j \in 1 .. Len(q) : j # 1 => j - 1 \in 1 .. Len(t) /\ t[j - 1] = q[j]
  <2> HIDE DEF GoodEvents
  <2> QED
    BY <1>1, TailIndex
<1>3. Stories'
  <2>1. ASSUME NEW l \in Lanes, proc[l].state # "none"
        PROVE  Story(t, l, row'[l].ver, proc[l].ver)
    <3>1. Story(q, l, row[l].ver, proc[l].ver)
      BY <2>1 DEF AgreeInv, Stories
    <3>2. PICK w \in Nat : Told(e, l, row[l].ver, w) /\ Story(t, l, w, proc[l].ver)
      <4> HIDE DEF GoodEvents
      <4> QED
        BY <1>1, <3>1, StoryRead
    <3> QED
      BY <3>2
  <2> QED
    BY <1>1, <2>1 DEF Stories
<1>4. \A i \in 1 .. Len(q) : q[i] \in GoodEvents
  <2> HIDE DEF GoodEvents
  <2> QED
    BY <1>1
<1>5. \A i \in 1 .. Len(q) : q[i].kind = "outcome" => q[i].action \in Actions /\ act[q[i].action].kind \in ChangeKinds
  BY <1>4 DEF GoodEvents, Targets
<1> HIDE DEF t, e
<1>6. ReportsOnce'
  <2>1. ASSUME NEW i \in 1 .. Len(t), t[i].kind = "outcome"
        PROVE  /\ StaysUnder(t[i].action)
               /\ t[i].status = "applied" => act[t[i].action].expected[t[i].lane] = t[i].ver - 1
               /\ \A j \in 1 .. Len(t) : t[j].kind = "outcome" /\ t[j].action = t[i].action => i = j
    <3>1. /\ i + 1 \in 1 .. Len(q) /\ t[i] = q[i + 1] /\ i + 1 # 1
          /\ \A j \in 1 .. Len(t) : j + 1 \in 1 .. Len(q) /\ t[j] = q[j + 1]
      BY <1>2
    <3>2. /\ Under(q[i + 1].action)
          /\ q[i + 1].status = "applied" => act[q[i + 1].action].expected[q[i + 1].lane] = q[i + 1].ver - 1
          /\ \A j \in 1 .. Len(q) : q[j].kind = "outcome" /\ q[j].action = q[i + 1].action => i + 1 = j
      BY <2>1, <3>1 DEF AgreeInv, ReportsOnce
    <3>3. StaysUnder(q[i + 1].action)
      BY <1>2, <1>5, <2>1, <3>1, <3>2 DEF e
    <3>4. ASSUME NEW j \in 1 .. Len(t), t[j].kind = "outcome", t[j].action = t[i].action
          PROVE  i = j
      <4>1. i + 1 = j + 1
        BY <3>1, <3>2, <3>4
      <4> QED
        BY <4>1
    <3> QED
      BY <3>1, <3>2, <3>3, <3>4
  <2> QED
    BY <1>1, <2>1 DEF ReportsOnce, StaysUnder, Under
<1>7. CommandsOnce'
  <2>1. ASSUME NEW l \in Lanes
        PROVE  Apart(cmds[l], t)
    BY <1>2 DEF AgreeInv, CommandsOnce, Apart
  <2>2. ASSUME NEW l \in Lanes, NEW k \in 1 .. Len(cmds[l])
        PROVE  StaysUnder(cmds[l][k].action) /\ cmds[l][k].expected = act[cmds[l][k].action].expected[l]
    <3>1. cmds[l][k] \in CommandsFor(l)
      <4>1. cmds[l] \in Seq(CommandsFor(l))
        BY DEF IInv, Messages
      <4> HIDE DEF CommandsFor
      <4> QED
        BY <4>1
    <3>2. cmds[l][k].action \in Actions /\ act[cmds[l][k].action].kind \in ChangeKinds
      BY <3>1 DEF CommandsFor, Targets
    <3> QED
      BY <1>2, <3>2 DEF AgreeInv, CommandsOnce, Apart, e
  <2>3. events' = t /\ cmds' = cmds /\ act' = act
    BY <1>1
  <2>4. ASSUME NEW l \in Lanes
        PROVE  Apart(cmds'[l], events')
    BY <2>1, <2>3
  <2>5. ASSUME NEW l \in Lanes, NEW k \in 1 .. Len(cmds'[l])
        PROVE  StaysUnder(cmds'[l][k].action) /\ cmds'[l][k].expected = act'[cmds'[l][k].action].expected[l]
    BY <2>2, <2>3
  <2> QED
    BY <2>4, <2>5 DEF CommandsOnce, StaysUnder, Under
<1>8. EndsSeen'
  <2>1. ASSUME NEW i \in 1 .. Len(t)
        PROVE  /\ proc[t[i].lane].state # "none"
               /\ Working(t[i].lane) \/ \E j \in i .. Len(t) : t[j].kind = "exit" /\ t[j].lane = t[i].lane
               /\ t[i].kind = "exit" => t[i].status \in {"stopped", "failure"}
    <3>1. i + 1 \in 1 .. Len(q) /\ t[i] = q[i + 1]
      BY <1>2
    <3>2. ASSUME NEW j \in i + 1 .. Len(q), ExitAt(j, t[i].lane)
          PROVE  \E m \in i .. Len(t) : t[m].kind = "exit" /\ t[m].lane = t[i].lane
      <4>1. j \in 1 .. Len(q) /\ j # 1 /\ j - 1 \in i .. Len(t)
        BY <1>2
      <4> QED
        BY <1>2, <3>2, <4>1 DEF ExitAt
    <3>3. /\ proc[q[i + 1].lane].state # "none"
          /\ Working(q[i + 1].lane) \/ \E j \in i + 1 .. Len(q) : ExitAt(j, q[i + 1].lane)
          /\ q[i + 1].kind = "exit" => q[i + 1].status \in {"stopped", "failure"}
      BY <3>1 DEF AgreeInv, EndsSeen
    <3> QED
      BY <3>1, <3>2, <3>3
  <2>2. events' = t /\ proc' = proc
    BY <1>1
  <2> HIDE DEF t
  <2>3. ASSUME NEW i \in 1 .. Len(events')
        PROVE  /\ proc'[events'[i].lane].state # "none"
               /\ \/ proc'[events'[i].lane].state \in {"booting", "live"}
                  \/ \E j \in i .. Len(events') : events'[j].kind = "exit" /\ events'[j].lane = events'[i].lane
               /\ events'[i].kind = "exit" => events'[i].status \in {"stopped", "failure"}
    BY <2>1, <2>2, ZenonT(30) DEF Working
  <2> QED
    BY <2>3 DEF EndsSeen, Working, ExitAt
<1>9. LanesAlive'
  <2>1. ASSUME NEW l \in Lanes, row'[l].state \in ActiveStates
        PROVE  Working(l) \/ \E j \in 1 .. Len(t) : t[j].kind = "exit" /\ t[j].lane = l
    <3>1. Working(l) \/ \E j \in 1 .. Len(q) : j # 1 /\ ExitAt(j, l)
      <4>1. CASE e.kind = "outcome" /\ e.lane = l
        <5>1. Working(l) \/ \E j \in 1 .. Len(q) : ExitAt(j, l)
          BY <1>2, <4>1 DEF AgreeInv, EndsSeen
        <5> QED
          BY <1>2, <4>1, <5>1 DEF ExitAt
      <4>2. CASE row[l].state \in ActiveStates /\ ~(e.kind = "exit" /\ e.lane = l)
        BY <1>2, <4>2 DEF AgreeInv, LanesAlive, ExitAt
      <4> QED
        BY <2>1, <4>1, <4>2 DEF e
    <3> QED
      BY <1>2, <3>1 DEF ExitAt
  <2> QED
    BY <1>1, <2>1 DEF LanesAlive, Working, ExitAt
<1> QED
  BY <1>3, <1>6, <1>7, <1>8, <1>9 DEF AgreeInv, NothingQueued

(* What the agreement says of the event that is read next: its lane has a  *)
(* process, and a report is on time.                                       *)
LEMMA HeadTold ==
    ASSUME IInv, AgreeInv, events # <<>>
    PROVE  LET e == Head(events) IN
           /\ e.lane \in Lanes /\ proc[e.lane].state # "none" /\ mver[e.lane] = row[e.lane].ver
           /\ \E w \in Nat : Told(e, e.lane, row[e.lane].ver, w)
           /\ e.kind = "exit" => e.status \in {"stopped", "failure"}
           /\ e.kind = "outcome" => /\ Under(e.action)
                                    /\ e.status = "applied" => act[e.action].expected[e.lane] = e.ver - 1
<1> DEFINE e == Head(events)
<1>1. e = events[1] /\ 1 \in 1 .. Len(events) /\ events \in Seq(GoodEvents)
  <2>1. events \in Seq(GoodEvents)
    BY DEF IInv, Messages
  <2> HIDE DEF GoodEvents
  <2> QED
    BY <2>1, TailIndex
<1>2. e.lane \in Lanes
  BY HeadEvent
<1>3. proc[e.lane].state # "none" /\ (e.kind = "exit" => e.status \in {"stopped", "failure"})
  BY <1>1 DEF AgreeInv, EndsSeen
<1>4. \E w \in Nat : Told(e, e.lane, row[e.lane].ver, w)
  <2>1. Story(events, e.lane, row[e.lane].ver, proc[e.lane].ver)
    BY <1>2, <1>3 DEF AgreeInv, Stories
  <2> HIDE DEF GoodEvents
  <2> QED
    BY <1>1, <2>1, StoryRead
<1>5. e.kind = "outcome" => /\ Under(e.action)
                            /\ e.status = "applied" => act[e.action].expected[e.lane] = e.ver - 1
  BY <1>1 DEF AgreeInv, ReportsOnce
<1> QED
  BY <1>2, <1>3, <1>4, <1>5 DEF AgreeInv, ManagerKnows

(* An event that is no report, whose handling revises no row.              *)
(* Reading an event that answers no action keeps the agreement if no       *)
(* version changes and no lane is activated.                               *)
LEMMA ReadOtherAgree ==
    ASSUME IInv, AgreeInv, events # <<>>, events' = Tail(events), UNCHANGED <<proc, cmds, act>>,
           phase' # "down", phase # "down", Head(events).kind # "outcome", LanesStay,
           \A a \in Actions : act[a].kind \in ChangeKinds => (a \in inflight => a \in inflight') /\ outcome'[a] = outcome[a],
           \A l \in Lanes : row'[l].ver = row[l].ver,
           \/ mver' = mver
           \/ Head(events).kind = "ready" /\ mver' = [mver EXCEPT ![Head(events).lane] = Head(events).ver],
           \A l \in Lanes : row'[l].state \in ActiveStates =>
               row[l].state \in ActiveStates /\ ~(Head(events).kind = "exit" /\ Head(events).lane = l)
    PROVE  AgreeInv'
<1> DEFINE e == Head(events)
<1>1. \A l \in Lanes, v \in Nat : Told(e, l, row[l].ver, v) => row'[l].ver = v
  BY DEF Told
<1>2. mver \in [Lanes -> Nat] /\ \A l \in Lanes : row[l].ver \in Nat
  BY DEF AgreeInv, ManagerKnows, IInv, Tables, RowTypes
<1>3. mver' = mver
  <2>1. CASE e.kind = "ready" /\ mver' = [mver EXCEPT ![e.lane] = e.ver]
    <3>1. e.lane \in Lanes /\ mver[e.lane] = row[e.lane].ver /\ \E w \in Nat : Told(e, e.lane, row[e.lane].ver, w)
      BY HeadTold
    <3>2. e.ver = row[e.lane].ver
      BY <2>1, <3>1 DEF Told
    <3> QED
      BY <1>2, <2>1, <3>1, <3>2
  <2> QED
    BY <2>1
<1>4. ManagerKnows'
  BY <1>3 DEF AgreeInv, ManagerKnows, LanesStay
<1>5. \A a \in Actions : act[a].kind \in ChangeKinds /\ Under(a) => StaysUnder(a)
  BY DEF Under, StaysUnder
<1> QED
  BY <1>1, <1>4, <1>5, ReadAgree

(* Recording a checkpoint (insert_checkpoint) keeps the agreement.         *)
LEMMA CheckpointAgree ==
    ASSUME IInv, AgreeInv, HandleCheckpoint
    PROVE  AgreeInv'
<1> DEFINE e == Head(events)
           n == CheckpointedRow(row[e.lane], e.ver)
<1>1. /\ events # <<>> /\ events' = Tail(events) /\ e.kind = "checkpoint" /\ row' = [row EXCEPT ![e.lane] = n]
      /\ UNCHANGED <<act, outcome, inflight, mver, phase, proc, cmds>> /\ phase # "down"
  BY DEF HandleCheckpoint, Polling, dispatcher, manager, workers, NoFault
<1>2. e.lane \in Lanes /\ row \in [Lanes -> RowTypes]
  BY <1>1, HeadEvent DEF IInv, Tables
<1>3. n.state = row[e.lane].state /\ n.ver = row[e.lane].ver
  BY <1>2 DEF CheckpointedRow, RowTypes
<1> HIDE DEF n
<1>4. \A l \in Lanes : row'[l].state = row[l].state /\ row'[l].ver = row[l].ver
  BY <1>1, <1>2, <1>3
<1> QED
  BY <1>1, <1>4, ReadOtherAgree DEF LanesStay

(* So does handling a ready event, which can apply the birth of the lane.  *)
LEMMA ReadyAgree ==
    ASSUME IInv, AgreeInv, HandleReady
    PROVE  AgreeInv'
<1> DEFINE e == Head(events)
           a == owner[e.lane]
           C == {l \in Lanes : owner[l] = a}
<1>1. /\ events # <<>> /\ events' = Tail(events) /\ e.kind = "ready" /\ phase # "down"
      /\ mver' = [mver EXCEPT ![e.lane] = e.ver] /\ UNCHANGED <<act, proc, cmds>>
  BY DEF HandleReady, Polling
<1>2. e.lane \in Lanes /\ row \in [Lanes -> RowTypes]
  BY <1>1, HeadEvent DEF IInv, Tables
<1>3. a # NoAction => a \in Actions /\ act[a].kind \notin ChangeKinds
  BY <1>2 DEF IInv, Tables, OwnersSound, BirthKinds, ChangeKinds
<1>4. CASE a = NoAction \/ Awaited(a, e.lane) # {}
  <2>1. UNCHANGED <<row, outcome, inflight, phase>>
    BY <1>4 DEF HandleReady, NoFault
  <2> QED
    BY <1>1, <2>1, ReadOtherAgree DEF LanesStay
<1>5. CASE /\ a # NoAction /\ Awaited(a, e.lane) = {}
           /\ outcome[a] = "pending" /\ \E l \in C : row[l].state # "starting"
  <2>1. Fault /\ inflight' = inflight
    BY <1>5 DEF HandleReady
  <2>2. /\ \A l \in Lanes : row'[l].state = row[l].state \/ (row[l].state = "running" /\ row'[l].state = "paused")
        /\ \A l \in Lanes : row'[l].ver = row[l].ver
    BY <1>2, <2>1 DEF Fault, RowTypes
  <2>3. outcome' = outcome /\ phase' # "down"
    BY <2>1 DEF Fault, BeginDrain
  <2> QED
    BY <1>1, <2>1, <2>2, <2>3, ReadOtherAgree DEF LanesStay, ActiveStates
<1>6. CASE /\ a # NoAction /\ Awaited(a, e.lane) = {}
           /\ ~(outcome[a] = "pending" /\ \E l \in C : row[l].state # "starting")
  <2>1. /\ IF outcome[a] = "pending"
           THEN /\ row' = [l \in Lanes |-> IF l \in C THEN [row[l] EXCEPT !.state = "running"] ELSE row[l]]
                /\ outcome' = [outcome EXCEPT ![a] = "applied"]
           ELSE UNCHANGED <<row, outcome>>
        /\ inflight' = inflight \ {a} /\ phase' = phase
    BY <1>6 DEF HandleReady, NoFault
  <2>2. /\ \A l \in Lanes : row'[l].ver = row[l].ver
        /\ \A l \in Lanes : row'[l].state = row[l].state \/ (row[l].state = "starting" /\ row'[l].state = "running")
    BY <1>2, <1>6, <2>1 DEF RowTypes
  <2>3. \A b \in Actions : b # a => outcome'[b] = outcome[b] /\ (b \in inflight => b \in inflight')
    BY <2>1 DEF IInv, Tables
  <2> QED
    BY <1>1, <1>3, <1>6, <2>1, <2>2, <2>3, ReadOtherAgree DEF LanesStay, ActiveStates
<1> QED
  BY <1>4, <1>5, <1>6

(* So does handling an action's report: an applied one is on time, and     *)
(* both the row and the manager move to the worker's version.              *)
LEMMA OutcomeAgree ==
    ASSUME IInv, AgreeInv, HandleOutcome
    PROVE  AgreeInv'
<1> DEFINE e == Head(events)
           a == e.action
           m == e.lane
           onTime == row[m].ver = act[a].expected[m] /\ e.ver = row[m].ver + 1
<1>1. /\ events # <<>> /\ events' = Tail(events) /\ e.kind = "outcome" /\ phase # "down"
      /\ mver' = [mver EXCEPT ![m] = e.ver] /\ inflight' = inflight \ {a}
      /\ ApplyLaneOutcome(a, m, e.status, e.ver)
      /\ UNCHANGED <<act, proc, cmds, phase>>
  BY DEF HandleOutcome, Polling, NoFault, workers
<1>2. /\ m \in Lanes /\ e.ver \in Nat /\ e.status \in Answers /\ a \in Actions /\ row[m].state # "absent"
      /\ row \in [Lanes -> RowTypes] /\ outcome \in [Actions -> Outcomes]
  BY <1>1, HeadEvent DEF IInv, Tables, Targets
<1>3. /\ proc[m].state # "none" /\ Under(a)
      /\ e.status = "applied" => act[a].expected[m] = e.ver - 1
  BY <1>1, HeadTold
<1>4. row[m].ver = IF e.status = "applied" THEN e.ver - 1 ELSE e.ver
  <2>1. PICK w \in Nat : Told(e, m, row[m].ver, w)
    BY <1>1, HeadTold
  <2> QED
    BY <1>1, <2>1 DEF Told
<1>5. row[m].ver \in Nat
  BY <1>2 DEF RowTypes
<1>6. e.status = "applied" => onTime
  BY <1>2, <1>3, <1>4, <1>5
<1>7. /\ row' = IF e.status = "applied" THEN [row EXCEPT ![m] = RevisedRow(row[m], act[a].kind, e.ver)] ELSE row
      /\ \A b \in Actions : b # a => outcome'[b] = outcome[b]
  BY <1>1, <1>2, <1>3, <1>6 DEF ApplyLaneOutcome, Under
<1> HIDE DEF onTime
<1>8. row'[m].ver = e.ver /\ row'[m].state # "absent" /\ \A l \in Lanes : l # m => row'[l] = row[l]
  <2>1. CASE e.status = "applied"
    <3> DEFINE n == RevisedRow(row[m], act[a].kind, e.ver)
    <3>1. n.ver = e.ver /\ n.state # "absent"
      BY <1>2, RowRevised
    <3> HIDE DEF n
    <3> QED
      BY <1>2, <1>7, <2>1, <3>1 DEF n
  <2>2. CASE e.status # "applied"
    BY <1>2, <1>4, <1>7, <2>2
  <2> QED
    BY <2>1, <2>2
<1>9. \A l \in Lanes, v \in Nat : Told(e, l, row[l].ver, v) => row'[l].ver = v
  BY <1>1, <1>8 DEF Told
<1>10. ManagerKnows'
  BY <1>1, <1>2, <1>8 DEF AgreeInv, ManagerKnows
<1>11. \A b \in Actions : Under(b) => StaysUnder(b) \/ b = a
  BY <1>1, <1>7 DEF Under, StaysUnder
<1>12. \A l \in Lanes : row'[l].state \in ActiveStates => l = m \/ row[l].state \in ActiveStates
  BY <1>8
<1> QED
  BY <1>1, <1>9, <1>10, <1>11, <1>12, ReadAgree

(* So does handling the end of a process, whether it stopped or failed.    *)
LEMMA ExitAgree ==
    ASSUME IInv, AgreeInv, HandleExit
    PROVE  AgreeInv'
<1> DEFINE e == Head(events)
           a == owner[e.lane]
           t == ExitedRow(e)
<1>1. /\ events # <<>> /\ events' = Tail(events) /\ e.kind = "exit" /\ phase # "down"
      /\ UNCHANGED <<act, proc, cmds, phase, mver>>
      /\ IF a # NoAction /\ a \in inflight
         THEN /\ row' = BirthFailed(t, a)
              /\ outcome' = [outcome EXCEPT ![a] = IF @ = "pending" THEN "failed" ELSE @]
              /\ inflight' = inflight \ {a}
         ELSE row' = t /\ UNCHANGED <<outcome, inflight>>
  BY DEF HandleExit, Polling, NoFault
<1>2. e.lane \in Lanes /\ row \in [Lanes -> RowTypes] /\ outcome \in [Actions -> Outcomes]
  BY <1>1, HeadEvent DEF IInv, Tables
<1>3. a # NoAction => a \in Actions /\ act[a].kind \notin ChangeKinds
  BY <1>2 DEF IInv, Tables, OwnersSound, BirthKinds, ChangeKinds
<1>4. ExitVersion(e) = row[e.lane].ver
  <2>1. /\ mver[e.lane] = row[e.lane].ver /\ e.status \in {"stopped", "failure"}
        /\ \E w \in Nat : Told(e, e.lane, row[e.lane].ver, w)
    BY <1>1, HeadTold
  <2> QED
    BY <1>1, <2>1 DEF Told, ExitVersion
<1>5. /\ t \in [Lanes -> RowTypes] /\ t[e.lane].state \notin ActiveStates
      /\ \A l \in Lanes : t[l].ver = row[l].ver /\ (l # e.lane => t[l] = row[l])
      /\ t[e.lane].state = "absent" => row[e.lane].state = "absent"
  <2>1. CASE row[e.lane].state \in {"failed", "stopped", "absent"}
    BY <1>2, <2>1 DEF ExitedRow, ActiveStates
  <2>2. CASE row[e.lane].state \notin {"failed", "stopped", "absent"}
    <3> DEFINE s == IF e.status = "failure" THEN "failed" ELSE "stopped"
               n == [row[e.lane] EXCEPT !.state = s]
    <3>1. t = [row EXCEPT ![e.lane] = n]
      BY <1>4, <2>2 DEF ExitedRow
    <3>2. s \in RowStates /\ s \notin ActiveStates /\ s # "absent"
      BY DEF RowStates, ActiveStates
    <3> HIDE DEF s
    <3>3. n \in RowTypes /\ n.state = s /\ n.ver = row[e.lane].ver
      BY <1>2, <3>2 DEF RowTypes
    <3> HIDE DEF n, t
    <3> QED
      BY <1>2, <3>1, <3>2, <3>3
  <2> QED
    BY <2>1, <2>2
<1> HIDE DEF t
<1>6. /\ \A l \in Lanes : row'[l].ver = row[l].ver
      /\ \A l \in Lanes : row'[l].state = t[l].state \/ row'[l].state = "failed"
  <2>1. CASE row' = t
    BY <1>5, <2>1
  <2>2. CASE row' = BirthFailed(t, a)
    BY <1>5, <2>2 DEF BirthFailed, RowTypes
  <2> QED
    BY <1>1, <2>1, <2>2
<1>7. \A l \in Lanes : row'[l].state \in ActiveStates => row[l].state \in ActiveStates /\ l # e.lane
  BY <1>5, <1>6 DEF ActiveStates
<1>8. LanesStay
  BY <1>5, <1>6 DEF LanesStay
<1>9. \A b \in Actions : b # a => outcome'[b] = outcome[b] /\ (b \in inflight => b \in inflight')
  BY <1>1, <1>2
<1>10. \A b \in Actions : act[b].kind \in ChangeKinds => (b \in inflight => b \in inflight') /\ outcome'[b] = outcome[b]
  BY <1>1, <1>3, <1>9
<1> QED
  BY <1>1, <1>6, <1>7, <1>8, <1>10, ReadOtherAgree

(* The indices of two sequences and of the joined one.                     *)
LEMMA JoinIndex ==
    ASSUME NEW S, NEW q \in Seq(S), NEW s \in Seq(S)
    PROVE  LET r == q \o s IN
           /\ Len(q) \in Nat /\ Len(s) \in Nat /\ Len(r) = Len(q) + Len(s)
           /\ \A i \in 1 .. Len(q) : i \in 1 .. Len(r) /\ r[i] = q[i]
           /\ \A i \in 1 .. Len(s) : Len(q) + i \in 1 .. Len(r) /\ r[Len(q) + i] = s[i]
           /\ \A k \in 1 .. Len(r) : k \in 1 .. Len(q) \/ \E i \in 1 .. Len(s) : k = Len(q) + i
<1> DEFINE r == q \o s
<1>1. /\ Len(q) \in Nat /\ Len(s) \in Nat /\ Len(r) = Len(q) + Len(s)
      /\ \A i \in 1 .. Len(q) : r[i] = q[i]
      /\ \A i \in 1 .. Len(s) : r[Len(q) + i] = s[i]
  BY LenProperties, ConcatProperties
<1> DEFINE n == Len(q)
           m == Len(s)
<1>2. ASSUME NEW k \in 1 .. n + m
      PROVE  k \in 1 .. n \/ \E i \in 1 .. m : k = n + i
  <2>1. CASE k <= n
    BY <1>1, <2>1
  <2>2. CASE ~(k <= n)
    <3>1. k \in 0 .. n + m
      BY <1>1
    <3>2. k - n \in 1 .. m /\ n + (k - n) = k
      BY <1>1, <2>2, <3>1, Offset
    <3> QED
      BY <3>2
  <2> QED
    BY <2>1, <2>2
<1>3. /\ \A i \in 1 .. n : i \in 1 .. n + m
      /\ \A i \in 1 .. m : n + i \in 1 .. n + m
  BY <1>1
<1> QED
  BY <1>1, <1>2, <1>3

(* What a worker puts on the queue keeps the agreement if it tells the way *)
(* from the worker's version before the step to the one after it, and ends *)
(* with the exit of a worker that ends.                                    *)
LEMMA WorkerAgree ==
    ASSUME IInv, AgreeInv, NEW l \in Lanes, Working(l), NEW s \in Seq(GoodEvents), s # <<>>,
           events' = events \o s, UNCHANGED <<row, act, outcome, inflight, mver, phase>>,
           \A i \in 1 .. Len(s) : /\ s[i].lane = l
                                  /\ s[i].kind = "exit" => s[i].status \in {"stopped", "failure"},
           NEW p \in ProcTypes, proc' = [proc EXCEPT ![l] = p], p.state \in {"live", "ended"},
           p.state = "live" \/ s[Len(s)].kind = "exit", Story(s, l, proc[l].ver, p.ver),
           ReportsOnce', CommandsOnce'
    PROVE  AgreeInv'
<1> DEFINE q == events
           r == events \o s
<1>1. events \in Seq(GoodEvents) /\ proc \in [Lanes -> ProcTypes] /\ events' = r
  BY DEF IInv, Messages, Tables
<1>2. /\ Len(q) \in Nat /\ Len(s) \in Nat /\ Len(r) = Len(q) + Len(s)
      /\ \A i \in 1 .. Len(q) : i \in 1 .. Len(r) /\ r[i] = q[i]
      /\ \A i \in 1 .. Len(s) : Len(q) + i \in 1 .. Len(r) /\ r[Len(q) + i] = s[i]
      /\ \A k \in 1 .. Len(r) : k \in 1 .. Len(q) \/ \E i \in 1 .. Len(s) : k = Len(q) + i
  <2> HIDE DEF GoodEvents
  <2> QED
    BY <1>1, JoinIndex
<1>3. Len(s) > 0 /\ Len(s) \in 1 .. Len(s) /\ Len(r) = Len(q) + Len(s) /\ Len(r) \in Nat
  <2> HIDE DEF GoodEvents
  <2> QED
    BY <1>2, EmptySeq
<1>4. /\ proc'[l] = p /\ \A k \in Lanes : k # l => proc'[k] = proc[k]
      /\ \A k \in Lanes : proc[k].state # "none" => proc'[k].state # "none"
  BY <1>1 DEF Working
<1>5. Stories'
  <2>1. ASSUME NEW k \in Lanes, proc'[k].state # "none"
        PROVE  Story(r, k, row[k].ver, proc'[k].ver)
    <3>1. Story(events, k, row[k].ver, proc[k].ver)
      BY <1>4, <2>1 DEF AgreeInv, Stories, Working
    <3>2. Story(s, k, proc[k].ver, proc'[k].ver)
      <4>1. CASE k = l
        BY <1>4, <4>1
      <4>2. CASE k # l
        <5>1. proc[k].ver \in Nat /\ proc'[k] = proc[k] /\ \A i \in 1 .. Len(s) : s[i].lane # k
          BY <1>1, <1>4, <4>2 DEF ProcTypes
        <5> HIDE DEF GoodEvents
        <5> QED
          BY <5>1, StoryOfOthers
      <4> QED
        BY <4>1, <4>2
    <3> HIDE DEF GoodEvents, r
    <3> QED
      BY <1>1, <3>1, <3>2, StoryJoined DEF r
  <2> QED
    BY <1>1, <2>1 DEF Stories
<1>6. ManagerKnows'
  <2>1. proc[l].state # "none"
    BY DEF Working
  <2> QED
    BY <1>4, <2>1 DEF AgreeInv, ManagerKnows
<1> HIDE DEF r
<1>7. p.state = "live" \/ (Len(r) \in 1 .. Len(r) /\ r[Len(r)].kind = "exit" /\ r[Len(r)].lane = l)
  BY <1>2, <1>3
<1>8. \A k \in Lanes : Working(k) /\ k # l => proc'[k].state \in {"booting", "live"}
  BY <1>4 DEF Working
<1>9. \A k \in 1 .. Len(q) : q[k].lane \in Lanes
  <2>1. \A k \in 1 .. Len(q) : q[k] \in GoodEvents
    <3> HIDE DEF GoodEvents
    <3> QED
      BY <1>1
  <2> QED
    BY <2>1 DEF GoodEvents, EventTypes
<1>10. EndsSeen'
  <2>1. ASSUME NEW k \in 1 .. Len(r)
        PROVE  /\ proc'[r[k].lane].state # "none"
               /\ proc'[r[k].lane].state \in {"booting", "live"}
                    \/ \E j \in k .. Len(r) : r[j].kind = "exit" /\ r[j].lane = r[k].lane
               /\ r[k].kind = "exit" => r[k].status \in {"stopped", "failure"}
    <3>1. Len(r) \in k .. Len(r)
      BY <1>3
    <3>2. CASE r[k].lane = l
      <4>1. proc'[l].state # "none" /\ (proc'[l].state \in {"booting", "live"} \/ p.state # "live")
        BY <1>4
      <4>2. r[k].kind = "exit" => r[k].status \in {"stopped", "failure"}
        BY <1>2, <3>2, ZenonT(30) DEF AgreeInv, EndsSeen
      <4> QED
        BY <1>7, <3>1, <3>2, <4>1, <4>2
    <3>3. CASE r[k].lane # l
      <4>1. k \in 1 .. Len(q) /\ r[k] = q[k] /\ q[k].lane \in Lanes
        <5>1. ASSUME NEW i \in 1 .. Len(s), k = Len(q) + i
              PROVE  FALSE
          BY <1>2, <3>3, <5>1
        <5>2. k \in 1 .. Len(q)
          BY <1>2, <5>1
        <5> QED
          BY <1>2, <1>9, <5>2
      <4>2. /\ proc[q[k].lane].state # "none"
            /\ Working(q[k].lane) \/ \E j \in k .. Len(q) : ExitAt(j, q[k].lane)
            /\ q[k].kind = "exit" => q[k].status \in {"stopped", "failure"}
        BY <4>1 DEF AgreeInv, EndsSeen
      <4>3. ASSUME NEW j \in k .. Len(q), ExitAt(j, q[k].lane)
            PROVE  \E i \in k .. Len(r) : r[i].kind = "exit" /\ r[i].lane = r[k].lane
        <5>1. j \in 1 .. Len(q) /\ j \in k .. Len(r)
          BY <1>2, <4>1
        <5> QED
          BY <1>2, <4>1, <4>3, <5>1 DEF ExitAt
      <4> QED
        BY <1>4, <1>8, <3>3, <4>1, <4>2, <4>3
    <3> QED
      BY <3>2, <3>3
  <2> QED
    BY <1>1, <2>1 DEF EndsSeen, Working, ExitAt
<1>11. LanesAlive'
  <2>1. ASSUME NEW k \in Lanes, row[k].state \in ActiveStates, phase # "down"
        PROVE  proc'[k].state \in {"booting", "live"}
                   \/ \E j \in 1 .. Len(r) : r[j].kind = "exit" /\ r[j].lane = k
    <3>1. CASE k = l
      BY <1>4, <1>7, <3>1
    <3>2. CASE k # l
      BY <1>2, <1>8, <2>1, <3>2 DEF AgreeInv, LanesAlive, ExitAt
    <3> QED
      BY <3>1, <3>2
  <2> QED
    BY <1>1, <2>1 DEF LanesAlive, Working, ExitAt
<1>12. NothingQueued'
  BY DEF AgreeInv, NothingQueued, Working
<1> QED
  BY <1>5, <1>6, <1>10, <1>11, <1>12 DEF AgreeInv

(* Events that answer no action leave each action with one message.        *)
LEMMA SilentWorker ==
    ASSUME IInv, AgreeInv, NEW s \in Seq(GoodEvents), events' = events \o s,
           UNCHANGED <<act, outcome, inflight, cmds>>, \A i \in 1 .. Len(s) : s[i].kind # "outcome"
    PROVE  ReportsOnce' /\ CommandsOnce'
<1> DEFINE q == events
           r == events \o s
<1>1. events \in Seq(GoodEvents) /\ events' = r /\ s \in Seq(GoodEvents)
  BY DEF IInv, Messages
<1>2. /\ Len(q) \in Nat /\ Len(s) \in Nat /\ Len(r) = Len(q) + Len(s)
      /\ \A i \in 1 .. Len(q) : i \in 1 .. Len(r) /\ r[i] = q[i]
      /\ \A i \in 1 .. Len(s) : Len(q) + i \in 1 .. Len(r) /\ r[Len(q) + i] = s[i]
      /\ \A k \in 1 .. Len(r) : k \in 1 .. Len(q) \/ \E i \in 1 .. Len(s) : k = Len(q) + i
  <2> HIDE DEF GoodEvents
  <2> QED
    BY <1>1, JoinIndex
<1> HIDE DEF r
<1>3. \A k \in 1 .. Len(r) : r[k].kind = "outcome" => k \in 1 .. Len(q) /\ r[k] = q[k]
  BY <1>2, ZenonT(30)
<1>4. ReportsOnce'
  <2>1. ASSUME NEW i \in 1 .. Len(r), r[i].kind = "outcome"
        PROVE  /\ Under(r[i].action)
               /\ r[i].status = "applied" => act[r[i].action].expected[r[i].lane] = r[i].ver - 1
               /\ \A j \in 1 .. Len(r) : r[j].kind = "outcome" /\ r[j].action = r[i].action => i = j
    BY <1>3, <2>1 DEF AgreeInv, ReportsOnce
  <2> QED
    BY <1>1, <2>1 DEF ReportsOnce, Under
<1>5. CommandsOnce'
  <2>1. ASSUME NEW l \in Lanes
        PROVE  Apart(cmds[l], r)
    BY <1>3 DEF AgreeInv, CommandsOnce, Apart
  <2>2. ASSUME NEW l \in Lanes
        PROVE  Apart(cmds'[l], events')
    BY <1>1, <2>1
  <2>3. ASSUME NEW l \in Lanes, NEW k \in 1 .. Len(cmds'[l])
        PROVE  StaysUnder(cmds'[l][k].action) /\ cmds'[l][k].expected = act'[cmds'[l][k].action].expected[l]
    BY DEF AgreeInv, CommandsOnce, StaysUnder, Under
  <2> QED
    BY <2>2, <2>3 DEF CommandsOnce, StaysUnder, Under
<1> QED
  BY <1>4, <1>5

(* A worker answers its next command.                                      *)
(* A worker that takes a command off its queue and answers it leaves each  *)
(* action with one message.                                                *)
LEMMA AnsweringWorker ==
    ASSUME IInv, AgreeInv, Plain, NEW l \in Lanes, cmds[l] # <<>>, cmds' = [cmds EXCEPT ![l] = Tail(@)],
           NEW s \in Seq(GoodEvents), s # <<>>, events' = events \o s, UNCHANGED <<act, outcome, inflight>>,
           \A i \in 1 .. Len(s) : s[i].kind = "outcome" <=> i = Len(s),
           s[Len(s)].lane = l /\ s[Len(s)].action = Head(cmds[l]).action,
           s[Len(s)].status = "applied" => s[Len(s)].ver - 1 = Head(cmds[l]).expected
    PROVE  ReportsOnce' /\ CommandsOnce'
<1> DEFINE q == events
           r == events \o s
           c == Head(cmds[l])
           f == s[Len(s)]
<1>1. events \in Seq(GoodEvents) /\ events' = r /\ cmds \in [Lanes -> Seq(CommandTypes)]
  BY DEF IInv, Messages
<1>2. /\ Len(q) \in Nat /\ Len(s) \in Nat /\ Len(r) = Len(q) + Len(s)
      /\ \A i \in 1 .. Len(q) : i \in 1 .. Len(r) /\ r[i] = q[i]
      /\ \A i \in 1 .. Len(s) : Len(q) + i \in 1 .. Len(r) /\ r[Len(q) + i] = s[i]
      /\ \A k \in 1 .. Len(r) : k \in 1 .. Len(q) \/ \E i \in 1 .. Len(s) : k = Len(q) + i
  <2> HIDE DEF GoodEvents
  <2> QED
    BY <1>1, JoinIndex
<1>3. /\ c = cmds[l][1] /\ 1 \in 1 .. Len(cmds[l])
      /\ \A i \in 1 .. Len(Tail(cmds[l])) : /\ Tail(cmds[l])[i] = cmds[l][i + 1]
                                            /\ i + 1 \in 1 .. Len(cmds[l]) /\ i + 1 # 1
  <2>1. cmds[l] \in Seq(CommandTypes)
    BY <1>1
  <2> HIDE DEF CommandTypes
  <2> QED
    BY <2>1, TailIndex
<1>4. /\ Under(c.action) /\ c.expected = act[c.action].expected[l] /\ Apart(cmds[l], q)
  BY <1>3 DEF AgreeInv, CommandsOnce
<1>5. \A i \in 1 .. Len(q) : q[i].kind = "outcome" => q[i].action # c.action
  BY <1>3, <1>4 DEF Apart
<1> HIDE DEF r, f, c
<1>6. \A k \in 1 .. Len(r) : r[k].kind = "outcome" =>
        (k \in 1 .. Len(q) /\ r[k] = q[k]) \/ (k = Len(r) /\ r[k] = f)
  <2>1. ASSUME NEW i \in 1 .. Len(s), s[i].kind = "outcome"
        PROVE  i = Len(s) /\ s[i] = f
    BY <2>1 DEF f
  <2>2. ASSUME NEW i \in 1 .. Len(s), r[Len(q) + i].kind = "outcome"
        PROVE  Len(q) + i = Len(r) /\ r[Len(q) + i] = f
    BY <1>2, <2>1, <2>2
  <2> QED
    BY <1>2, <2>2
<1>7. f.lane = l /\ f.action = c.action /\ (f.status = "applied" => c.expected = f.ver - 1)
  BY DEF f, c
<1>8. ReportsOnce'
  <2>1. ASSUME NEW i \in 1 .. Len(r), r[i].kind = "outcome"
        PROVE  /\ Under(r[i].action)
               /\ r[i].status = "applied" => act[r[i].action].expected[r[i].lane] = r[i].ver - 1
               /\ \A j \in 1 .. Len(r) : r[j].kind = "outcome" /\ r[j].action = r[i].action => i = j
    <3>1. CASE i \in 1 .. Len(q) /\ r[i] = q[i]
      <4>1. /\ Under(q[i].action)
            /\ q[i].status = "applied" => act[q[i].action].expected[q[i].lane] = q[i].ver - 1
            /\ \A j \in 1 .. Len(q) : q[j].kind = "outcome" /\ q[j].action = q[i].action => i = j
        BY <2>1, <3>1 DEF AgreeInv, ReportsOnce
      <4>2. q[i].action # f.action
        BY <1>5, <1>7, <2>1, <3>1
      <4> QED
        BY <1>6, <3>1, <4>1, <4>2
    <3>2. CASE i = Len(r) /\ r[i] = f
      <4>1. \A j \in 1 .. Len(r) : r[j].kind = "outcome" /\ r[j].action = f.action => j = Len(r)
        BY <1>5, <1>6, <1>7
      <4> QED
        BY <1>4, <1>7, <3>2, <4>1
    <3> QED
      BY <1>6, <2>1, <3>1, <3>2
  <2> QED
    BY <1>1, <2>1 DEF ReportsOnce, Under
<1>9. CommandsOnce'
  <2>1. ASSUME NEW m \in Lanes
        PROVE  \A k \in 1 .. Len(cmds'[m]) : \E k1 \in 1 .. Len(cmds[m]) :
                 cmds'[m][k] = cmds[m][k1] /\ cmds[m][k1].action # c.action /\ (m = l => k1 = k + 1) /\ (m # l => k1 = k)
    <3>1. CASE m = l
      <4>1. cmds'[m] = Tail(cmds[l])
        BY <1>1, <3>1
      <4> QED
        BY <1>3, <1>4, <3>1, <4>1 DEF Apart
    <3>2. CASE m # l
      <4>1. cmds'[m] = cmds[m]
        BY <1>1, <3>2
      <4>2. ASSUME NEW k \in 1 .. Len(cmds[m])
            PROVE  cmds[m][k].action # c.action
        <5>1. cmds[m] \in Seq(CommandsFor(m)) /\ cmds[l] \in Seq(CommandsFor(l))
          BY DEF IInv, Messages
        <5>2. cmds[m][k] \in CommandsFor(m) /\ c \in CommandsFor(l)
          <6> HIDE DEF CommandsFor
          <6> QED
            BY <1>3, <5>1
        <5>3. /\ Targets(cmds[m][k].action, m) /\ Targets(c.action, l)
          BY <5>2 DEF CommandsFor
        <5>4. c.action \in Actions /\ act[c.action].kind \in {"patch", "stop"}
          BY <5>3 DEF Targets, ChangeKinds, Plain, IInv, Tables, ActTypes
        <5>5. PICK x \in Lanes : act[c.action].lanes = {x}
          BY <5>4 DEF IInv, ActsExist
        <5> QED
          BY <3>2, <5>3, <5>5 DEF Targets
      <4> QED
        BY <3>2, <4>1, <4>2
    <3> QED
      BY <3>1, <3>2
  <2>2. ASSUME NEW m \in Lanes
        PROVE  Apart(cmds'[m], r)
    <3>1. Apart(cmds[m], q) /\ Len(cmds[m]) \in Nat
      BY <1>1, LenProperties DEF AgreeInv, CommandsOnce
    <3>2. ASSUME NEW k \in 1 .. Len(cmds'[m]), NEW j \in 1 .. Len(cmds'[m]), cmds'[m][j].action = cmds'[m][k].action
          PROVE  j = k
      <4>1. PICK k1 \in 1 .. Len(cmds[m]) : cmds'[m][k] = cmds[m][k1] /\ (m = l => k1 = k + 1) /\ (m # l => k1 = k)
        BY <2>1
      <4>2. PICK j1 \in 1 .. Len(cmds[m]) : cmds'[m][j] = cmds[m][j1] /\ (m = l => j1 = j + 1) /\ (m # l => j1 = j)
        BY <2>1
      <4>3. k1 = j1
        BY <3>1, <3>2, <4>1, <4>2 DEF Apart
      <4> QED
        BY <4>1, <4>2, <4>3
    <3>3. ASSUME NEW k \in 1 .. Len(cmds'[m]), NEW i \in 1 .. Len(r), r[i].kind = "outcome"
          PROVE  r[i].action # cmds'[m][k].action
      <4>1. PICK k1 \in 1 .. Len(cmds[m]) : cmds'[m][k] = cmds[m][k1] /\ cmds[m][k1].action # c.action
        BY <2>1
      <4>2. CASE i \in 1 .. Len(q) /\ r[i] = q[i]
        BY <3>1, <3>3, <4>1, <4>2 DEF Apart
      <4>3. CASE r[i] = f
        BY <1>7, <4>1, <4>3
      <4> QED
        BY <1>6, <3>3, <4>2, <4>3
    <3> QED
      BY <3>2, <3>3 DEF Apart
  <2>3. ASSUME NEW m \in Lanes
        PROVE  Apart(cmds'[m], events')
    BY <1>1, <2>2
  <2>4. ASSUME NEW m \in Lanes, NEW k \in 1 .. Len(cmds'[m])
        PROVE  StaysUnder(cmds'[m][k].action) /\ cmds'[m][k].expected = act'[cmds'[m][k].action].expected[m]
    BY <2>1 DEF AgreeInv, CommandsOnce, StaysUnder, Under
  <2> QED
    BY <2>3, <2>4 DEF CommandsOnce, StaysUnder, Under
<1> QED
  BY <1>8, <1>9

(* The last element of a sequence of one.                                  *)
LEMMA LastOfOne ==
    ASSUME NEW e, NEW s, s = <<e>>
    PROVE  s # <<>> /\ s[Len(s)] = e /\ \A i \in 1 .. Len(s) : s[i] = e /\ i = Len(s)
<1>1. Len(<<e>>) = 1 /\ <<e>>[1] = e /\ <<e>> # <<>>
  OBVIOUS
<1>2. \A i \in 1 .. 1 : i = 1
  OBVIOUS
<1> QED
  BY <1>1, <1>2

(* A worker that stops or fails keeps the agreement: it reports its end.   *)
LEMMA EndingAgree ==
    ASSUME IInv, AgreeInv, NEW l \in Lanes, WorkerStops(l) \/ WorkerFails(l)
    PROVE  AgreeInv'
<1>1. PICK v \in Nat, status \in {"stopped", "failure"} :
        /\ Working(l) /\ proc' = [proc EXCEPT ![l].state = "ended"]
        /\ events' = Append(events, Event("exit", l, v, NoAction, status))
        /\ status = "stopped" => v = proc[l].ver
        /\ UNCHANGED <<row, act, outcome, inflight, mver, phase, cmds>>
  BY EventsGood DEF WorkerStops, WorkerFails, Working, rows, dispatcher, manager
<1> DEFINE e == Event("exit", l, v, NoAction, status)
           p == [proc[l] EXCEPT !.state = "ended"]
<1>2. e \in GoodEvents /\ e.kind = "exit" /\ e.lane = l /\ e.status = status /\ e.ver = v /\ events \in Seq(GoodEvents)
  BY <1>1, EventsGood DEF Event, IInv, Messages, Working
<1>3. p \in ProcTypes /\ p.state = "ended" /\ p.ver = proc[l].ver /\ proc' = [proc EXCEPT ![l] = p] /\ p.ver \in Nat
  <2>1. proc[l] \in ProcTypes
    BY DEF IInv, Tables
  <2> QED
    BY <1>1, <2>1 DEF ProcTypes
<1> HIDE DEF e, p
<1>4. <<e>> \in Seq(GoodEvents) /\ events' = events \o <<e>> /\ Len(<<e>>) = 1 /\ <<e>>[1] = e
  BY <1>1, <1>2, OneEvent DEF e
<1>5. Story(<<e>>, l, proc[l].ver, p.ver)
  <2>1. Told(e, l, proc[l].ver, p.ver)
    BY <1>1, <1>2, <1>3 DEF Told
  <2> QED
    BY <1>3, <2>1, StoryOfOne
<1> DEFINE s == <<e>>
<1>6. s \in Seq(GoodEvents) /\ s # <<>> /\ \A i \in 1 .. Len(s) : s[i] = e /\ i = Len(s)
  BY <1>4
<1> HIDE DEF s
<1>7. ReportsOnce' /\ CommandsOnce'
  <2>1. \A i \in 1 .. Len(s) : s[i].kind # "outcome"
    BY <1>2, <1>6
  <2> QED
    BY <1>1, <1>4, <1>6, <2>1, SilentWorker DEF s
<1>8. s[Len(s)].kind = "exit"
  BY <1>2, <1>4 DEF s
<1> QED
  BY <1>1, <1>2, <1>3, <1>4, <1>5, <1>6, <1>7, <1>8, WorkerAgree DEF s

(* So does a worker that starts: its checkpoint and its ready event carry  *)
(* its version.                                                            *)
LEMMA StartedAgree ==
    ASSUME IInv, AgreeInv, NEW l \in Lanes, WorkerReady(l)
    PROVE  AgreeInv'
<1> DEFINE e == Event("checkpoint", l, proc[l].ver, NoAction, "none")
           f == Event("ready", l, proc[l].ver, NoAction, "none")
           p == [proc[l] EXCEPT !.state = "live"]
<1>1. /\ Working(l) /\ proc' = [proc EXCEPT ![l] = p] /\ events' = events \o <<e, f>>
      /\ UNCHANGED <<row, act, outcome, inflight, mver, phase, cmds>>
  BY DEF WorkerReady, Working, rows, dispatcher, manager
<1>2. e \in GoodEvents /\ f \in GoodEvents /\ events \in Seq(GoodEvents) /\ proc[l] \in ProcTypes
  BY <1>1, EventsGood DEF IInv, Messages, Tables, Working
<1>3. p \in ProcTypes /\ p.state = "live" /\ p.ver = proc[l].ver /\ proc[l].ver \in Nat
  BY <1>2 DEF ProcTypes
<1>4. /\ e.kind = "checkpoint" /\ e.lane = l /\ e.status = "none" /\ f.kind = "ready" /\ f.lane = l
      /\ f.ver = proc[l].ver
  BY DEF Event
<1> HIDE DEF e, f, p
<1>5. Story(<<e, f>>, l, proc[l].ver, p.ver)
  <2>1. Told(e, l, proc[l].ver, proc[l].ver) /\ Told(f, l, proc[l].ver, p.ver)
    BY <1>3, <1>4 DEF Told
  <2> QED
    BY <1>2, <1>3, <2>1, StoryOfTwo
<1> DEFINE s == <<e, f>>
<1>6. s \in Seq(GoodEvents) /\ s # <<>> /\ \A i \in 1 .. Len(s) : s[i] = e \/ s[i] = f
  BY <1>2, TwoEvents
<1> HIDE DEF s
<1>7. ReportsOnce' /\ CommandsOnce'
  <2>1. \A i \in 1 .. Len(s) : s[i].kind # "outcome"
    BY <1>4, <1>6
  <2> QED
    BY <1>1, <1>6, <2>1, SilentWorker DEF s
<1> QED
  BY <1>1, <1>3, <1>4, <1>5, <1>6, <1>7, WorkerAgree DEF s

(* So does a worker that takes a command, whether it applies, refuses or   *)
(* fails it, or stops.                                                     *)
LEMMA AppliesAgree ==
    ASSUME IInv, AgreeInv, Plain, NEW l \in Lanes, NEW how \in {"ok", "raises", "late"}, WorkerApplies(l, how)
    PROVE  AgreeInv'
<1> DEFINE c == Head(cmds[l])
           v == proc[l].ver
<1>1. /\ proc[l].state = "live" /\ cmds[l] # <<>> /\ cmds' = [cmds EXCEPT ![l] = Tail(@)] /\ Working(l)
      /\ UNCHANGED <<row, act, outcome, inflight, mver, phase>>
  BY DEF WorkerApplies, Working, rows, dispatcher, manager
<1>2. c \in CommandsFor(l) /\ c.action \in Actions /\ Targets(c.action, l)
  <2>1. cmds[l] \in Seq(CommandsFor(l))
    BY DEF IInv, Messages
  <2>2. c \in CommandsFor(l)
    BY <1>1, <2>1, HeadTailProperties
  <2> QED
    BY <2>2 DEF CommandsFor, Targets
<1>3. v \in Nat /\ proc[l] \in ProcTypes /\ events \in Seq(GoodEvents) /\ DOMAIN proc = Lanes
  BY <1>1, EventsGood DEF IInv, Messages, Tables
<1>4. PICK w \in Nat, s \in Seq(GoodEvents) :
        /\ proc' = [proc EXCEPT ![l] = [proc[l] EXCEPT !.ver = w]]
        /\ events' = events \o s /\ s # <<>>
        /\ \A i \in 1 .. Len(s) : s[i].lane = l /\ s[i].kind # "exit" /\ (s[i].kind = "outcome" <=> i = Len(s))
        /\ s[Len(s)].lane = l /\ s[Len(s)].action = c.action
        /\ s[Len(s)].status = "applied" => s[Len(s)].ver - 1 = c.expected
        /\ Story(s, l, v, w)
  <2>1. CASE Stale(c, v)
    <3> DEFINE e == Event("outcome", l, v, c.action, "rejected_stale_state")
               s == <<e>>
    <3>1. events' = Append(events, e) /\ proc' = proc
      BY <2>1 DEF WorkerApplies
    <3>2. e \in GoodEvents /\ e.kind = "outcome" /\ e.lane = l /\ e.action = c.action /\ e.ver = v /\ e.status # "applied"
      BY <1>1, <1>2, <1>3, EventsGood DEF Answers, Event
    <3>3. proc' = [proc EXCEPT ![l] = [proc[l] EXCEPT !.ver = v]]
      BY <1>3, <3>1 DEF IInv, Tables, ProcTypes
    <3> HIDE DEF e
    <3>4. s \in Seq(GoodEvents) /\ events' = events \o s /\ Len(s) = 1 /\ s[1] = e
      BY <1>3, <3>1, <3>2, OneEvent
    <3>5. Story(s, l, v, v)
      <4>1. Told(e, l, v, v)
        BY <3>2 DEF Told
      <4> QED
        BY <1>3, <4>1, StoryOfOne
    <3> HIDE DEF s
    <3>6. s # <<>> /\ s[Len(s)] = e /\ \A i \in 1 .. Len(s) : s[i] = e /\ i = Len(s)
      BY LastOfOne DEF s
    <3> QED
      BY <1>3, <3>2, <3>3, <3>4, <3>5, <3>6
  <2>2. CASE ~Stale(c, v)
    <3> DEFINE w == VersionAfter(v, how)
    <3>1. w \in Nat /\ v + 1 \in Nat /\ c.expected = v
      BY <1>3, <2>2 DEF VersionAfter, Stale
    <3>2. proc' = [proc EXCEPT ![l] = [proc[l] EXCEPT !.ver = w]]
      BY <2>2 DEF WorkerApplies
    <3>3. proc'[l].ver = w
      BY <1>3, <3>1, <3>2 DEF ProcTypes
    <3>4. CASE how = "ok"
      <4> DEFINE e == Event("checkpoint", l, v + 1, NoAction, "none")
                 f == Event("outcome", l, v + 1, c.action, "applied")
                 s == <<e, f>>
      <4>1. events' = events \o s /\ w = v + 1
        BY <2>2, <3>4 DEF WorkerApplies, VersionAfter
      <4>2. /\ e \in GoodEvents /\ f \in GoodEvents /\ e.kind = "checkpoint" /\ f.kind = "outcome"
            /\ e.lane = l /\ f.lane = l /\ f.action = c.action /\ f.ver = v + 1 /\ e.status = "none"
            /\ f.status = "applied"
        BY <1>1, <1>2, <3>1, EventsGood DEF Answers, Event
      <4> HIDE DEF e, f, w
      <4>3. Story(s, l, v, w)
        <5>1. Told(e, l, v, v) /\ Told(f, l, v, w)
          BY <1>3, <4>1, <4>2 DEF Told
        <5> QED
          BY <1>3, <3>1, <4>2, <5>1, StoryOfTwo
      <4>4. s \in Seq(GoodEvents) /\ Len(s) = 2 /\ s[1] = e /\ s[2] = f
        BY <4>2, TwoEvents
      <4> HIDE DEF s
      <4>5. s # <<>> /\ s[Len(s)] = f /\ \A i \in 1 .. Len(s) : (s[i] = e /\ i # Len(s)) \/ (s[i] = f /\ i = Len(s))
        BY <4>4
      <4>6. f.ver - 1 = c.expected
        BY <1>3, <3>1, <4>2
      <4> QED
        BY <3>1, <3>2, <4>1, <4>2, <4>3, <4>4, <4>5, <4>6
    <3>5. CASE how # "ok"
      <4> DEFINE e == Event("outcome", l, w, c.action, "failed")
                 s == <<e>>
      <4>0. how = "raises" /\ w = v
        BY <2>2, <3>5 DEF WorkerApplies, Plain, VersionAfter
      <4>1. events' = Append(events, e)
        BY <2>2, <3>3, <3>5 DEF WorkerApplies
      <4>2. e \in GoodEvents /\ e.kind = "outcome" /\ e.lane = l /\ e.action = c.action /\ e.ver = w /\ e.status # "applied"
        BY <1>1, <1>2, <3>1, EventsGood DEF Answers, Event
      <4> HIDE DEF e, w
      <4>3. s \in Seq(GoodEvents) /\ events' = events \o s /\ Len(s) = 1 /\ s[1] = e
        BY <1>3, <4>1, <4>2, OneEvent
      <4>4. Story(s, l, v, w)
        <5>1. Told(e, l, v, w)
          BY <4>0, <4>2 DEF Told
        <5> QED
          BY <1>3, <3>1, <5>1, StoryOfOne
      <4> HIDE DEF s
      <4>5. s # <<>> /\ s[Len(s)] = e /\ \A i \in 1 .. Len(s) : s[i] = e /\ i = Len(s)
        BY LastOfOne DEF s
      <4> QED
        BY <3>1, <3>2, <4>2, <4>3, <4>4, <4>5
    <3> QED
      BY <3>4, <3>5
  <2> QED
    BY <2>1, <2>2
<1> DEFINE p == [proc[l] EXCEPT !.ver = w]
<1>5. p \in ProcTypes /\ p.state = "live" /\ p.ver = w /\ proc' = [proc EXCEPT ![l] = p]
  BY <1>1, <1>3, <1>4 DEF ProcTypes
<1> HIDE DEF p
<1>6. ReportsOnce' /\ CommandsOnce'
  BY <1>1, <1>4, AnsweringWorker
<1> QED
  BY <1>1, <1>4, <1>5, <1>6, WorkerAgree

(* A step that touches no queue keeps the agreement if each lane either    *)
(* keeps its process and versions or is born.                              *)
LEMMA AsideAgree ==
    ASSUME IInv, AgreeInv, UNCHANGED <<events, cmds>>, mver' \in [Lanes -> Nat],
           phase' = "down" <=> phase = "down",
           \A a \in Actions : act[a].kind \in ChangeKinds /\ Under(a) => StaysUnder(a) /\ act'[a] = act[a],
           \A l \in Lanes :
               \/ /\ proc'[l] = proc[l] /\ row'[l].ver = row[l].ver /\ mver'[l] = mver[l]
                  /\ row'[l].state = "absent" => row[l].state = "absent"
                  /\ row'[l].state \in ActiveStates => row[l].state \in ActiveStates
               \/ /\ row[l].state = "absent" /\ proc'[l] = [state |-> "booting", ver |-> 0]
                  /\ row'[l].ver = 0 /\ mver'[l] = 0 /\ phase # "down"
    PROVE  AgreeInv'
<1> DEFINE Born(l) == row[l].state = "absent" /\ proc'[l] = [state |-> "booting", ver |-> 0]
                      /\ row'[l].ver = 0 /\ mver'[l] = 0 /\ phase # "down"
           Kept(l) == /\ proc'[l] = proc[l] /\ row'[l].ver = row[l].ver /\ mver'[l] = mver[l]
                      /\ row'[l].state = "absent" => row[l].state = "absent"
                      /\ row'[l].state \in ActiveStates => row[l].state \in ActiveStates
<1>0. \A l \in Lanes : Kept(l) \/ Born(l)
  OBVIOUS
<1>1. events \in Seq(GoodEvents)
  BY DEF IInv, Messages
<1>2. \A i \in 1 .. Len(events) : events[i] \in GoodEvents
  <2> HIDE DEF GoodEvents
  <2> QED
    BY <1>1
<1>3. \A i \in 1 .. Len(events) :
        /\ events[i].lane \in Lanes /\ row[events[i].lane].state # "absent"
        /\ events[i].kind = "outcome" => events[i].action \in Actions /\ act[events[i].action].kind \in ChangeKinds
  BY <1>2 DEF GoodEvents, EventTypes, Targets
<1>4. \A i \in 1 .. Len(events) : proc'[events[i].lane] = proc[events[i].lane]
  BY <1>0, <1>3
<1>5. Stories'
  <2>1. ASSUME NEW l \in Lanes, proc'[l].state # "none"
        PROVE  Story(events, l, row'[l].ver, proc'[l].ver)
    <3>1. CASE Kept(l)
      BY <2>1, <3>1 DEF AgreeInv, Stories
    <3>2. CASE Born(l)
      <4>1. \A i \in 1 .. Len(events) : events[i].lane # l
        BY <1>3, <3>2
      <4>2. Story(events, l, 0, 0)
        <5> HIDE DEF GoodEvents
        <5> QED
          BY <1>1, <4>1, StoryOfOthers
      <4> QED
        BY <3>2, <4>2
    <3> QED
      BY <1>0, <3>1, <3>2
  <2> QED
    BY <2>1 DEF Stories
<1>6. ManagerKnows'
  BY <1>0 DEF AgreeInv, ManagerKnows
<1>7. NothingQueued'
  BY <1>0 DEF AgreeInv, NothingQueued
<1>8. ReportsOnce'
  <2>1. ASSUME NEW i \in 1 .. Len(events), events[i].kind = "outcome"
        PROVE  /\ StaysUnder(events[i].action)
               /\ events[i].status = "applied" => act'[events[i].action].expected[events[i].lane] = events[i].ver - 1
               /\ \A j \in 1 .. Len(events) :
                    events[j].kind = "outcome" /\ events[j].action = events[i].action => i = j
    BY <1>3, <2>1 DEF AgreeInv, ReportsOnce
  <2> QED
    BY <2>1 DEF ReportsOnce, StaysUnder, Under
<1>9. CommandsOnce'
  <2>1. ASSUME NEW l \in Lanes
        PROVE  Apart(cmds'[l], events')
    BY DEF AgreeInv, CommandsOnce
  <2>2. ASSUME NEW l \in Lanes, NEW k \in 1 .. Len(cmds'[l])
        PROVE  StaysUnder(cmds'[l][k].action) /\ cmds'[l][k].expected = act'[cmds'[l][k].action].expected[l]
    <3>1. cmds[l][k] \in CommandsFor(l)
      <4>1. cmds[l] \in Seq(CommandsFor(l))
        BY DEF IInv, Messages
      <4> HIDE DEF CommandsFor
      <4> QED
        BY <4>1
    <3>2. cmds[l][k].action \in Actions /\ act[cmds[l][k].action].kind \in ChangeKinds
      BY <3>1 DEF CommandsFor, Targets
    <3> QED
      BY <3>2 DEF AgreeInv, CommandsOnce
  <2> QED
    BY <2>1, <2>2 DEF CommandsOnce, StaysUnder, Under
<1>10. EndsSeen'
  BY <1>4 DEF AgreeInv, EndsSeen, Working, ExitAt
<1>11. LanesAlive'
  <2>1. ASSUME NEW l \in Lanes, row'[l].state \in ActiveStates, phase # "down"
        PROVE  proc'[l].state \in {"booting", "live"}
                   \/ \E j \in 1 .. Len(events) : events[j].kind = "exit" /\ events[j].lane = l
    <3>1. CASE Kept(l)
      BY <2>1, <3>1 DEF AgreeInv, LanesAlive, Working, ExitAt
    <3>2. CASE Born(l)
      BY <3>2
    <3> QED
      BY <1>0, <3>1, <3>2
  <2> QED
    BY <2>1 DEF LanesAlive, Working, ExitAt
<1> QED
  BY <1>5, <1>6, <1>7, <1>8, <1>9, <1>10, <1>11 DEF AgreeInv

(* After the end of an attempt there is no worker and no message.          *)
LEMMA DownAgree ==
    ASSUME IInv', GoDown
    PROVE  AgreeInv'
<1>1. /\ events' = <<>> /\ \A l \in Lanes : proc'[l].state = "none" /\ cmds'[l] = <<>> /\ mver'[l] = 0
      /\ mver' \in [Lanes -> Nat] /\ phase' = "down"
  BY DEF GoDown
<1>2. Len(<<>>) = 0 /\ \A i \in 1 .. 0 : FALSE
  OBVIOUS
<1>3. \A l \in Lanes : row'[l].state = "absent" => row'[l].ver = 0
  BY DEF IInv, RowsSound, RowSound
<1>4. ReportsOnce' /\ EndsSeen'
  BY <1>1, <1>2 DEF ReportsOnce, EndsSeen
<1>5. CommandsOnce'
  BY <1>1, <1>2 DEF CommandsOnce, Apart
<1>6. Stories' /\ ManagerKnows' /\ NothingQueued' /\ LanesAlive'
  BY <1>1, <1>3 DEF Stories, ManagerKnows, NothingQueued, LanesAlive
<1> QED
  BY <1>4, <1>5, <1>6 DEF AgreeInv

(* An attempt that begins starts each lane it restores at the version of   *)
(* its row.                                                                *)
LEMMA RecoverAgree ==
    ASSUME IInv, AgreeInv, NEW R \in SUBSET Lanes, Recover(R)
    PROVE  AgreeInv'
<1>1. /\ phase = "down" /\ phase' # "down" /\ UNCHANGED <<events, cmds>>
      /\ row' = [l \in Lanes |->
                 IF row[l].state \notin ActiveStates THEN row[l]
                 ELSE [row[l] EXCEPT !.state = IF l \in R THEN "paused" ELSE "failed"]]
      /\ mver' = [l \in Lanes |-> IF l \in R THEN row[l].ver ELSE 0]
      /\ proc' = [l \in Lanes |-> IF l \in R THEN [state |-> "booting", ver |-> row[l].ver] ELSE proc[l]]
      /\ R \subseteq Restorable
  BY DEF Recover
<1>2. row \in [Lanes -> RowTypes] /\ \A l \in Lanes : row[l].ver \in Nat
  BY DEF IInv, Tables, RowTypes
<1>3. events = <<>> /\ \A l \in Lanes : proc[l].state = "none" /\ cmds[l] = <<>>
  BY <1>1 DEF AgreeInv, NothingQueued
<1>4. /\ \A l \in Lanes : row'[l].ver = row[l].ver
      /\ \A l \in Lanes : row'[l].state \in ActiveStates => l \in R
      /\ \A l \in Lanes : row'[l].state = "absent" => row[l].state = "absent" /\ l \notin R
  BY <1>1, <1>2 DEF ActiveStates, RowTypes, Restorable
<1>5. \A l \in Lanes : row[l].state = "absent" => row[l].ver = 0
  BY DEF IInv, RowsSound, RowSound
<1>6. \A l \in Lanes : IF l \in R THEN proc'[l].state = "booting" /\ proc'[l].ver = row[l].ver
                                  ELSE proc'[l].state = "none"
  BY <1>1, <1>3
<1>7. Stories'
  <2>1. ASSUME NEW l \in Lanes
        PROVE  Story(<<>>, l, row[l].ver, row[l].ver)
    <3>1. <<>> \in Seq(Nat) /\ Len(<<>>) = 0 /\ \A i \in 1 .. 0 : FALSE
      OBVIOUS
    <3> QED
      BY <1>2, <3>1, StoryOfOthers
  <2> QED
    BY <1>1, <1>3, <1>4, <1>6, <2>1 DEF Stories
<1>8. ManagerKnows'
  BY <1>1, <1>2, <1>4, <1>5, <1>6, ZenonT(30) DEF ManagerKnows
<1>9. Len(<<>>) = 0 /\ \A i \in 1 .. 0 : FALSE
  OBVIOUS
<1>10. ReportsOnce' /\ EndsSeen'
  BY <1>1, <1>3, <1>9 DEF ReportsOnce, EndsSeen
<1>11. CommandsOnce'
  BY <1>1, <1>3, <1>9 DEF CommandsOnce, Apart
<1>12. NothingQueued' /\ LanesAlive'
  BY <1>1, <1>4, <1>6 DEF NothingQueued, LanesAlive, Working
<1> QED
  BY <1>7, <1>8, <1>10, <1>11, <1>12 DEF AgreeInv

(* Without reallocations a change names one lane.                          *)
LEMMA ChangeOfOne ==
    ASSUME IInv, Plain, NEW a \in Actions, outcome[a] = "pending", act[a].kind \notin BirthKinds
    PROVE  \E x \in Lanes : act[a].lanes = {x}
<1>1. act[a] \in ActTypes /\ act[a].kind # "none"
  BY DEF IInv, Tables, ActsExist
<1>2. act[a].kind \in {"patch", "stop"}
  BY <1>1, DispatchAssumption DEF ActTypes, BirthKinds, Plain
<1> QED
  BY <1>2 DEF IInv, ActsExist

(* A step that touches neither queues nor lanes keeps the agreement if it  *)
(* settles no change that is under way.                                    *)
LEMMA StillAgree ==
    ASSUME IInv, AgreeInv, UNCHANGED <<events, cmds, mver, proc, row>>, phase' = "down" <=> phase = "down",
           \A a \in Actions : act[a].kind \in ChangeKinds /\ Under(a) => StaysUnder(a) /\ act'[a] = act[a]
    PROVE  AgreeInv'
<1>1. mver' \in [Lanes -> Nat]
  BY DEF AgreeInv, ManagerKnows
<1> QED
  BY <1>1, AsideAgree

(* Committing a decision keeps the agreement.                              *)
LEMMA CommitsAgree ==
    ASSUME IInv, AgreeInv, Commit
    PROVE  AgreeInv'
<1>1. PICK a \in Actions, kind \in {"start", "fork", "patch", "stop", "reallocate"}, S \in SUBSET Lanes :
        \E parent : CommitAs(a, kind, S, parent)
  BY DEF Commit, CommitStart, CommitFork, CommitChange, CommitReallocation
<1>2. /\ outcome[a] = "none" /\ UNCHANGED <<events, cmds, mver, proc, row, phase, inflight>>
      /\ \A b \in Actions : b # a => outcome'[b] = outcome[b] /\ act'[b] = act[b]
  BY <1>1 DEF CommitAs, dispatcher, manager, workers, IInv, Tables
<1>3. \A b \in Actions : Under(b) => StaysUnder(b) /\ act'[b] = act[b]
  BY <1>2 DEF Under, StaysUnder
<1> QED
  BY <1>2, <1>3, StillAgree

(* So does settling an action that expired, or that could not be sent:     *)
(* with one lane nothing was sent before the failure.                      *)
LEMMA SettledAgree ==
    ASSUME IInv, AgreeInv, Plain, NEW a \in Actions,
           DispatchExpired(a) \/ \E sent \in SUBSET Lanes : DispatchChangeFails(a, sent)
    PROVE  AgreeInv'
<1>1. /\ a \notin inflight /\ UNCHANGED <<events, mver, proc, row, act, phase, inflight>>
      /\ \A b \in Actions : b # a => outcome'[b] = outcome[b]
  BY DEF DispatchExpired, DispatchChangeFails, Deliverable, dispatcher, manager, workers, IInv, Tables
<1>2. cmds' = cmds
  <2>1. CASE DispatchExpired(a)
    BY <2>1 DEF DispatchExpired, workers
  <2>2. ASSUME NEW sent \in SUBSET Lanes, DispatchChangeFails(a, sent) PROVE cmds' = cmds
    <3>1. /\ outcome[a] = "pending" /\ act[a].kind \notin BirthKinds /\ Send(a, sent)
          /\ \E l \in act[a].lanes : ~CanSend(l)
          /\ \A l \in sent : l \in act[a].lanes /\ CanSend(l)
      BY <2>2 DEF DispatchChangeFails, Deliverable
    <3>2. PICK x \in Lanes : act[a].lanes = {x}
      BY <3>1, ChangeOfOne
    <3>3. sent = {}
      BY <3>1, <3>2
    <3>4. cmds \in [Lanes -> Seq(CommandTypes)]
      BY DEF IInv, Messages
    <3> HIDE DEF CommandTypes
    <3> QED
      BY <3>1, <3>3, <3>4 DEF Send
  <2> QED
    BY <2>1, <2>2
<1>3. \A b \in Actions : Under(b) => StaysUnder(b) /\ act'[b] = act[b]
  BY <1>1 DEF Under, StaysUnder
<1> QED
  BY <1>1, <1>2, <1>3, StillAgree

(* So does sending a change: its command is the first message about it.    *)
LEMMA ChangeAgree ==
    ASSUME IInv, AgreeInv, Plain, NEW a \in Actions, DispatchChange(a)
    PROVE  AgreeInv'
<1>1. /\ outcome[a] = "pending" /\ a \notin inflight /\ act[a].kind \notin BirthKinds /\ phase # "down"
      /\ Send(a, act[a].lanes) /\ inflight' = inflight \cup {a}
      /\ UNCHANGED <<row, act, outcome, mver, proc, events, phase>>
  BY DEF DispatchChange, Deliverable, rows, manager
<1>2. PICK x \in Lanes : act[a].lanes = {x}
  BY <1>1, ChangeOfOne
<1> DEFINE c == [action |-> a, expected |-> act[a].expected[x], kind |-> act[a].kind]
<1>3. /\ cmds \in [Lanes -> Seq(CommandTypes)]
      /\ cmds' = [l \in Lanes |-> IF l = x THEN Append(cmds[l], c) ELSE cmds[l]]
  <2>1. \A l \in Lanes : l \in act[a].lanes <=> l = x
    BY <1>2
  <2> QED
    BY <1>1, <2>1 DEF Send, IInv, Messages
<1>4. c.action = a /\ c.expected = act[a].expected[x]
  OBVIOUS
<1> HIDE DEF c
<1> DEFINE n == Len(cmds[x])
<1>5. /\ n \in Nat /\ Len(cmds'[x]) = n + 1 /\ cmds'[x][n + 1] = c
      /\ \A k \in 1 .. n : cmds'[x][k] = cmds[x][k]
      /\ \A l \in Lanes : l # x => cmds'[l] = cmds[l]
  <2>1. cmds[x] \in Seq(CommandTypes)
    BY <1>3
  <2>2. cmds'[x] = Append(cmds[x], c)
    BY <1>3
  <2> HIDE DEF CommandTypes
  <2>3. /\ Len(Append(cmds[x], c)) = Len(cmds[x]) + 1 /\ Len(cmds[x]) \in Nat
        /\ Append(cmds[x], c)[Len(cmds[x]) + 1] = c
        /\ \A k \in 1 .. Len(cmds[x]) : Append(cmds[x], c)[k] = cmds[x][k]
    BY <2>1, LenProperties
  <2> QED
    BY <1>3, <2>2, <2>3
<1>6. /\ \A l \in Lanes : \A k \in 1 .. Len(cmds[l]) : cmds[l][k].action # a
      /\ \A i \in 1 .. Len(events) : events[i].kind = "outcome" => events[i].action # a
  BY <1>1 DEF AgreeInv, CommandsOnce, ReportsOnce, Under
<1>7. \A b : Under(b) => StaysUnder(b)
  BY <1>1 DEF Under, StaysUnder
<1>8. CommandsOnce'
  <2>1. ASSUME NEW l \in Lanes
        PROVE  Apart(cmds'[l], events)
    <3>1. Apart(cmds[l], events)
      BY DEF AgreeInv, CommandsOnce
    <3>2. CASE l # x
      BY <1>5, <3>1, <3>2
    <3>3. CASE l = x
      <4>1. \A k \in 1 .. n + 1 : k \in 1 .. n \/ k = n + 1
        BY <1>5
      <4>2. ASSUME NEW k \in 1 .. n + 1, NEW m \in 1 .. n + 1, cmds'[x][m].action = cmds'[x][k].action
            PROVE  m = k
        <5>1. Apart(cmds[x], events)
          BY <3>1, <3>3
        <5>2. CASE k \in 1 .. n /\ m \in 1 .. n
          BY <1>5, <4>2, <5>1, <5>2 DEF Apart
        <5>3. CASE k = n + 1 \/ m = n + 1
          BY <1>4, <1>5, <1>6, <4>1, <4>2, <5>3
        <5> QED
          BY <4>1, <5>2, <5>3
      <4>3. ASSUME NEW k \in 1 .. n + 1, NEW i \in 1 .. Len(events), events[i].kind = "outcome"
            PROVE  events[i].action # cmds'[x][k].action
        <5>1. CASE k \in 1 .. n
          BY <1>5, <3>1, <3>3, <4>3, <5>1 DEF Apart
        <5>2. CASE k = n + 1
          BY <1>4, <1>5, <1>6, <4>3, <5>2
        <5> QED
          BY <4>1, <5>1, <5>2
      <4> QED
        BY <1>5, <3>3, <4>2, <4>3 DEF Apart
    <3> QED
      BY <3>2, <3>3
  <2>2. ASSUME NEW l \in Lanes
        PROVE  Apart(cmds'[l], events')
    BY <1>1, <2>1
  <2>3. ASSUME NEW l \in Lanes, NEW k \in 1 .. Len(cmds'[l])
        PROVE  StaysUnder(cmds'[l][k].action) /\ cmds'[l][k].expected = act'[cmds'[l][k].action].expected[l]
    <3>1. CASE k \in 1 .. Len(cmds[l]) /\ cmds'[l][k] = cmds[l][k]
      BY <1>1, <1>7, <3>1 DEF AgreeInv, CommandsOnce
    <3>2. CASE l = x /\ cmds'[l][k] = c
      BY <1>1, <1>4, <3>2 DEF StaysUnder
    <3>3. l = x => k \in 1 .. n \/ k = n + 1
      BY <1>5
    <3> QED
      BY <1>5, <3>1, <3>2, <3>3
  <2> QED
    BY <2>2, <2>3 DEF CommandsOnce, StaysUnder, Under
<1>9. ReportsOnce'
  <2>1. ASSUME NEW i \in 1 .. Len(events), events[i].kind = "outcome"
        PROVE  /\ StaysUnder(events[i].action)
               /\ events[i].status = "applied" => act[events[i].action].expected[events[i].lane] = events[i].ver - 1
               /\ \A j \in 1 .. Len(events) :
                    events[j].kind = "outcome" /\ events[j].action = events[i].action => i = j
    BY <1>7, <2>1 DEF AgreeInv, ReportsOnce
  <2> QED
    BY <1>1, <2>1 DEF ReportsOnce, StaysUnder, Under
<1>10. Stories' /\ ManagerKnows' /\ NothingQueued' /\ EndsSeen' /\ LanesAlive'
  BY <1>1 DEF AgreeInv, Stories, ManagerKnows, NothingQueued, EndsSeen, LanesAlive, Working, ExitAt
<1> QED
  BY <1>8, <1>9, <1>10 DEF AgreeInv

(* So does starting the lanes of a birth.                                  *)
LEMMA BirthAgree ==
    ASSUME IInv, AgreeInv, NEW a \in Actions, DispatchBirth(a)
    PROVE  AgreeInv'
<1> DEFINE S == act[a].lanes
<1>1. /\ phase # "down" /\ \A l \in S : row[l].state = "absent"
      /\ row' = [l \in Lanes |-> IF l \in S THEN NewRow(a) ELSE row[l]]
      /\ mver' = [l \in Lanes |-> IF l \in S THEN 0 ELSE mver[l]]
      /\ proc' = [l \in Lanes |-> IF l \in S THEN [state |-> "booting", ver |-> 0] ELSE proc[l]]
      /\ inflight' = inflight \cup {a} /\ UNCHANGED <<act, outcome, phase, cmds, events>>
  BY DEF DispatchBirth, BirthPossible, Deliverable
<1>2. mver' \in [Lanes -> Nat]
  BY <1>1 DEF AgreeInv, ManagerKnows
<1>3. \A b \in Actions : Under(b) => StaysUnder(b) /\ act'[b] = act[b]
  BY <1>1 DEF Under, StaysUnder
<1>4. ASSUME NEW l \in Lanes
      PROVE  \/ /\ proc'[l] = proc[l] /\ row'[l] = row[l] /\ mver'[l] = mver[l]
             \/ /\ row[l].state = "absent" /\ proc'[l] = [state |-> "booting", ver |-> 0]
                /\ row'[l].ver = 0 /\ mver'[l] = 0 /\ phase # "down"
  BY <1>1, RowCreated
<1> QED
  BY <1>1, <1>2, <1>3, <1>4, AsideAgree

(* So does a birth that fails: the lanes it made are ended or have never   *)
(* been active.                                                            *)
LEMMA BirthFailsAgree ==
    ASSUME IInv, AgreeInv, NEW a \in Actions, NEW made \in SUBSET Lanes, NEW orphan \in SUBSET Lanes,
           DispatchBirthFails(a, made, orphan)
    PROVE  AgreeInv'
<1> DEFINE N == made \cup orphan
           table == [l \in Lanes |-> IF l \in N THEN NewRow(a) ELSE row[l]]
<1>1. /\ phase # "down" /\ act[a].kind \in BirthKinds /\ row' = BirthFailed(table, a)
      /\ proc' = [l \in Lanes |-> IF l \in made THEN [state |-> "booting", ver |-> 0] ELSE proc[l]]
      /\ outcome' = [outcome EXCEPT ![a] = "failed"]
      /\ UNCHANGED <<act, inflight, mver, phase, cmds, events>>
  BY DEF DispatchBirthFails, Deliverable
<1>2. \A l \in N : row[l].state = "absent"
  <2>1. CASE \/ \E l \in act[a].lanes : row[l].state # "absent"
             \/ act[a].kind = "fork" /\ mgr[act[a].parent] = "none"
    BY <2>1 DEF DispatchBirthFails
  <2>2. CASE ~(\/ \E l \in act[a].lanes : row[l].state # "absent"
               \/ act[a].kind = "fork" /\ mgr[act[a].parent] = "none")
    <3>1. made \subseteq act[a].lanes /\ \E l \in act[a].lanes \ made : orphan = {l}
      BY <2>2 DEF DispatchBirthFails
    <3> QED
      BY <2>2, <3>1
  <2> QED
    BY <2>1, <2>2
<1>3. mver' \in [Lanes -> Nat]
  BY <1>1 DEF AgreeInv, ManagerKnows
<1>4. \A b \in Actions : act[b].kind \in ChangeKinds /\ Under(b) => StaysUnder(b) /\ act'[b] = act[b]
  BY <1>1 DEF Under, StaysUnder, ChangeKinds, BirthKinds, IInv, Tables
<1>5. \A l \in Lanes : table[l] \in RowTypes
  BY RowCreated DEF IInv, Tables
<1>6. \A l \in Lanes : row[l].state = "absent" => row[l].ver = 0 /\ mver[l] = 0
  BY DEF IInv, RowsSound, RowSound, AgreeInv, ManagerKnows
<1>7. ASSUME NEW l \in Lanes
      PROVE  \/ /\ proc'[l] = proc[l] /\ row'[l].ver = row[l].ver /\ mver'[l] = mver[l]
                /\ row'[l].state = "absent" => row[l].state = "absent"
                /\ row'[l].state \in ActiveStates => row[l].state \in ActiveStates
             \/ /\ row[l].state = "absent" /\ proc'[l] = [state |-> "booting", ver |-> 0]
                /\ row'[l].ver = 0 /\ mver'[l] = 0 /\ phase # "down"
  <2>1. row'[l] = IF table[l].by = a /\ table[l].state = "starting"
                  THEN [table[l] EXCEPT !.state = "failed"] ELSE table[l]
    BY <1>1 DEF BirthFailed
  <2>2. /\ row'[l].ver = table[l].ver
        /\ \/ row'[l].state = table[l].state /\ ~(table[l].by = a /\ table[l].state = "starting")
           \/ row'[l].state = "failed"
    BY <1>5, <2>1 DEF RowTypes
  <2>3. table[l] = IF l \in N THEN NewRow(a) ELSE row[l]
    OBVIOUS
  <2> HIDE DEF table
  <2>4. CASE l \in N
    <3>1. table[l].ver = 0 /\ table[l].by = a /\ table[l].state = "starting"
      BY <2>3, <2>4 DEF NewRow
    <3>2. row'[l].ver = 0 /\ row'[l].state = "failed"
      BY <2>2, <3>1
    <3> QED
      BY <1>1, <1>2, <1>6, <2>4, <3>2 DEF ActiveStates
  <2>5. CASE l \notin N
    BY <1>1, <2>2, <2>3, <2>5 DEF ActiveStates
  <2> QED
    BY <2>4, <2>5
<1> QED
  BY <1>1, <1>3, <1>4, <1>7, AsideAgree

(* So does activating the lanes that were restored and have all reported   *)
(* ready.                                                                  *)
LEMMA ActivateAgree ==
    ASSUME IInv, AgreeInv, ActivateRecovered
    PROVE  AgreeInv'
<1>1. /\ phase # "down" /\ phase' # "down" /\ UNCHANGED <<events, cmds, mver, proc, act, inflight, outcome>>
      /\ row' = [l \in Lanes |-> IF l \in restored /\ row[l].state = "paused"
                                 THEN [row[l] EXCEPT !.state = "running"] ELSE row[l]]
  BY DEF ActivateRecovered, manager, workers, dispatcher
<1>2. row \in [Lanes -> RowTypes]
  BY DEF IInv, Tables
<1>3. \A l \in Lanes : /\ row'[l].ver = row[l].ver
                       /\ row'[l].state = row[l].state \/ (row[l].state = "paused" /\ row'[l].state = "running")
  BY <1>1, <1>2 DEF RowTypes
<1>4. mver' \in [Lanes -> Nat]
  BY <1>1 DEF AgreeInv, ManagerKnows
<1>5. \A b \in Actions : Under(b) => StaysUnder(b) /\ act'[b] = act[b]
  BY <1>1 DEF Under, StaysUnder
<1>6. ASSUME NEW l \in Lanes
      PROVE  /\ proc'[l] = proc[l] /\ row'[l].ver = row[l].ver /\ mver'[l] = mver[l]
             /\ row'[l].state = "absent" => row[l].state = "absent"
             /\ row'[l].state \in ActiveStates => row[l].state \in ActiveStates
  BY <1>1, <1>3 DEF ActiveStates
<1> QED
  BY <1>1, <1>4, <1>5, <1>6, AsideAgree

(* Every step keeps the agreement.                                         *)
LEMMA NextAgree ==
    ASSUME Plain, IInv, IInv', AgreeInv, [Next]_vars
    PROVE  AgreeInv'
<1>1. CASE Commit
  BY <1>1, CommitsAgree
<1>2. CASE \E a \in Actions : DispatchExpired(a)
  BY <1>2, SettledAgree
<1>3. CASE Dispatch
  BY <1>3, SettledAgree, ChangeAgree, BirthAgree, BirthFailsAgree DEF Dispatch
<1>4. CASE \E l \in Lanes : WorkerStep(l) \/ WorkerFails(l)
  BY <1>4, StartedAgree, AppliesAgree, EndingAgree DEF WorkerStep
<1>5. CASE Poll
  <2>1. ~HandleAllocation
    <3>1. SUFFICES ASSUME HandleAllocation PROVE FALSE
      OBVIOUS
    <3>2. /\ events # <<>> /\ Head(events).kind = "outcome" /\ act[Head(events).action].kind = "reallocate"
      BY <3>1 DEF HandleAllocation, Polling
    <3>3. Head(events).action \in Actions
      BY <3>2, HeadEvent DEF Targets
    <3>4. act[Head(events).action] \in ActTypes
      BY <3>3 DEF IInv, Tables
    <3> QED
      BY <3>2, <3>4 DEF ActTypes, Plain
  <2> QED
    BY <1>5, <2>1, CheckpointAgree, ReadyAgree, OutcomeAgree, ExitAgree DEF Poll
<1>6. CASE \/ ShutdownEnd \/ Crash
           \/ \E a \in Actions, made \in SUBSET Lanes : CrashInBirth(a, made)
  BY <1>6, DownAgree DEF ShutdownEnd, Crash, CrashInBirth
<1>7. CASE \E R \in SUBSET Lanes : Recover(R)
  BY <1>7, RecoverAgree
<1>8. CASE ActivateRecovered
  BY <1>8, ActivateAgree
<1>9. CASE Shutdown \/ UNCHANGED vars
  <2>1. /\ UNCHANGED <<row, act, outcome, inflight, events, cmds, mver, proc>>
        /\ phase' = "down" <=> phase = "down"
    BY <1>9 DEF Shutdown, BeginDrain, vars, rows, dispatcher, manager, workers
  <2>2. \A b \in Actions : Under(b) => StaysUnder(b) /\ act'[b] = act[b]
    BY <2>1 DEF Under, StaysUnder
  <2> QED
    BY <2>1, <2>2, StillAgree
<1> QED
  BY <1>1, <1>2, <1>3, <1>4, <1>5, <1>6, <1>7, <1>8, <1>9 DEF Next

(* Rows, manager and workers agree at first.                               *)
LEMMA InitAgree ==
    ASSUME Init
    PROVE  AgreeInv
<1>1. /\ events = <<>> /\ phase # "down" /\ mver = [l \in Lanes |-> 0]
      /\ \A l \in Lanes : proc[l].state = "none" /\ cmds[l] = <<>> /\ row[l].state = "absent" /\ row[l].ver = 0
  BY DEF Init
<1>2. Len(<<>>) = 0 /\ \A i \in 1 .. 0 : FALSE
  OBVIOUS
<1>3. ReportsOnce /\ EndsSeen
  BY <1>1, <1>2 DEF ReportsOnce, EndsSeen
<1>4. CommandsOnce
  BY <1>1, <1>2 DEF CommandsOnce, Apart
<1>5. Stories /\ ManagerKnows /\ NothingQueued /\ LanesAlive
  BY <1>1 DEF Stories, ManagerKnows, NothingQueued, LanesAlive, ActiveStates
<1> QED
  BY <1>3, <1>4, <1>5 DEF AgreeInv

(* Without reallocations and lost events, the queued events lead from the  *)
(* version of each row to the version of its worker, each action has one   *)
(* message under way, and every worker works on or is seen to end: for any *)
(* number of lanes, actions, attempts and commands in flight.              *)
THEOREM AgreementHolds == ASSUME Plain PROVE Spec => []AgreeInv
<1>1. Init => IInv /\ AgreeInv
  BY InitInv, InitAgree
<1>2. IInv /\ AgreeInv /\ [Next]_vars => IInv' /\ AgreeInv'
  BY NextInv, NextAgree
<1> QED
  BY <1>1, <1>2, PTL DEF Spec

(* No lane that is to run is left without a worker: its process is at      *)
(* work, or the event of its end is on the way to the coordinator          *)
(* (_handle_events), through births, stops, failures, crashes and          *)
(* recoveries.                                                             *)
THEOREM NoLaneLost == ASSUME Plain PROVE Spec => []NoZombieLane
<1>1. IInv /\ AgreeInv => NoZombieLane
  <2> SUFFICES ASSUME IInv, AgreeInv PROVE NoZombieLane
    OBVIOUS
  <2>2. DOMAIN events = 1 .. Len(events)
    <3>1. events \in Seq(GoodEvents)
      BY DEF IInv, Messages
    <3> HIDE DEF GoodEvents
    <3> QED
      BY <3>1
  <2> QED
    BY <2>2 DEF AgreeInv, LanesAlive, NoZombieLane, Working, ExitAt
<1> QED
  BY <1>1, Invariant, AgreementHolds, PTL

(* A worker with nothing under way has applied exactly the changes its row *)
(* records: no outcome is lost, and none is recorded that the worker has   *)
(* not applied.                                                            *)
THEOREM QuietLanesAgree == ASSUME Plain PROVE Spec => []QuiescentAgreement
<1>1. IInv /\ AgreeInv => QuiescentAgreement
  <2> SUFFICES ASSUME IInv, AgreeInv, NEW l \in Lanes, Quiet(l) PROVE proc[l].ver = row[l].ver
    BY DEF QuiescentAgreement
  <2>2. events \in Seq(GoodEvents) /\ Len(events) \in Nat
    BY LenProperties DEF IInv, Messages
  <2>3. DOMAIN events = 1 .. Len(events)
    <3> HIDE DEF GoodEvents
    <3> QED
      BY <2>2
  <2>4. proc[l].state = "live" /\ \A i \in 1 .. Len(events) : events[i].lane # l
    BY <2>3 DEF Quiet
  <2>5. Story(events, l, row[l].ver, proc[l].ver)
    BY <2>4 DEF AgreeInv, Stories
  <2> HIDE DEF GoodEvents
  <2> QED
    BY <2>2, <2>4, <2>5, SilentStory
<1> QED
  BY <1>1, Invariant, AgreementHolds, PTL

-----------------------------------------------------------------------------
(* Faults: what can make the event pump raise.  First the answers that     *)
(* lanes owe the dispatcher, for every mix of action kinds.                *)

(* An event of q reports that lane l has applied action a.                 *)
Reported(q, a, l) ==
    \E i \in 1 .. Len(q) : q[i].kind = "outcome" /\ q[i].lane = l /\ q[i].action = a /\ q[i].status = "applied"

(* Lane l has applied action a, and the coordinator knows or is about to.  *)
Answered(a, l) == alloc[a][l] = "applied" \/ Reported(events, a, l)

(* It has applied a, and a is not settled: the row is still to move.       *)
Owing(a, l) == Answered(a, l) /\ outcome[a] = "pending"

(* The dispatcher collects the answers to reallocations.                   *)
AnswersKnown ==
    /\ alloc \in [Actions -> [Lanes -> Answers \cup {"none"}]]
    /\ \A a \in Actions, l \in Lanes : alloc[a][l] # "none" => act[a].kind \in ChangeKinds

(* Versions only grow: an action expects one that the row has had, and no  *)
(* worker is behind its row.                                               *)
VersionsGrow ==
    /\ \A a \in Actions, l \in Lanes : act[a].kind # "none" => act[a].expected[l] <= row[l].ver
    /\ \A l \in Lanes : proc[l].state # "none" => row[l].ver <= proc[l].ver
    /\ phase = "down" => \A l \in Lanes : proc[l].state = "none"

(* A command carries what its action expects.                              *)
CommandsTrue ==
    \A l \in Lanes : \A k \in 1 .. Len(cmds[l]) : cmds[l][k].expected = act[cmds[l][k].action].expected[l]

(* What a lane has applied and its row does not show yet is one action, at *)
(* the version of the row.                                                 *)
AnswersCurrent ==
    /\ \A a \in Actions, l \in Lanes : Owing(a, l) =>
        proc[l].state # "none" /\ act[a].expected[l] = row[l].ver /\ row[l].ver < proc[l].ver
    /\ \A a, b \in Actions, l \in Lanes : Owing(a, l) /\ Owing(b, l) => a = b

(* The account of answers.                                                 *)
AnswersInv == AnswersKnown /\ VersionsGrow /\ CommandsTrue /\ AnswersCurrent

-----------------------------------------------------------------------------
(* Steps that apply nothing: no new debts, a row moves when one is settled.*)
NoNewDebts == \A a \in Actions, l \in Lanes : Owing(a, l)' => Owing(a, l) /\ proc'[l].state # "none"

DebtsPaid ==
    \A l \in Lanes :
        \/ row'[l].ver = row[l].ver
        \/ row'[l].ver = row[l].ver + 1 /\ \E a \in Actions : Owing(a, l) /\ ~Owing(a, l)'

WorkersGrow ==
    /\ \A l \in Lanes : proc'[l].state # "none" =>
        \/ proc[l].state # "none" /\ proc[l].ver <= proc'[l].ver
        \/ proc[l].state = "none" /\ proc'[l].ver = row'[l].ver
    /\ phase' = "down" => \A l \in Lanes : proc'[l].state = "none"

(* A step that creates no debt, moves a row only when a debt is settled    *)
(* and moves no worker back keeps the account of answers.                  *)
LEMMA AnswersKept ==
    ASSUME IInv, IInv', AnswersInv, AnswersKnown', CommandsTrue', NoNewDebts, DebtsPaid, WorkersGrow, act' = act
    PROVE  AnswersInv'
<1>1. /\ row \in [Lanes -> RowTypes] /\ row' \in [Lanes -> RowTypes]
      /\ proc \in [Lanes -> ProcTypes] /\ proc' \in [Lanes -> ProcTypes]
      /\ act \in [Actions -> ActTypes]
  BY DEF IInv, Tables
<1>2. /\ \A l \in Lanes : row[l].ver \in Nat /\ row'[l].ver \in Nat /\ proc[l].ver \in Nat /\ proc'[l].ver \in Nat
      /\ \A a \in Actions, l \in Lanes : act[a].expected[l] \in Nat
  BY <1>1 DEF RowTypes, ProcTypes, ActTypes
<1>3. \A l \in Lanes : row[l].ver <= row'[l].ver
  BY <1>2 DEF DebtsPaid
<1>4. \A a \in Actions, l \in Lanes : act'[a].kind # "none" => act'[a].expected[l] <= row'[l].ver
  BY <1>2, <1>3 DEF AnswersInv, VersionsGrow
<1>5. ASSUME NEW l \in Lanes, proc'[l].state # "none"
      PROVE  row'[l].ver <= proc'[l].ver
  <2>1. CASE proc[l].state # "none" /\ proc[l].ver <= proc'[l].ver
    <3>1. row[l].ver <= proc[l].ver
      BY <2>1 DEF AnswersInv, VersionsGrow
    <3>2. ASSUME row'[l].ver # row[l].ver
          PROVE  row'[l].ver = row[l].ver + 1 /\ row[l].ver < proc[l].ver
      BY <3>2 DEF DebtsPaid, AnswersInv, AnswersCurrent
    <3> QED
      BY <1>2, <2>1, <3>1, <3>2
  <2>2. CASE proc'[l].ver = row'[l].ver
    BY <1>2, <2>2
  <2> QED
    BY <1>5, <2>1, <2>2 DEF WorkersGrow
<1>6. VersionsGrow'
  BY <1>4, <1>5 DEF VersionsGrow, WorkersGrow
<1>7. ASSUME NEW a \in Actions, NEW l \in Lanes, Owing(a, l)'
      PROVE  proc'[l].state # "none" /\ act'[a].expected[l] = row'[l].ver /\ row'[l].ver < proc'[l].ver
  <2>1. Owing(a, l) /\ proc'[l].state # "none"
    BY <1>7 DEF NoNewDebts
  <2>2. proc[l].state # "none" /\ act[a].expected[l] = row[l].ver /\ row[l].ver < proc[l].ver
    BY <2>1 DEF AnswersInv, AnswersCurrent
  <2>3. row'[l].ver = row[l].ver
    BY <1>7, <2>1 DEF DebtsPaid, AnswersInv, AnswersCurrent
  <2>4. proc[l].ver <= proc'[l].ver
    BY <2>1, <2>2 DEF WorkersGrow
  <2> QED
    BY <1>2, <2>1, <2>2, <2>3, <2>4
<1>8. \A a, b \in Actions, l \in Lanes : Owing(a, l)' /\ Owing(b, l)' => a = b
  BY DEF NoNewDebts, AnswersInv, AnswersCurrent
<1>9. AnswersCurrent'
  BY <1>7, <1>8 DEF AnswersCurrent
<1> QED
  BY <1>6, <1>9 DEF AnswersInv

(* What the rest of a queue reports, the queue reports.                    *)
LEMMA ReportedTail ==
    ASSUME NEW S, NEW q \in Seq(S), q # <<>>, NEW a, NEW l, Reported(Tail(q), a, l)
    PROVE  Reported(q, a, l)
BY TailIndex DEF Reported

(* What a joined queue reports, one of its parts reports.                  *)
LEMMA ReportedJoined ==
    ASSUME NEW S, NEW q \in Seq(S), NEW s \in Seq(S), NEW a, NEW l, Reported(q \o s, a, l)
    PROVE  Reported(q, a, l) \/ Reported(s, a, l)
<1> DEFINE r == q \o s
<1>1. /\ Len(q) \in Nat /\ Len(s) \in Nat /\ Len(r) = Len(q) + Len(s)
      /\ \A i \in 1 .. Len(q) : i \in 1 .. Len(r) /\ r[i] = q[i]
      /\ \A i \in 1 .. Len(s) : Len(q) + i \in 1 .. Len(r) /\ r[Len(q) + i] = s[i]
      /\ \A k \in 1 .. Len(r) : k \in 1 .. Len(q) \/ \E i \in 1 .. Len(s) : k = Len(q) + i
  BY JoinIndex
<1> HIDE DEF r
<1>2. PICK k \in 1 .. Len(r) : r[k].kind = "outcome" /\ r[k].lane = l /\ r[k].action = a /\ r[k].status = "applied"
  BY DEF Reported, r
<1> QED
  BY <1>1, <1>2 DEF Reported

(* A step on the side of the dispatcher.                                   *)
LEMMA AnswersAside ==
    ASSUME IInv, IInv', AnswersInv, UNCHANGED <<act, alloc, events>>, CommandsTrue',
           \A a \in Actions : outcome'[a] = "pending" => outcome[a] = "pending",
           \A l \in Lanes : row'[l].ver = row[l].ver, WorkersGrow, 
           \A l \in Lanes : proc[l].state # "none" => proc'[l].state # "none"
    PROVE  AnswersInv'
<1>1. AnswersKnown'
  BY DEF AnswersInv, AnswersKnown
<1>2. NoNewDebts
  BY DEF NoNewDebts, Owing, Answered, AnswersInv, AnswersCurrent
<1>3. DebtsPaid
  BY DEF DebtsPaid
<1> QED
  BY <1>1, <1>2, <1>3, AnswersKept

(* What a worker's step leaves in the queue.                               *)
Says(l, s, p) ==
    /\ s \in Seq(GoodEvents) /\ events' = events \o s /\ p \in ProcTypes /\ proc' = [proc EXCEPT ![l] = p]
    /\ \A i \in 1 .. Len(s) : s[i].lane = l
    /\ Working(l) /\ p.state \in {"live", "ended"} /\ proc[l].ver <= p.ver
    /\ proc[l].state = "booting" /\ p.state = "live" => \E i \in 1 .. Len(s) : s[i].kind = "ready"
    /\ \A i \in 1 .. Len(s) : s[i].kind = "outcome" =>
        /\ proc[l].state = "live" /\ cmds[l] # <<>>
        /\ s[i].status = "applied" => /\ s[i].action = Head(cmds[l]).action
                                      /\ Head(cmds[l]).expected = proc[l].ver /\ p.ver = proc[l].ver + 1

(* A worker that stops or fails (_worker_main's exits) says no more than   *)
(* Says allows.                                                            *)
LEMMA EndingSays ==
    ASSUME IInv, NEW l \in Lanes, WorkerStops(l) \/ WorkerFails(l)
    PROVE  \E s, p : Says(l, s, p)
<1> DEFINE p == [proc[l] EXCEPT !.state = "ended"]
<1>1. Working(l) /\ proc[l].state # "none" /\ proc' = [proc EXCEPT ![l] = p]
  BY DEF WorkerStops, WorkerFails, Working
<1>2. proc[l] \in ProcTypes /\ proc[l].ver \in Nat /\ events \in Seq(GoodEvents)
  BY <1>1, EventsGood DEF IInv, Messages
<1>3. p \in ProcTypes /\ p.state = "ended" /\ proc[l].ver <= p.ver
  BY <1>2 DEF ProcTypes
<1>4. PICK e \in GoodEvents : events' = Append(events, e) /\ e.lane = l /\ e.kind = "exit"
  <2>1. CASE WorkerStops(l)
    <3> DEFINE e == Event("exit", l, proc[l].ver, NoAction, "stopped")
    <3>1. e \in GoodEvents /\ e.lane = l /\ e.kind = "exit"
      BY <1>1, <1>2, EventsGood DEF Event
    <3> QED
      BY <2>1, <3>1 DEF WorkerStops
  <2>2. CASE WorkerFails(l)
    <3> DEFINE e == Event("exit", l, 0, NoAction, "failure")
    <3>1. e \in GoodEvents /\ e.lane = l /\ e.kind = "exit"
      BY <1>1, <1>2, EventsGood DEF Event
    <3> QED
      BY <2>2, <3>1 DEF WorkerFails
  <2> QED
    BY <2>1, <2>2
<1> DEFINE s == <<e>>
<1>5. s \in Seq(GoodEvents) /\ events' = events \o s
  BY <1>2, <1>4, OneEvent
<1> HIDE DEF s, p
<1>6. \A i \in 1 .. Len(s) : s[i] = e
  BY LastOfOne DEF s
<1>7. Says(l, s, p)
  BY <1>1, <1>3, <1>4, <1>5, <1>6 DEF Says
<1> QED
  BY <1>7

(* So does a worker that starts: its checkpoint, then its ready event.     *)
LEMMA StartingSays ==
    ASSUME IInv, NEW l \in Lanes, WorkerReady(l)
    PROVE  \E s, p : Says(l, s, p)
<1> DEFINE p == [proc[l] EXCEPT !.state = "live"]
           e == Event("checkpoint", l, proc[l].ver, NoAction, "none")
           f == Event("ready", l, proc[l].ver, NoAction, "none")
           s == <<e, f>>
<1>1. Working(l) /\ proc[l].state = "booting" /\ proc' = [proc EXCEPT ![l] = p] /\ events' = events \o s
  BY DEF WorkerReady, Working
<1>2. proc[l] \in ProcTypes /\ proc[l].ver \in Nat /\ events \in Seq(GoodEvents)
  BY <1>1, EventsGood DEF IInv, Messages
<1>3. p \in ProcTypes /\ p.state = "live" /\ proc[l].ver <= p.ver
  BY <1>2 DEF ProcTypes
<1>4. /\ e \in GoodEvents /\ f \in GoodEvents
      /\ e.lane = l /\ f.lane = l /\ e.kind = "checkpoint" /\ f.kind = "ready"
  BY <1>1, <1>2, EventsGood DEF Event
<1> HIDE DEF e, f
<1>5. s \in Seq(GoodEvents) /\ Len(s) = 2 /\ s[1] = e /\ s[2] = f
  BY <1>4, TwoEvents
<1> HIDE DEF s, p
<1>6. 2 \in 1 .. Len(s) /\ \A i \in 1 .. Len(s) : s[i] = e \/ s[i] = f
  BY <1>5
<1>7. Says(l, s, p)
  BY <1>1, <1>3, <1>4, <1>5, <1>6 DEF Says
<1> QED
  BY <1>7

(* So does a worker that handles a command: at most one applied answer, at *)
(* its next version.                                                       *)
LEMMA AnsweringSays ==
    ASSUME IInv, NEW l \in Lanes, NEW how \in {"ok", "raises", "late"}, WorkerApplies(l, how)
    PROVE  \E s, p : Says(l, s, p)
<1> DEFINE c == Head(cmds[l])
           v == proc[l].ver
<1>1. proc[l].state = "live" /\ cmds[l] # <<>> /\ Working(l)
  BY DEF WorkerApplies, Working
<1>2. c.action \in Actions /\ Targets(c.action, l)
  <2>1. cmds[l] \in Seq(CommandsFor(l))
    BY DEF IInv, Messages
  <2>2. c \in CommandsFor(l)
    BY <1>1, <2>1, HeadTailProperties
  <2> QED
    BY <2>2 DEF CommandsFor, Targets
<1>3. v \in Nat /\ proc[l] \in ProcTypes /\ events \in Seq(GoodEvents) /\ DOMAIN proc = Lanes
  BY <1>1, EventsGood DEF IInv, Messages, Tables
<1>4. CASE Stale(c, v)
  <2> DEFINE e == Event("outcome", l, v, c.action, "rejected_stale_state")
             s == <<e>>
             p == proc[l]
  <2>1. events' = Append(events, e) /\ proc' = proc
    BY <1>4 DEF WorkerApplies
  <2>2. e \in GoodEvents /\ e.kind = "outcome" /\ e.lane = l /\ e.status # "applied"
    BY <1>1, <1>2, <1>3, EventsGood DEF Answers, Event
  <2>3. proc' = [proc EXCEPT ![l] = p]
    BY <1>3, <2>1 DEF IInv, Tables
  <2> HIDE DEF e
  <2>4. s \in Seq(GoodEvents) /\ events' = events \o s
    BY <1>3, <2>1, <2>2, OneEvent
  <2> HIDE DEF s
  <2>5. \A i \in 1 .. Len(s) : s[i] = e
    BY LastOfOne DEF s
  <2>6. Says(l, s, p)
    BY <1>1, <1>3, <2>2, <2>3, <2>4, <2>5 DEF Says
  <2> QED
    BY <2>6
<1>5. CASE ~Stale(c, v)
  <2> DEFINE w == VersionAfter(v, how)
             p == [proc[l] EXCEPT !.ver = w]
  <2>1. w \in Nat /\ v + 1 \in Nat /\ v <= w /\ c.expected = v
    BY <1>3, <1>5 DEF VersionAfter, Stale
  <2>2. proc' = [proc EXCEPT ![l] = p]
    BY <1>5 DEF WorkerApplies
  <2>3. p \in ProcTypes /\ p.ver = w /\ p.state = "live" /\ proc'[l].ver = w
    BY <1>1, <1>3, <2>1, <2>2 DEF ProcTypes
  <2> HIDE DEF p
  <2>4. CASE how = "ok"
    <3> DEFINE e == Event("checkpoint", l, v + 1, NoAction, "none")
               f == Event("outcome", l, v + 1, c.action, "applied")
               s == <<e, f>>
    <3>1. events' = events \o s /\ w = v + 1
      BY <1>5, <2>4 DEF WorkerApplies, VersionAfter
    <3>2. /\ e \in GoodEvents /\ f \in GoodEvents /\ e.kind = "checkpoint" /\ f.kind = "outcome"
          /\ e.lane = l /\ f.lane = l /\ f.action = c.action
      BY <1>1, <1>2, <2>1, EventsGood DEF Answers, Event
    <3> HIDE DEF e, f, w
    <3>3. s \in Seq(GoodEvents) /\ Len(s) = 2 /\ s[1] = e /\ s[2] = f
      BY <3>2, TwoEvents
    <3> HIDE DEF s
    <3>4. \A i \in 1 .. Len(s) : s[i] = e \/ s[i] = f
      BY <3>3
    <3>5. Says(l, s, p)
      BY <1>1, <1>3, <2>1, <2>2, <2>3, <3>1, <3>2, <3>3, <3>4 DEF Says
    <3> QED
      BY <3>5
  <2>5. CASE how # "ok"
    <3> DEFINE e == Event("outcome", l, w, c.action, "failed")
               s == <<e>>
    <3>1. events' = Append(events, e)
      BY <1>5, <2>3, <2>5 DEF WorkerApplies
    <3>2. e \in GoodEvents /\ e.kind = "outcome" /\ e.lane = l /\ e.status # "applied"
      BY <1>1, <1>2, <2>1, EventsGood DEF Answers, Event
    <3> HIDE DEF e, w
    <3>3. s \in Seq(GoodEvents) /\ events' = events \o s
      BY <1>3, <3>1, <3>2, OneEvent
    <3> HIDE DEF s
    <3>4. \A i \in 1 .. Len(s) : s[i] = e
      BY LastOfOne DEF s
    <3>5. Says(l, s, p)
      BY <1>1, <1>3, <2>1, <2>2, <2>3, <3>2, <3>3, <3>4 DEF Says
    <3> QED
      BY <3>5
  <2> QED
    BY <2>4, <2>5
<1> QED
  BY <1>4, <1>5

(* Says covers every step of a worker.                                     *)
LEMMA WorkerSays ==
    ASSUME IInv, NEW l \in Lanes, WorkerStep(l) \/ WorkerFails(l)
    PROVE  \E s, p : Says(l, s, p)
BY EndingSays, StartingSays, AnsweringSays DEF WorkerStep

(* A queued command belongs to a committed change of its lane.             *)
LEMMA CommandKnown ==
    ASSUME IInv, NEW l \in Lanes
    PROVE  /\ cmds[l] \in Seq(CommandsFor(l))
           /\ \A k \in 1 .. Len(cmds[l]) : cmds[l][k].action \in Actions /\ act[cmds[l][k].action].kind \in ChangeKinds
<1>1. cmds[l] \in Seq(CommandsFor(l))
  BY DEF IInv, Messages
<1>2. \A k \in 1 .. Len(cmds[l]) : cmds[l][k] \in CommandsFor(l)
  <2> HIDE DEF CommandsFor
  <2> QED
    BY <1>1
<1> QED
  BY <1>1, <1>2 DEF CommandsFor, Targets

(* A report names an action that targets the lane.                         *)
LEMMA ReportKnown ==
    ASSUME IInv, NEW a, NEW l, Reported(events, a, l)
    PROVE  Targets(a, l)
<1>1. PICK i \in 1 .. Len(events) : events[i].kind = "outcome" /\ events[i].lane = l /\ events[i].action = a
  BY DEF Reported
<1>2. events[i] \in GoodEvents
  <2>1. events \in Seq(GoodEvents)
    BY DEF IInv, Messages
  <2> HIDE DEF GoodEvents
  <2> QED
    BY <2>1
<1> QED
  BY <1>1, <1>2 DEF GoodEvents

(* A worker applies a command only at the version it expects, and the      *)
(* worker is ahead of its row while another answer is owed: so the new     *)
(* answer is the only one.                                                 *)
LEMMA AnswersWorker ==
    ASSUME IInv, IInv', AnswersInv, NEW l \in Lanes, WorkerStep(l) \/ WorkerFails(l)
    PROVE  AnswersInv'
<1>1. PICK s, p : Says(l, s, p)
  BY WorkerSays
<1>2. UNCHANGED <<row, act, outcome, alloc, phase>> /\ proc[l].state # "none" /\ p.state # "none"
  BY <1>1 DEF WorkerStep, WorkerReady, WorkerApplies, WorkerStops, WorkerFails, rows, dispatcher, Says, Working
<1>3. cmds' = cmds \/ (cmds[l] # <<>> /\ cmds' = [cmds EXCEPT ![l] = Tail(@)])
  BY DEF WorkerStep, WorkerReady, WorkerApplies, WorkerStops, WorkerFails
<1>4. /\ \A m \in Lanes : row[m].ver \in Nat /\ proc[m].ver \in Nat
      /\ p.ver \in Nat /\ proc[l].ver <= p.ver
      /\ \A a \in Actions, m \in Lanes : act[a].expected[m] \in Nat
      /\ proc'[l] = p /\ \A m \in Lanes : m # l => proc'[m] = proc[m]
  BY <1>1 DEF Says, IInv, Tables, RowTypes, ProcTypes, ActTypes
<1>5. AnswersKnown'
  BY <1>2 DEF AnswersInv, AnswersKnown
<1>6. VersionsGrow'
  BY <1>2, <1>4 DEF AnswersInv, VersionsGrow
<1>7. CommandsTrue'
  <2>1. CASE cmds' = cmds
    BY <1>2, <2>1 DEF AnswersInv, CommandsTrue
  <2>2. CASE cmds[l] # <<>> /\ cmds' = [cmds EXCEPT ![l] = Tail(@)]
    <3>1. /\ \A k \in 1 .. Len(Tail(cmds[l])) : Tail(cmds[l])[k] = cmds[l][k + 1] /\ k + 1 \in 1 .. Len(cmds[l])
          /\ DOMAIN cmds = Lanes
      BY <2>2, TailIndex, CommandKnown DEF IInv, Messages
    <3>2. cmds'[l] = Tail(cmds[l]) /\ \A m \in Lanes : m # l => cmds'[m] = cmds[m]
      BY <2>2, <3>1
    <3>3. ASSUME NEW m \in Lanes, NEW k \in 1 .. Len(cmds'[m])
          PROVE  cmds'[m][k].expected = act'[cmds'[m][k].action].expected[m]
      <4>1. CASE m = l
        <5>1. k + 1 \in 1 .. Len(cmds[l]) /\ cmds'[m][k] = cmds[l][k + 1]
          BY <3>1, <3>2, <4>1
        <5>2. cmds[l][k + 1].expected = act[cmds[l][k + 1].action].expected[l]
          BY <5>1 DEF AnswersInv, CommandsTrue
        <5> QED
          BY <1>2, <4>1, <5>1, <5>2
      <4>2. CASE m # l
        BY <1>2, <3>2, <4>2 DEF AnswersInv, CommandsTrue
      <4> QED
        BY <4>1, <4>2
    <3> QED
      BY <3>3 DEF CommandsTrue
  <2> QED
    BY <1>3, <2>1, <2>2
<1>8. ASSUME NEW a \in Actions, NEW m \in Lanes, Owing(a, m)', ~Owing(a, m)
      PROVE  /\ m = l /\ a = Head(cmds[l]).action
             /\ act[a].expected[m] = row[m].ver /\ row[m].ver = proc[m].ver /\ p.ver = proc[l].ver + 1
  <2>1. Reported(events \o s, a, m) /\ ~Reported(events, a, m)
    BY <1>1, <1>2, <1>8 DEF Owing, Answered, Says
  <2>2. Reported(s, a, m)
    <3>1. events \in Seq(GoodEvents) /\ s \in Seq(GoodEvents)
      BY <1>1 DEF Says, IInv, Messages
    <3> HIDE DEF GoodEvents
    <3> QED
      BY <2>1, <3>1, ReportedJoined
  <2>3. PICK i \in 1 .. Len(s) : s[i].kind = "outcome" /\ s[i].lane = m /\ s[i].action = a /\ s[i].status = "applied"
    BY <2>2 DEF Reported
  <2>4. /\ m = l /\ cmds[l] # <<>> /\ a = Head(cmds[l]).action
        /\ Head(cmds[l]).expected = proc[l].ver /\ p.ver = proc[l].ver + 1
    BY <1>1, <2>3 DEF Says
  <2>5. Head(cmds[l]) = cmds[l][1] /\ 1 \in 1 .. Len(cmds[l])
    BY <2>4, TailIndex, CommandKnown
  <2>6. act[a].expected[l] = proc[l].ver /\ act[a].kind # "none"
    BY <2>4, <2>5, CommandKnown DEF AnswersInv, CommandsTrue, ChangeKinds
  <2>7. act[a].expected[l] <= row[l].ver /\ row[l].ver <= proc[l].ver
    BY <1>2, <2>6 DEF AnswersInv, VersionsGrow
  <2>8. row[l].ver = proc[l].ver
    BY <1>4, <2>6, <2>7
  <2> QED
    BY <2>4, <2>6, <2>8
<1>9. \A a \in Actions, m \in Lanes : Owing(a, m) =>
        proc[m].state # "none" /\ act[a].expected[m] = row[m].ver /\ row[m].ver < proc[m].ver
  BY DEF AnswersInv, AnswersCurrent
<1>10. ASSUME NEW a \in Actions, NEW m \in Lanes, Owing(a, m)'
       PROVE  proc'[m].state # "none" /\ act'[a].expected[m] = row'[m].ver /\ row'[m].ver < proc'[m].ver
  <2>1. CASE Owing(a, m)
    BY <1>2, <1>4, <1>9, <2>1
  <2>2. CASE ~Owing(a, m)
    BY <1>2, <1>4, <1>8, <1>10, <2>2
  <2> QED
    BY <2>1, <2>2
<1>11. ASSUME NEW a \in Actions, NEW b \in Actions, NEW m \in Lanes, Owing(a, m)', Owing(b, m)'
       PROVE  a = b
  <2>1. CASE Owing(a, m) /\ Owing(b, m)
    BY <2>1 DEF AnswersInv, AnswersCurrent
  <2>2. CASE ~Owing(a, m) /\ ~Owing(b, m)
    BY <1>8, <1>11, <2>2
  <2>3. CASE ~Owing(a, m) /\ Owing(b, m)
    BY <1>4, <1>8, <1>9, <1>11, <2>3
  <2>4. CASE Owing(a, m) /\ ~Owing(b, m)
    BY <1>4, <1>8, <1>9, <1>11, <2>4
  <2> QED
    BY <2>1, <2>2, <2>3, <2>4
<1>12. AnswersCurrent'
  BY <1>10, <1>11 DEF AnswersCurrent
<1> QED
  BY <1>5, <1>6, <1>7, <1>12 DEF AnswersInv

(* A new action (commit_decision_batch) is owed no answer yet.             *)
LEMMA AnswersCommit ==
    ASSUME IInv, AnswersInv, NEW a \in Actions, NEW kind, NEW S \in SUBSET Lanes, NEW parent,
           CommitAs(a, kind, S, parent)
    PROVE  AnswersInv'
<1> DEFINE new == [kind |-> kind, lanes |-> S, parent |-> parent, expected |-> [l \in Lanes |-> row[l].ver]]
<1>1. /\ outcome[a] = "none" /\ act' = [act EXCEPT ![a] = new] /\ outcome' = [outcome EXCEPT ![a] = "pending"]
      /\ UNCHANGED <<row, alloc, events, phase, proc, cmds>>
  BY DEF CommitAs, dispatcher, manager, workers
<1>2. act[a].kind = "none" /\ act \in [Actions -> ActTypes] /\ outcome \in [Actions -> Outcomes]
  BY <1>1 DEF IInv, ActsExist, Tables
<1>3. \A l \in Lanes : new.expected[l] = row[l].ver
  OBVIOUS
<1> HIDE DEF new
<1>4. /\ act'[a] = new /\ outcome'[a] = "pending"
      /\ \A b \in Actions : b # a => act'[b] = act[b] /\ outcome'[b] = outcome[b]
  BY <1>1, <1>2
<1>5. \A l \in Lanes : ~Answered(a, l) /\ alloc[a][l] = "none"
  BY <1>2, ReportKnown DEF Answered, AnswersInv, AnswersKnown, Targets, ChangeKinds
<1>6. \A b \in Actions, l \in Lanes : Owing(b, l)' => Owing(b, l) /\ b # a
  BY <1>1, <1>4, <1>5 DEF Owing, Answered
<1>7. AnswersKnown'
  BY <1>1, <1>4, <1>5 DEF AnswersInv, AnswersKnown
<1>8. VersionsGrow'
  <2>1. \A l \in Lanes : row[l].ver \in Nat
    BY DEF IInv, Tables, RowTypes
  <2> QED
    BY <1>1, <1>3, <1>4, <2>1 DEF AnswersInv, VersionsGrow
<1>9. CommandsTrue'
  <2>1. ASSUME NEW l \in Lanes, NEW k \in 1 .. Len(cmds[l])
        PROVE  cmds[l][k].action # a /\ cmds[l][k].action \in Actions
    BY <1>2, CommandKnown DEF ChangeKinds
  <2> QED
    BY <1>1, <1>4, <2>1 DEF AnswersInv, CommandsTrue
<1>10. AnswersCurrent'
  BY <1>1, <1>4, <1>6 DEF AnswersInv, AnswersCurrent
<1> QED
  BY <1>7, <1>8, <1>9, <1>10 DEF AnswersInv

(* All commits.                                                            *)
LEMMA AnswersCommits ==
    ASSUME IInv, AnswersInv, Commit
    PROVE  AnswersInv'
<1>1. PICK a \in Actions :
        \/ \E l \in Lanes : CommitStart(a, l)
        \/ \E p \in Lanes, S \in SUBSET Lanes : CommitFork(a, p, S)
        \/ \E l \in Lanes, kind \in {"patch", "stop"} : CommitChange(a, kind, l)
        \/ \E S \in SUBSET Lanes : CommitReallocation(a, S)
  BY DEF Commit
<1> QED
  BY <1>1, AnswersCommit DEF CommitStart, CommitFork, CommitChange, CommitReallocation

(* The dispatcher sends the version that the action expects.               *)
LEMMA AnswersSend ==
    ASSUME IInv, AnswersInv, NEW a \in Actions, NEW S \in SUBSET Lanes, Send(a, S), act' = act
    PROVE  CommandsTrue'
<1>1. ASSUME NEW l \in Lanes, NEW k \in 1 .. Len(cmds'[l])
      PROVE  cmds'[l][k].expected = act[cmds'[l][k].action].expected[l]
  <2> DEFINE c == [action |-> a, expected |-> act[a].expected[l], kind |-> act[a].kind]
  <2>1. cmds'[l] = cmds[l] \/ cmds'[l] = Append(cmds[l], c)
    BY DEF Send
  <2>2. c.action = a /\ c.expected = act[a].expected[l]
    OBVIOUS
  <2>3. cmds[l] \in Seq(CommandTypes) /\ Len(cmds[l]) \in Nat
    BY LenProperties DEF IInv, Messages
  <2> HIDE DEF c
  <2>4. (k \in 1 .. Len(cmds[l]) /\ cmds'[l][k] = cmds[l][k]) \/ cmds'[l][k] = c
    <3>1. CASE cmds'[l] = cmds[l]
      BY <3>1
    <3>2. CASE cmds'[l] = Append(cmds[l], c)
      <4>1. Len(cmds'[l]) = Len(cmds[l]) + 1 /\ cmds'[l][Len(cmds[l]) + 1] = c
            /\ \A j \in 1 .. Len(cmds[l]) : cmds'[l][j] = cmds[l][j]
        BY <2>3, <3>2, AppendProperties
      <4>2. k \in 1 .. Len(cmds[l]) \/ k = Len(cmds[l]) + 1
        BY <2>3, <4>1
      <4> QED
        BY <4>1, <4>2
    <3> QED
      BY <2>1, <3>1, <3>2
  <2> QED
    BY <2>2, <2>4 DEF AnswersInv, CommandsTrue
<1> QED
  BY <1>1 DEF CommandsTrue

(* Dispatching a change, its expiry and its failure.                       *)
LEMMA AnswersDispatch ==
    ASSUME IInv, IInv', AnswersInv, NEW a \in Actions,
           \/ DispatchExpired(a) \/ DispatchChange(a)
           \/ \E sent \in SUBSET Lanes : DispatchChangeFails(a, sent)
    PROVE  AnswersInv'
<1>1. /\ UNCHANGED <<row, act, alloc, events, proc, phase>> /\ phase # "down"
      /\ \A b \in Actions : outcome'[b] = "pending" => outcome[b] = "pending"
  BY DEF DispatchExpired, DispatchChange, DispatchChangeFails, rows, dispatcher, workers, Deliverable, IInv, Tables
<1>2. CommandsTrue'
  <2>1. CASE DispatchExpired(a)
    BY <1>1, <2>1 DEF DispatchExpired, workers, AnswersInv, CommandsTrue
  <2>2. CASE DispatchChange(a)
    BY <1>1, <2>2, AnswersSend DEF DispatchChange, IInv, Tables, ActTypes
  <2>3. ASSUME NEW sent \in SUBSET Lanes, DispatchChangeFails(a, sent) PROVE CommandsTrue'
    BY <1>1, <2>3, AnswersSend DEF DispatchChangeFails
  <2> QED
    BY <2>1, <2>2, <2>3
<1>3. WorkersGrow
  BY <1>1 DEF WorkersGrow, IInv, Tables, ProcTypes
<1> QED
  BY <1>1, <1>2, <1>3, AnswersAside

(* _start and _fork.                                                       *)
LEMMA AnswersBirth ==
    ASSUME IInv, IInv', AnswersInv, NEW a \in Actions, DispatchBirth(a)
    PROVE  AnswersInv'
<1>1. /\ UNCHANGED <<act, outcome, alloc, events, cmds, phase>> /\ phase # "down"
      /\ row' = [l \in Lanes |-> IF l \in act[a].lanes THEN NewRow(a) ELSE row[l]]
      /\ proc' = [l \in Lanes |-> IF l \in act[a].lanes THEN [state |-> "booting", ver |-> 0] ELSE proc[l]]
      /\ \A l \in act[a].lanes : row[l].state = "absent"
  BY DEF DispatchBirth, Deliverable, BirthPossible
<1>2. CommandsTrue'
  BY <1>1 DEF AnswersInv, CommandsTrue
<1>3. \A l \in Lanes :
        \/ l \notin act[a].lanes /\ row'[l] = row[l] /\ proc'[l] = proc[l]
        \/ /\ row'[l].ver = 0 /\ proc'[l].ver = 0 /\ proc'[l].state = "booting"
           /\ row[l].ver = 0 /\ proc[l].state = "none"
  BY <1>1 DEF NewRow, IInv, RowsSound, RowSound
<1>4. WorkersGrow
  BY <1>1, <1>3 DEF WorkersGrow, IInv, Tables, ProcTypes
<1> QED
  BY <1>1, <1>2, <1>3, <1>4, AnswersAside

(* A failing _start or _fork.                                              *)
LEMMA AnswersBirthFails ==
    ASSUME IInv, IInv', AnswersInv, NEW a \in Actions, NEW made \in SUBSET Lanes, NEW orphan \in SUBSET Lanes,
           DispatchBirthFails(a, made, orphan)
    PROVE  AnswersInv'
<1> DEFINE N == made \cup orphan
           table == [l \in Lanes |-> IF l \in N THEN NewRow(a) ELSE row[l]]
<1>1. /\ UNCHANGED <<act, alloc, events, cmds, phase>> /\ phase # "down"
      /\ row' = BirthFailed(table, a) /\ outcome' = [outcome EXCEPT ![a] = "failed"]
      /\ proc' = [l \in Lanes |-> IF l \in made THEN [state |-> "booting", ver |-> 0] ELSE proc[l]]
  BY DEF DispatchBirthFails, Deliverable
<1>2. \A l \in N : row[l].state = "absent"
  <2>1. CASE \/ \E l \in act[a].lanes : row[l].state # "absent"
             \/ act[a].kind = "fork" /\ mgr[act[a].parent] = "none"
    BY <2>1 DEF DispatchBirthFails
  <2>2. CASE ~(\/ \E l \in act[a].lanes : row[l].state # "absent"
               \/ act[a].kind = "fork" /\ mgr[act[a].parent] = "none")
    <3>1. made \subseteq act[a].lanes /\ \E l \in act[a].lanes \ made : orphan = {l}
      BY <2>2 DEF DispatchBirthFails
    <3> QED
      BY <2>2, <3>1
  <2> QED
    BY <2>1, <2>2
<1>3. ASSUME NEW l \in Lanes
      PROVE  row'[l].ver = row[l].ver
  <2>1. table[l] = IF l \in N THEN NewRow(a) ELSE row[l]
    OBVIOUS
  <2>2. table[l] \in RowTypes /\ table[l].ver = row[l].ver
    <3>1. CASE l \in N
      BY <1>2, <2>1, <3>1, RowCreated DEF IInv, RowsSound, RowSound
    <3>2. CASE l \notin N
      BY <2>1, <3>2 DEF IInv, Tables
    <3> QED
      BY <3>1, <3>2
  <2>3. row'[l] = IF table[l].by = a /\ table[l].state = "starting"
                  THEN [table[l] EXCEPT !.state = "failed"] ELSE table[l]
    BY <1>1 DEF BirthFailed
  <2> HIDE DEF table
  <2> QED
    BY <2>2, <2>3 DEF RowTypes
<1>4. \A l \in made : row[l].ver = 0 /\ proc[l].state = "none"
  BY <1>2 DEF IInv, RowsSound, RowSound
<1>5. CommandsTrue'
  BY <1>1 DEF AnswersInv, CommandsTrue
<1> HIDE DEF table
<1>6. \A l \in Lanes : \/ proc'[l] = proc[l] 
                       \/ l \in made /\ proc'[l].ver = 0 /\ proc'[l].state = "booting"
  BY <1>1
<1>7. WorkersGrow
  BY <1>1, <1>3, <1>4, <1>6 DEF WorkersGrow, IInv, Tables, ProcTypes
<1>8. \A b \in Actions : outcome'[b] = "pending" => outcome[b] = "pending"
  BY <1>1 DEF IInv, Tables
<1> QED
  BY <1>1, <1>3, <1>4, <1>5, <1>6, <1>7, <1>8, AnswersAside

(* The end of a coordinator forgets answers and workers.                   *)
LEMMA AnswersDown ==
    ASSUME IInv, IInv', AnswersInv, GoDown, act' = act, \A l \in Lanes : row'[l].ver = row[l].ver
    PROVE  AnswersInv'
<1>1. /\ events' = <<>> /\ Len(events') = 0 /\ \A a \in Actions, l \in Lanes : alloc'[a][l] = "none"
      /\ alloc' = [a \in Actions |-> [l \in Lanes |-> "none"]]
      /\ \A l \in Lanes : proc'[l].state = "none" /\ cmds'[l] = <<>> /\ Len(cmds'[l]) = 0
  BY DEF GoDown
<1>2. AnswersKnown' /\ CommandsTrue'
  BY <1>1 DEF AnswersKnown, CommandsTrue
<1>3. NoNewDebts /\ WorkersGrow /\ DebtsPaid
  BY <1>1 DEF NoNewDebts, WorkersGrow, DebtsPaid, Owing, Answered, Reported
<1> QED
  BY <1>2, <1>3, AnswersKept

(* Shutdown's end and crashes.                                             *)
LEMMA AnswersEnd ==
    ASSUME IInv, IInv', AnswersInv, \/ ShutdownEnd \/ Crash
                                    \/ \E a \in Actions, made \in SUBSET Lanes : CrashInBirth(a, made)
    PROVE  AnswersInv'
<1>1. CASE Crash
  BY <1>1, AnswersDown DEF Crash, rows
<1>2. CASE ShutdownEnd
  <2>1. \A l \in Lanes : row'[l].ver = row[l].ver
    BY <1>2 DEF ShutdownEnd, IInv, Tables, RowTypes
  <2> QED
    BY <1>2, <2>1, AnswersDown DEF ShutdownEnd
<1>3. ASSUME NEW a \in Actions, NEW made \in SUBSET Lanes, CrashInBirth(a, made) PROVE AnswersInv'
  <2>1. \A l \in made : row[l].state = "absent"
    BY <1>3 DEF CrashInBirth, BirthPossible
  <2>2. \A l \in Lanes : row'[l].ver = row[l].ver
    BY <1>3, <2>1 DEF CrashInBirth, NewRow, IInv, RowsSound, RowSound
  <2> QED
    BY <1>3, <2>2, AnswersDown DEF CrashInBirth
<1> QED
  BY <1>1, <1>2, <1>3

(* recover starts workers at the versions of their rows.                   *)
LEMMA AnswersRecover ==
    ASSUME IInv, IInv', AnswersInv, NEW R \in SUBSET Lanes, Recover(R)
    PROVE  AnswersInv'
<1>1. /\ UNCHANGED <<act, outcome, alloc, events, cmds>> /\ phase = "down" /\ phase' # "down"
      /\ \A l \in Lanes : proc[l].state = "none"
  BY DEF Recover, dispatcher, AnswersInv, VersionsGrow
<1>2. \A l \in Lanes : row'[l].ver = row[l].ver
  BY DEF Recover, IInv, Tables, RowTypes
<1>3. \A l \in Lanes : proc'[l] = proc[l] \/ proc'[l].ver = row[l].ver
  BY DEF Recover
<1>4. WorkersGrow
  BY <1>1, <1>2, <1>3 DEF WorkersGrow
<1>5. CommandsTrue'
  BY <1>1 DEF AnswersInv, CommandsTrue
<1> QED
  BY <1>1, <1>2, <1>4, <1>5, AnswersAside

(* Steps beside the answers.                                               *)
LEMMA AnswersOther ==
    ASSUME IInv, IInv', AnswersInv, ActivateRecovered \/ Shutdown \/ UNCHANGED vars
    PROVE  AnswersInv'
<1>1. /\ UNCHANGED <<act, outcome, alloc, events, cmds, proc>> /\ (phase' = phase \/ phase' # "down")
      /\ \A l \in Lanes : row'[l].ver = row[l].ver
  <2>1. CASE ActivateRecovered
    BY <2>1 DEF ActivateRecovered, dispatcher, workers, IInv, Tables, RowTypes
  <2>2. CASE Shutdown \/ UNCHANGED vars
    BY <2>2 DEF Shutdown, BeginDrain, vars, rows, dispatcher, workers
  <2> QED
    BY <2>1, <2>2
<1>2. CommandsTrue'
  BY <1>1 DEF AnswersInv, CommandsTrue
<1>3. WorkersGrow
  BY <1>1 DEF WorkersGrow, AnswersInv, VersionsGrow, IInv, Tables, ProcTypes
<1> QED
  BY <1>1, <1>2, <1>3, AnswersAside

(* The event being handled is a report of the queue.                       *)
LEMMA HeadReported ==
    ASSUME IInv, events # <<>>, Head(events).kind = "outcome", Head(events).status = "applied"
    PROVE  Reported(events, Head(events).action, Head(events).lane)
<1>1. Head(events) = events[1] /\ 1 \in 1 .. Len(events)
  <2>1. events \in Seq(GoodEvents)
    BY DEF IInv, Messages
  <2> HIDE DEF GoodEvents
  <2> QED
    BY <2>1, TailIndex
<1> QED
  BY <1>1 DEF Reported

(* Handling an event adds no report.                                       *)
LEMMA TailReported ==
    ASSUME IInv, events # <<>>, events' = Tail(events)
    PROVE  \A a \in Actions, l \in Lanes : Reported(events, a, l)' => Reported(events, a, l)
<1>1. events \in Seq(GoodEvents)
  BY DEF IInv, Messages
<1> HIDE DEF GoodEvents
<1>2. \A a \in Actions, l \in Lanes : Reported(Tail(events), a, l) => Reported(events, a, l)
  BY <1>1, ReportedTail
<1> QED
  BY <1>2 DEF Reported

(* Handling an event that moves rows only by settling a debt.              *)
LEMMA AnswersRead ==
    ASSUME IInv, IInv', AnswersInv, events # <<>>, events' = Tail(events), UNCHANGED <<act, alloc, proc, cmds>>,
           phase' # "down", DebtsPaid, \A a \in Actions : outcome'[a] = "pending" => outcome[a] = "pending"
    PROVE  AnswersInv'
<1>1. AnswersKnown' /\ CommandsTrue'
  BY DEF AnswersInv, AnswersKnown, CommandsTrue
<1>2. NoNewDebts
  <2>1. \A a \in Actions, l \in Lanes : Owing(a, l)' => Owing(a, l)
    BY TailReported DEF Owing, Answered
  <2> QED
    BY <2>1 DEF NoNewDebts, AnswersInv, AnswersCurrent
<1>3. WorkersGrow
  BY DEF WorkersGrow, IInv, Tables, ProcTypes
<1> QED
  BY <1>1, <1>2, <1>3, AnswersKept

(* record_lane_checkpoint.                                                 *)
LEMMA AnswersCheckpoint ==
    ASSUME IInv, IInv', AnswersInv, HandleCheckpoint
    PROVE  AnswersInv'
<1> DEFINE e == Head(events)
<1>1. /\ events # <<>> /\ events' = Tail(events)
      /\ row' = [row EXCEPT ![e.lane] = CheckpointedRow(row[e.lane], e.ver)]
      /\ UNCHANGED <<act, outcome, alloc, proc, cmds, phase>> /\ phase # "down"
  BY DEF HandleCheckpoint, Polling, dispatcher, workers, NoFault
<1>2. e.lane \in Lanes
  BY <1>1, HeadEvent
<1>3. \A l \in Lanes : row'[l].ver = row[l].ver
  <2>1. row \in [Lanes -> RowTypes]
    BY DEF IInv, Tables
  <2>2. CheckpointedRow(row[e.lane], e.ver).ver = row[e.lane].ver
    BY <1>2, <2>1 DEF CheckpointedRow, RowTypes
  <2> QED
    BY <1>1, <1>2, <2>1, <2>2
<1> QED
  BY <1>1, <1>3, AnswersRead DEF DebtsPaid

(* _handle_ready.                                                          *)
LEMMA AnswersReady ==
    ASSUME IInv, IInv', AnswersInv, HandleReady
    PROVE  AnswersInv'
<1> DEFINE e == Head(events)
           a == owner[e.lane]
           C == {l \in Lanes : owner[l] = a}
<1>1. /\ events # <<>> /\ events' = Tail(events) /\ phase # "down"
      /\ UNCHANGED <<act, alloc, proc, cmds>>
  BY DEF HandleReady, Polling
<1>2. e.lane \in Lanes
  BY <1>1, HeadEvent
<1>3. CASE a = NoAction \/ Awaited(a, e.lane) # {}
  <2>1. UNCHANGED <<row, outcome, phase>>
    BY <1>3 DEF HandleReady, NoFault
  <2> QED
    BY <1>1, <2>1, AnswersRead DEF DebtsPaid
<1>4. CASE /\ a # NoAction /\ Awaited(a, e.lane) = {}
           /\ outcome[a] = "pending" /\ \E l \in C : row[l].state # "starting"
  <2>1. Fault
    BY <1>4 DEF HandleReady
  <2>2. outcome' = outcome /\ \A l \in Lanes : row'[l].ver = row[l].ver
    BY <2>1, FaultRows
  <2>3. phase' # "down"
    BY <2>1 DEF Fault, BeginDrain
  <2> QED
    BY <1>1, <2>2, <2>3, AnswersRead DEF DebtsPaid
<1>5. CASE /\ a # NoAction /\ Awaited(a, e.lane) = {}
           /\ ~(outcome[a] = "pending" /\ \E l \in C : row[l].state # "starting")
  <2>1. /\ IF outcome[a] = "pending"
           THEN /\ row' = [l \in Lanes |-> IF l \in C THEN [row[l] EXCEPT !.state = "running"] ELSE row[l]]
                /\ outcome' = [outcome EXCEPT ![a] = "applied"]
           ELSE UNCHANGED <<row, outcome>>
        /\ phase' = phase
    BY <1>5 DEF HandleReady, NoFault
  <2>2. \A l \in Lanes : row'[l].ver = row[l].ver
    BY <2>1 DEF IInv, Tables, RowTypes
  <2>3. \A b \in Actions : outcome'[b] = "pending" => outcome[b] = "pending"
    BY <2>1 DEF IInv, Tables
  <2> QED
    BY <1>1, <2>1, <2>2, <2>3, AnswersRead DEF DebtsPaid
<1> QED
  BY <1>3, <1>4, <1>5

(* apply_lane_action_outcome moves the row exactly when it settles the     *)
(* action, and then no other debt of the lane remains.                     *)
LEMMA AnswersOutcome ==
    ASSUME IInv, IInv', AnswersInv, HandleOutcome
    PROVE  AnswersInv'
<1> DEFINE e == Head(events)
           a == e.action
           l == e.lane
           n == RevisedRow(row[l], act[a].kind, e.ver)
           onTime == row[l].ver = act[a].expected[l] /\ e.ver = row[l].ver + 1
<1>1. /\ events # <<>> /\ events' = Tail(events) /\ e.kind = "outcome" /\ phase # "down"
      /\ UNCHANGED <<act, alloc, proc, cmds, phase>>
      /\ ApplyLaneOutcome(a, l, e.status, e.ver)
  BY DEF HandleOutcome, Polling, NoFault, workers
<1>2. l \in Lanes /\ e.ver \in Nat /\ e.status \in Answers /\ a \in Actions
  BY <1>1, HeadEvent DEF Targets
<1>3. CASE outcome[a] = "pending" /\ e.status = "applied" /\ onTime
  <2>1. outcome' = [outcome EXCEPT ![a] = "applied"] /\ row' = [row EXCEPT ![l] = n]
    BY <1>1, <1>3 DEF ApplyLaneOutcome
  <2>2. n.ver = row[l].ver + 1
    BY <1>2, <1>3 DEF RevisedRow, IInv, Tables, RowTypes
  <2> HIDE DEF n
  <2>3. row'[l].ver = row[l].ver + 1 /\ \A m \in Lanes : m # l => row'[m].ver = row[m].ver
    BY <1>2, <2>1, <2>2 DEF IInv, Tables
  <2>4. \A b \in Actions : outcome'[b] = "pending" => outcome[b] = "pending" /\ b # a
    BY <1>2, <2>1 DEF IInv, Tables
  <2>5. \A b \in Actions, m \in Lanes : b = a /\ m = l => Owing(b, m) /\ ~Owing(b, m)'
    BY <1>1, <1>2, <1>3, <2>4, HeadReported DEF Owing, Answered
  <2>6. \A m \in Lanes : m = l => \E b \in Actions : Owing(b, m) /\ ~Owing(b, m)'
    BY <1>2, <2>5
  <2>7. DebtsPaid
    BY <1>2, <2>3, <2>6 DEF DebtsPaid
  <2> QED
    BY <1>1, <2>4, <2>7, AnswersRead
<1>4. CASE ~(outcome[a] = "pending" /\ e.status = "applied" /\ onTime)
  <2>1. row' = row
    BY <1>1, <1>4 DEF ApplyLaneOutcome
  <2>2. \A b \in Actions : outcome'[b] = "pending" => outcome[b] = "pending"
    BY <1>1, <1>2 DEF ApplyLaneOutcome, IInv, Tables
  <2> QED
    BY <1>1, <2>1, <2>2, AnswersRead DEF DebtsPaid
<1> QED
  BY <1>3, <1>4

(* A worker's exit.                                                        *)
LEMMA AnswersExit ==
    ASSUME IInv, IInv', AnswersInv, HandleExit
    PROVE  AnswersInv'
<1> DEFINE e == Head(events)
           a == owner[e.lane]
<1>1. /\ events # <<>> /\ events' = Tail(events) /\ phase # "down"
      /\ UNCHANGED <<act, alloc, proc, cmds, phase>>
      /\ row' = ExitedRow(e) \/ row' = BirthFailed(ExitedRow(e), a)
  BY DEF HandleExit, Polling, NoFault
<1>2. e.lane \in Lanes
  BY <1>1, HeadEvent
<1>3. \A b \in Actions : outcome'[b] = "pending" => outcome[b] = "pending"
  BY DEF HandleExit, IInv, Tables
<1>4. \A l \in Lanes : row'[l].ver = row[l].ver
  BY <1>1, <1>2, ExitRows
<1> QED
  BY <1>1, <1>3, <1>4, AnswersRead DEF DebtsPaid

(* The coordinator never raises on an answered reallocation: every row is  *)
(* still at the expected version.                                          *)
LEMMA AllocationOnTime ==
    ASSUME IInv, AnswersInv, HandleAllocation
    PROVE  LET e == Head(events)
               a == e.action
               S == act[a].lanes
               got == [alloc[a] EXCEPT ![e.lane] = e.status] IN
           /\ a \in Actions /\ S \subseteq Lanes /\ e.lane \in S /\ e.status \in Answers
           /\ \A l \in S : got[l] = "applied" => Answered(a, l)
           /\ AllAnswered(S, got) /\ outcome[a] = "pending" /\ ~Refused(S, got) =>
                \A l \in S : Owing(a, l) /\ row[l].ver = act[a].expected[l]
<1> DEFINE e == Head(events)
           a == e.action
           S == act[a].lanes
           got == [alloc[a] EXCEPT ![e.lane] = e.status]
<1>1. events # <<>> /\ e.kind = "outcome"
  BY DEF HandleAllocation, Polling
<1>2. a \in Actions /\ S \subseteq Lanes /\ e.lane \in S /\ e.status \in Answers
  BY <1>1, HeadEvent DEF Targets, IInv, Tables, ActTypes
<1>3. e.status = "applied" => Reported(events, a, e.lane)
  BY <1>1, HeadReported
<1>4. \A l \in S : got[l] = IF l = e.lane THEN e.status ELSE alloc[a][l]
  BY <1>2 DEF AnswersInv, AnswersKnown
<1>5. \A l \in S : got[l] = "applied" => Answered(a, l)
  BY <1>3, <1>4 DEF Answered
<1> HIDE DEF got
<1>6. AllAnswered(S, got) /\ outcome[a] = "pending" /\ ~Refused(S, got) =>
        \A l \in S : Owing(a, l)
  BY <1>5 DEF Refused, Owing
<1>7. \A l \in S : Owing(a, l) => row[l].ver = act[a].expected[l]
  BY <1>2 DEF AnswersInv, AnswersCurrent
<1> HIDE DEF a, S, e
<1> QED
  BY <1>2, <1>5, <1>6, <1>7 DEF a, S, e, got

(* So _complete_allocation never raises: apply_multi_lane_action_outcome   *)
(* finds its rows on time.                                                 *)
LEMMA AllocationNoFault ==
    ASSUME IInv, AnswersInv, HandleAllocation
    PROVE  UNCHANGED <<faulted, phase>>
<1> DEFINE e == Head(events)
           a == e.action
           S == act[a].lanes
           got == [alloc[a] EXCEPT ![e.lane] = e.status]
           onTime == \A l \in S : row[l].ver = act[a].expected[l]
<1>1. AllAnswered(S, got) /\ outcome[a] = "pending" /\ ~Refused(S, got) => onTime
  BY AllocationOnTime
<1>2. CASE ~AllAnswered(S, got)
  BY <1>2 DEF HandleAllocation, NoFault
<1>3. CASE AllAnswered(S, got)
  BY <1>1, <1>3 DEF HandleAllocation, NoFault
<1> QED
  BY <1>2, <1>3

(* _handle_action_outcome of a reallocation, and _complete_allocation.     *)
LEMMA AnswersAllocation ==
    ASSUME IInv, IInv', AnswersInv, HandleAllocation
    PROVE  AnswersInv'
<1> DEFINE e == Head(events)
           a == e.action
           S == act[a].lanes
           got == [alloc[a] EXCEPT ![e.lane] = e.status]
           none == [l \in Lanes |-> "none"]
           onTime == \A l \in S : row[l].ver = act[a].expected[l]
<1>1. /\ events # <<>> /\ events' = Tail(events) /\ phase # "down" /\ act[a].kind = "reallocate"
      /\ UNCHANGED <<act, proc, cmds>> /\ phase' = phase
  BY AllocationNoFault DEF HandleAllocation, Polling
<1>2. a \in Actions /\ S \subseteq Lanes /\ e.lane \in S /\ e.status \in Answers
  BY AllocationOnTime
<1>3. \A l \in S : got[l] = "applied" => Answered(a, l)
  BY AllocationOnTime
<1>4. AllAnswered(S, got) /\ outcome[a] = "pending" /\ ~Refused(S, got) =>
        onTime /\ \A l \in S : Owing(a, l)
  BY AllocationOnTime
<1>5. \/ alloc' = [alloc EXCEPT ![a] = got] /\ outcome' = outcome /\ row' = row
      \/ /\ alloc' = [alloc EXCEPT ![a] = none]
         /\ \/ outcome' = outcome /\ row' = row
            \/ outcome' = [outcome EXCEPT ![a] = "failed"] /\ row' = row
            \/ /\ outcome' = [outcome EXCEPT ![a] = "applied"] /\ \A l \in S : Owing(a, l)
               /\ row' = [l \in Lanes |-> IF l \in S THEN AllocatedRow(row[l]) ELSE row[l]]
  <2>1. CASE ~AllAnswered(S, got)
    BY <2>1 DEF HandleAllocation
  <2>2. CASE AllAnswered(S, got)
    BY <1>4, <2>2 DEF HandleAllocation
  <2> QED
    BY <2>1, <2>2
<1>6. /\ got \in [Lanes -> Answers \cup {"none"}] /\ none \in [Lanes -> Answers \cup {"none"}]
      /\ alloc \in [Actions -> [Lanes -> Answers \cup {"none"}]]
      /\ \A l \in Lanes : none[l] # "applied" /\ none[l] = "none"
      /\ \A l \in Lanes : got[l] = "applied" => Answered(a, l)
  <2>1. alloc \in [Actions -> [Lanes -> Answers \cup {"none"}]]
    BY DEF AnswersInv, AnswersKnown
  <2>2. \A l \in Lanes : l # e.lane => got[l] = alloc[a][l]
    BY <1>2, <2>1
  <2> QED
    BY <1>2, <1>3, <2>1, <2>2 DEF Answered
<1> HIDE DEF got, none
<1>7. alloc'[a] \in {got, none} /\ \A b \in Actions : b # a => alloc'[b] = alloc[b]
  BY <1>2, <1>5, <1>6
<1>8. AnswersKnown'
  <2>1. alloc' \in [Actions -> [Lanes -> Answers \cup {"none"}]]
    BY <1>2, <1>5, <1>6
  <2>2. \A b \in Actions, l \in Lanes : alloc'[b][l] # "none" => act'[b].kind \in ChangeKinds
    BY <1>1, <1>2, <1>7 DEF AnswersInv, AnswersKnown, ChangeKinds
  <2> QED
    BY <2>1, <2>2 DEF AnswersKnown
<1>9. CommandsTrue'
  BY <1>1 DEF AnswersInv, CommandsTrue
<1>10. \A b \in Actions, l \in Lanes : alloc'[b][l] = "applied" => Answered(b, l)
  BY <1>6, <1>7 DEF Answered
<1>11. \A b \in Actions : outcome'[b] = "pending" => outcome[b] = "pending"
  BY <1>2, <1>5 DEF IInv, Tables
<1>12. NoNewDebts
  <2>1. \A b \in Actions, l \in Lanes : Owing(b, l)' => Owing(b, l)
    <3>1. ASSUME NEW b \in Actions, NEW l \in Lanes, Reported(events, b, l)' PROVE Answered(b, l)
      BY <1>1, <3>1, TailReported DEF Answered
    <3> QED
      BY <1>10, <1>11, <3>1 DEF Owing, Answered
  <2> QED
    BY <1>1, <2>1 DEF NoNewDebts, AnswersInv, AnswersCurrent
<1>13. DebtsPaid
  <2>1. CASE row' = row
    BY <2>1 DEF DebtsPaid
  <2>2. CASE row' # row
    <3>1. /\ outcome' = [outcome EXCEPT ![a] = "applied"] /\ \A l \in S : Owing(a, l)
          /\ row' = [l \in Lanes |-> IF l \in S THEN AllocatedRow(row[l]) ELSE row[l]]
      BY <1>5, <2>2
    <3>2. \A l \in Lanes : IF l \in S THEN row'[l].ver = row[l].ver + 1 ELSE row'[l] = row[l]
      BY <3>1, ZenonT(30) DEF AllocatedRow, IInv, Tables, RowTypes
    <3>3. outcome'[a] = "applied"
      BY <1>2, <3>1 DEF IInv, Tables
    <3>4. \A b \in Actions, l \in Lanes : b = a /\ l \in S => Owing(b, l) /\ ~Owing(b, l)'
      BY <3>1, <3>3 DEF Owing
    <3> QED
      BY <1>2, <3>2, <3>4 DEF DebtsPaid
  <2> QED
    BY <2>1, <2>2
<1>14. WorkersGrow
  BY <1>1 DEF WorkersGrow, IInv, Tables, ProcTypes
<1> QED
  BY <1>1, <1>8, <1>9, <1>12, <1>13, <1>14, AnswersKept

(* Every step keeps the account of answers.                                *)
LEMMA NextAnswers ==
    ASSUME IInv, IInv', AnswersInv, [Next]_vars
    PROVE  AnswersInv'
<1>1. CASE Commit
  BY <1>1, AnswersCommits
<1>2. CASE \E a \in Actions : DispatchExpired(a)
  BY <1>2, AnswersDispatch
<1>3. CASE Dispatch
  BY <1>3, AnswersDispatch, AnswersBirth, AnswersBirthFails DEF Dispatch
<1>4. CASE \E l \in Lanes : WorkerStep(l) \/ WorkerFails(l)
  BY <1>4, AnswersWorker
<1>5. CASE Poll
  BY <1>5, AnswersCheckpoint, AnswersReady, AnswersOutcome, AnswersAllocation, AnswersExit DEF Poll
<1>6. CASE \/ ShutdownEnd \/ Crash
           \/ \E a \in Actions, made \in SUBSET Lanes : CrashInBirth(a, made)
  BY <1>6, AnswersEnd
<1>7. CASE \E R \in SUBSET Lanes : Recover(R)
  BY <1>7, AnswersRecover
<1>8. CASE ActivateRecovered \/ Shutdown \/ UNCHANGED vars
  BY <1>8, AnswersOther
<1> QED
  BY <1>1, <1>2, <1>3, <1>4, <1>5, <1>6, <1>7, <1>8 DEF Next

(* It holds at the start.                                                  *)
LEMMA InitAnswers ==
    ASSUME Init
    PROVE  AnswersInv
<1>1. /\ \A a \in Actions, l \in Lanes : alloc[a][l] = "none" /\ act[a].kind = "none"
      /\ alloc \in [Actions -> [Lanes -> Answers \cup {"none"}]]
      /\ Len(events) = 0 /\ \A l \in Lanes : proc[l].state = "none" /\ Len(cmds[l]) = 0
  BY DEF Init, NoAct
<1>2. \A a \in Actions, l \in Lanes : ~Owing(a, l)
  BY <1>1 DEF Owing, Answered, Reported
<1> QED
  BY <1>1, <1>2 DEF AnswersInv, AnswersKnown, VersionsGrow, CommandsTrue, AnswersCurrent

(* For every mix of action kinds: what a worker has applied and its row    *)
(* does not show yet is at most one action, which expects the version of   *)
(* the row (apply_lane_action_outcome, _complete_allocation).              *)
THEOREM AnswersHold == Spec => []AnswersInv
<1>1. Init => IInv /\ AnswersInv
  BY InitInv, InitAnswers
<1>2. IInv /\ AnswersInv /\ [Next]_vars => IInv' /\ AnswersInv'
  BY NextInv, NextAnswers
<1> QED
  BY <1>1, <1>2, PTL DEF Spec

-----------------------------------------------------------------------------
(* Children: who has been heard of while a birth awaits the others.        *)

(* Event i of q reports lane l ready.                                      *)
Hello(q, i, l) == q[i].kind = "ready" /\ q[i].lane = l

(* What a worker in state s has said in q before lane l was seen ready.    *)
Unheard(q, l, s) ==
    /\ s = "live" => \E i \in 1 .. Len(q) : Hello(q, i, l)
    /\ \A j \in 1 .. Len(q) : q[j].kind = "outcome" /\ q[j].lane = l =>
        \E i \in 1 .. Len(q) : i < j /\ Hello(q, i, l)

(* A row was made by the birth that claims its lane.                       *)
RowsOwned ==
    \A l \in Lanes : row[l].state # "absent" =>
        row[l].by \in Actions /\ IsBirth(row[l].by) /\ l \in act[row[l].by].lanes

(* A start makes one lane.                                                 *)
StartsSingle == \A a \in Actions : act[a].kind = "start" => \E l \in Lanes : act[a].lanes = {l}

(* A child that its birth waits for has not been heard of.                 *)
AwaitedUnheard ==
    \A a \in Actions : IsBirth(a) /\ Under(a) =>
        /\ births[a] \subseteq act[a].lanes /\ (act[a].kind = "start" => births[a] = act[a].lanes)
        /\ \A l \in births[a] : row[l].state = "starting" /\ Unheard(events, l, proc[l].state)

(* No lane is patched or stopped by an action.                             *)
Unrevised == "patch" \notin Kinds /\ "stop" \notin Kinds

(* Without patches and stops all children of a birth are starting.         *)
ChildrenStarting ==
    Unrevised => \A a \in Actions : IsBirth(a) /\ Under(a) => \A l \in act[a].lanes : row[l].state = "starting"

(* The account of children.                                                *)
ChildrenInv == RowsOwned /\ StartsSingle /\ AwaitedUnheard /\ ChildrenStarting

(* Reading any event but the lane's ready event leaves it unheard.         *)
LEMMA UnheardTail ==
    ASSUME NEW S, NEW q \in Seq(S), q # <<>>, NEW l, NEW s, Unheard(q, l, s), ~Hello(q, 1, l)
    PROVE  Unheard(Tail(q), l, s) /\ ~(Head(q).kind = "outcome" /\ Head(q).lane = l)
<1> DEFINE t == Tail(q)
<1>1. /\ Len(q) \in Nat /\ Len(q) > 0 /\ Head(q) = q[1] /\ 1 \in 1 .. Len(q) /\ Len(t) = Len(q) - 1
      /\ \A i \in 1 .. Len(t) : t[i] = q[i + 1] /\ i + 1 \in 1 .. Len(q) /\ i + 1 # 1
      /\ \A j \in 1 .. Len(q) : j # 1 => j - 1 \in 1 .. Len(t) /\ t[j - 1] = q[j]
  BY TailIndex
<1> HIDE DEF t
<1>2. \A i \in 1 .. Len(q) : Hello(q, i, l) => i - 1 \in 1 .. Len(t) /\ Hello(t, i - 1, l)
  BY <1>1 DEF Hello
<1>3. ASSUME NEW j \in 1 .. Len(t), t[j].kind = "outcome" /\ t[j].lane = l
      PROVE  \E i \in 1 .. Len(t) : i < j /\ Hello(t, i, l)
  <2>1. j + 1 \in 1 .. Len(q) /\ q[j + 1].kind = "outcome" /\ q[j + 1].lane = l
    BY <1>1, <1>3
  <2>2. PICK i \in 1 .. Len(q) : i < j + 1 /\ Hello(q, i, l)
    BY <2>1 DEF Unheard
  <2>3. i - 1 \in 1 .. Len(t) /\ Hello(t, i - 1, l) /\ i - 1 < j
    BY <1>2, <2>2
  <2> QED
    BY <2>3
<1>4. ~(Head(q).kind = "outcome" /\ Head(q).lane = l)
  BY <1>1 DEF Unheard
<1>5. s = "live" => \E i \in 1 .. Len(t) : Hello(t, i, l)
  BY <1>2 DEF Unheard
<1>6. Unheard(t, l, s)
  BY <1>3, <1>5 DEF Unheard
<1> QED
  BY <1>4, <1>6 DEF t

(* So does a worker's saying more, if it is ready before it answers.       *)
LEMMA UnheardJoined ==
    ASSUME NEW S, NEW q \in Seq(S), NEW t \in Seq(S), NEW l, NEW s, NEW p, Unheard(q, l, s),
           \A i \in 1 .. Len(t) : t[i].kind = "outcome" /\ t[i].lane = l => s = "live",
           p = "live" => s = "live" \/ \E i \in 1 .. Len(t) : Hello(t, i, l)
    PROVE  Unheard(q \o t, l, p)
<1> DEFINE r == q \o t
<1>1. /\ Len(q) \in Nat /\ Len(t) \in Nat /\ Len(r) = Len(q) + Len(t)
      /\ \A i \in 1 .. Len(q) : i \in 1 .. Len(r) /\ r[i] = q[i]
      /\ \A i \in 1 .. Len(t) : Len(q) + i \in 1 .. Len(r) /\ r[Len(q) + i] = t[i]
      /\ \A k \in 1 .. Len(r) : k \in 1 .. Len(q) \/ \E i \in 1 .. Len(t) : k = Len(q) + i
  BY JoinIndex
<1> HIDE DEF r
<1>2. \A i \in 1 .. Len(q) : Hello(q, i, l) => Hello(r, i, l)
  BY <1>1 DEF Hello
<1>3. p = "live" => \E i \in 1 .. Len(r) : Hello(r, i, l)
  <2>1. CASE s = "live"
    BY <1>1, <1>2, <2>1 DEF Unheard
  <2>2. ASSUME NEW i \in 1 .. Len(t), Hello(t, i, l) PROVE Hello(r, Len(q) + i, l)
    BY <1>1, <2>2 DEF Hello
  <2> QED
    BY <1>1, <2>1, <2>2
<1>4. ASSUME NEW j \in 1 .. Len(r), r[j].kind = "outcome" /\ r[j].lane = l
      PROVE  \E i \in 1 .. Len(r) : i < j /\ Hello(r, i, l)
  <2>1. CASE j \in 1 .. Len(q)
    <3>1. PICK i \in 1 .. Len(q) : i < j /\ Hello(q, i, l)
      BY <1>1, <1>4, <2>1 DEF Unheard
    <3> QED
      BY <1>1, <1>2, <3>1
  <2>2. CASE \E i \in 1 .. Len(t) : j = Len(q) + i
    <3>1. PICK i \in 1 .. Len(t) : j = Len(q) + i
      BY <2>2
    <3>2. s = "live"
      BY <1>1, <1>4, <3>1
    <3>3. PICK k \in 1 .. Len(q) : Hello(q, k, l)
      BY <3>2 DEF Unheard
    <3>4. k < j
      BY <1>1, <3>1
    <3> QED
      BY <1>1, <1>2, <3>3, <3>4
  <2> QED
    BY <1>1, <2>1, <2>2
<1>5. Unheard(r, l, p)
  BY <1>3, <1>4 DEF Unheard
<1> QED
  BY <1>5 DEF r

(* A step that puts no birth under way.                                    *)
LEMMA ChildrenKept ==
    ASSUME ChildrenInv, RowsOwned', StartsSingle',
           \A a \in Actions : StaysUnder(a) /\ IsBirth(a)' =>
               /\ Under(a) /\ act'[a] = act[a]
               /\ births'[a] \subseteq births[a] /\ (act[a].kind = "start" => births'[a] = births[a])
               /\ \A l \in births'[a] : Unheard(events', l, proc'[l].state)
               /\ \A l \in act[a].lanes : row[l].state = "starting" =>
                    row'[l].state = "starting" \/ (l \notin births'[a] /\ ~Unrevised)
    PROVE  ChildrenInv'
<1>1. ASSUME NEW a \in Actions, IsBirth(a)', StaysUnder(a)
      PROVE  /\ births'[a] \subseteq act'[a].lanes /\ (act'[a].kind = "start" => births'[a] = act'[a].lanes)
             /\ \A l \in births'[a] : row'[l].state = "starting" /\ Unheard(events', l, proc'[l].state)
             /\ Unrevised => \A l \in act'[a].lanes : row'[l].state = "starting"
  <2>1. /\ Under(a) /\ act'[a] = act[a] /\ IsBirth(a)
        /\ births'[a] \subseteq births[a] /\ (act[a].kind = "start" => births'[a] = births[a])
        /\ \A l \in births'[a] : Unheard(events', l, proc'[l].state)
        /\ \A l \in act[a].lanes : row[l].state = "starting" =>
             row'[l].state = "starting" \/ (l \notin births'[a] /\ ~Unrevised)
    BY <1>1 DEF IsBirth
  <2>2. /\ births[a] \subseteq act[a].lanes /\ (act[a].kind = "start" => births[a] = act[a].lanes)
        /\ \A l \in births[a] : row[l].state = "starting"
        /\ Unrevised => \A l \in act[a].lanes : row[l].state = "starting"
    BY <2>1 DEF ChildrenInv, AwaitedUnheard, ChildrenStarting
  <2> QED
    BY <2>1, <2>2
<1>2. AwaitedUnheard' /\ ChildrenStarting'
  BY <1>1 DEF AwaitedUnheard, ChildrenStarting, Under, StaysUnder
<1> QED
  BY <1>2 DEF ChildrenInv

(* Rows that keep their maker, or are made by the birth that claims them,  *)
(* stay owned.                                                             *)
LEMMA OwnersStay ==
    ASSUME ChildrenInv, act' = act,
           \A l \in Lanes : row'[l].state # "absent" =>
               \/ row[l].state # "absent" /\ row'[l].by = row[l].by
               \/ row'[l].by \in Actions /\ IsBirth(row'[l].by) /\ l \in act[row'[l].by].lanes
    PROVE  RowsOwned' /\ StartsSingle'
BY DEF ChildrenInv, RowsOwned, StartsSingle, IsBirth

(* Nothing is said, read or done to a row.                                 *)
LEMMA ChildrenAside ==
    ASSUME IInv, ChildrenInv, UNCHANGED <<act, row, births, events>>,
           \A a \in Actions : StaysUnder(a) /\ IsBirth(a) => Under(a),
           \A l \in Lanes : proc'[l] = proc[l]
    PROVE  ChildrenInv'
<1>1. RowsOwned' /\ StartsSingle'
  BY OwnersStay
<1>2. \A a \in Actions : births[a] \subseteq Lanes
  BY DEF IInv, Tables
<1>3. \A a \in Actions : IsBirth(a)' => IsBirth(a)
  BY DEF IsBirth
<1>4. \A a \in Actions : IsBirth(a) /\ Under(a) => \A l \in births[a] : Unheard(events, l, proc[l].state)
  BY DEF ChildrenInv, AwaitedUnheard
<1> QED
  BY <1>1, <1>2, <1>3, <1>4, ChildrenKept

(* A new action is not under way; a start names one lane.                  *)
LEMMA ChildrenCommit ==
    ASSUME IInv, BirthInvs, ChildrenInv, NEW a \in Actions, NEW kind, NEW S \in SUBSET Lanes, NEW parent,
           CommitAs(a, kind, S, parent), kind = "start" => \E l \in Lanes : S = {l}
    PROVE  ChildrenInv'
<1> DEFINE new == [kind |-> kind, lanes |-> S, parent |-> parent, expected |-> [l \in Lanes |-> row[l].ver]]
<1>1. /\ outcome[a] = "none" /\ act' = [act EXCEPT ![a] = new] /\ outcome' = [outcome EXCEPT ![a] = "pending"]
      /\ UNCHANGED <<row, births, inflight, events, proc>>
  BY DEF CommitAs, dispatcher, workers
<1>2. act[a].kind = "none" /\ act \in [Actions -> ActTypes] /\ outcome \in [Actions -> Outcomes] /\ a \notin inflight
  BY <1>1 DEF IInv, ActsExist, Tables, BirthInvs, UnderWay
<1>3. new.kind = kind /\ new.lanes = S
  OBVIOUS
<1> HIDE DEF new
<1>4. /\ act'[a] = new /\ outcome'[a] = "pending"
      /\ \A b \in Actions : b # a => act'[b] = act[b] /\ outcome'[b] = outcome[b]
  BY <1>1, <1>2
<1>5. RowsOwned'
  BY <1>1, <1>2, <1>4 DEF ChildrenInv, RowsOwned, IsBirth, BirthKinds
<1>6. StartsSingle'
  BY <1>3, <1>4 DEF ChildrenInv, StartsSingle
<1>7. ASSUME NEW b \in Actions, StaysUnder(b), IsBirth(b)'
      PROVE  Under(b) /\ IsBirth(b) /\ act'[b] = act[b]
  BY <1>1, <1>2, <1>4, <1>7 DEF StaysUnder, Under, IsBirth
<1>8. \A b \in Actions : IsBirth(b) /\ Under(b) => \A l \in births[b] : Unheard(events, l, proc[l].state)
  BY DEF ChildrenInv, AwaitedUnheard
<1> QED
  BY <1>1, <1>5, <1>6, <1>7, <1>8, ChildrenKept

(* All commits.                                                            *)
LEMMA ChildrenCommits ==
    ASSUME IInv, BirthInvs, ChildrenInv, Commit
    PROVE  ChildrenInv'
<1>1. PICK a \in Actions :
        \/ \E l \in Lanes : CommitStart(a, l)
        \/ \E p \in Lanes, S \in SUBSET Lanes : CommitFork(a, p, S)
        \/ \E l \in Lanes, kind \in {"patch", "stop"} : CommitChange(a, kind, l)
        \/ \E S \in SUBSET Lanes : CommitReallocation(a, S)
  BY DEF Commit
<1> QED
  BY <1>1, ChildrenCommit DEF CommitStart, CommitFork, CommitChange, CommitReallocation

(* Dispatching a change touches no birth.                                  *)
LEMMA ChildrenDispatch ==
    ASSUME IInv, ChildrenInv, NEW a \in Actions,
           \/ DispatchExpired(a) \/ DispatchChange(a)
           \/ \E sent \in SUBSET Lanes : DispatchChangeFails(a, sent)
    PROVE  ChildrenInv'
<1>1. /\ UNCHANGED <<row, act, births, events, proc>>
      /\ \A b \in Actions : outcome'[b] = "pending" => outcome[b] = "pending"
      /\ inflight' = inflight \/ (inflight' = inflight \cup {a} /\ ~IsBirth(a))
  BY DEF DispatchExpired, DispatchChange, DispatchChangeFails, rows, dispatcher, workers, IInv, Tables, IsBirth
<1> QED
  BY <1>1, ChildrenAside DEF StaysUnder, Under

(* _start and _fork make rows that start, and workers that nobody has      *)
(* heard.                                                                  *)
LEMMA ChildrenBirth ==
    ASSUME IInv, BirthInvs, ChildrenInv, NEW a \in Actions, DispatchBirth(a)
    PROVE  ChildrenInv'
<1> DEFINE S == act[a].lanes
<1>1. /\ UNCHANGED <<act, outcome, events>> /\ inflight' = inflight \cup {a}
      /\ IsBirth(a) /\ births' = [births EXCEPT ![a] = S]
      /\ row' = [l \in Lanes |-> IF l \in S THEN NewRow(a) ELSE row[l]]
      /\ proc' = [l \in Lanes |-> IF l \in S THEN [state |-> "booting", ver |-> 0] ELSE proc[l]]
      /\ \A l \in S : row[l].state = "absent"
  BY DEF DispatchBirth, BirthPossible, IsBirth
<1>2. S \subseteq Lanes /\ \A b \in Actions : act[b].lanes \subseteq Lanes
  BY DEF IInv, Tables, ActTypes
<1>3. /\ \A l \in S : row'[l].state = "starting" /\ row'[l].by = a /\ proc'[l].state = "booting"
      /\ \A l \in Lanes \ S : row'[l] = row[l] /\ proc'[l] = proc[l]
      /\ births'[a] = S /\ \A b \in Actions : b # a => births'[b] = births[b]
  BY <1>1, <1>2 DEF NewRow, IInv, Tables
<1>4. RowsOwned' /\ StartsSingle'
  BY <1>1, <1>3, OwnersStay
<1>5. \A l \in S : Unheard(events, l, "booting")
  <2>1. ASSUME NEW l \in S, NEW i \in 1 .. Len(events) PROVE events[i].lane # l
    <3>1. events[i] \in GoodEvents
      <4>1. events \in Seq(GoodEvents)
        BY DEF IInv, Messages
      <4> HIDE DEF GoodEvents
      <4> QED
        BY <4>1
    <3> QED
      BY <1>1, <3>1 DEF GoodEvents
  <2> QED
    BY <2>1 DEF Unheard
<1>6. ASSUME NEW b \in Actions, b # a, IsBirth(b)', StaysUnder(b)
      PROVE  IsBirth(b) /\ Under(b) /\ \A l \in act[b].lanes : l \in Lanes \ S
  <2>1. IsBirth(b) /\ Under(b)
    BY <1>1, <1>6 DEF IsBirth, Under, StaysUnder
  <2> QED
    BY <1>1, <1>2, <1>6, <2>1 DEF BirthInvs, BirthsApart
<1>7. ASSUME NEW b \in Actions, IsBirth(b)', StaysUnder(b)
      PROVE  /\ births'[b] \subseteq act'[b].lanes /\ (act'[b].kind = "start" => births'[b] = act'[b].lanes)
             /\ \A l \in births'[b] : row'[l].state = "starting" /\ Unheard(events', l, proc'[l].state)
             /\ Unrevised => \A l \in act'[b].lanes : row'[l].state = "starting"
  <2>1. CASE b = a
    BY <1>1, <1>3, <1>5, <2>1, SMTT(30)
  <2>2. CASE b # a
    <3>1. /\ births[b] \subseteq act[b].lanes /\ (act[b].kind = "start" => births[b] = act[b].lanes)
          /\ \A l \in births[b] : row[l].state = "starting" /\ Unheard(events, l, proc[l].state)
          /\ Unrevised => \A l \in act[b].lanes : row[l].state = "starting"
      BY <1>6, <1>7, <2>2 DEF ChildrenInv, AwaitedUnheard, ChildrenStarting
    <3>2. \A l \in act[b].lanes : row'[l] = row[l] /\ proc'[l] = proc[l]
      BY <1>3, <1>6, <1>7, <2>2
    <3>3. births'[b] = births[b] /\ act' = act /\ events' = events
      BY <1>1, <1>3, <2>2
    <3>4. \A l \in births[b] : row'[l].state = "starting" /\ Unheard(events, l, proc'[l].state)
      BY <3>1, <3>2
    <3> QED
      BY <3>1, <3>2, <3>3, <3>4
  <2> QED
    BY <2>1, <2>2
<1>8. AwaitedUnheard' /\ ChildrenStarting'
  BY <1>7 DEF AwaitedUnheard, ChildrenStarting, Under, StaysUnder
<1> QED
  BY <1>4, <1>8 DEF ChildrenInv

(* A birth that fails is not under way.                                    *)
LEMMA ChildrenBirthFails ==
    ASSUME IInv, BirthInvs, ChildrenInv, NEW a \in Actions, NEW made \in SUBSET Lanes, NEW orphan \in SUBSET Lanes,
           DispatchBirthFails(a, made, orphan)
    PROVE  ChildrenInv'
<1> DEFINE N == made \cup orphan
           table == [l \in Lanes |-> IF l \in N THEN NewRow(a) ELSE row[l]]
<1>1. /\ UNCHANGED <<act, events, inflight>> /\ IsBirth(a)
      /\ row' = BirthFailed(table, a) /\ outcome' = [outcome EXCEPT ![a] = "failed"]
      /\ proc' = [l \in Lanes |-> IF l \in made THEN [state |-> "booting", ver |-> 0] ELSE proc[l]]
      /\ births' = [births EXCEPT ![a] = IF act[a].kind = "start" THEN orphan ELSE {}]
  BY DEF DispatchBirthFails, IsBirth
<1>2. N \subseteq act[a].lanes
  <2>1. CASE \/ \E l \in act[a].lanes : row[l].state # "absent"
             \/ act[a].kind = "fork" /\ mgr[act[a].parent] = "none"
    BY <2>1 DEF DispatchBirthFails
  <2>2. CASE ~(\/ \E l \in act[a].lanes : row[l].state # "absent"
               \/ act[a].kind = "fork" /\ mgr[act[a].parent] = "none")
    <3>1. made \subseteq act[a].lanes /\ \E l \in act[a].lanes \ made : orphan = {l}
      BY <2>2 DEF DispatchBirthFails
    <3> QED
      BY <3>1
  <2> QED
    BY <2>1, <2>2
<1>3. ASSUME NEW l \in Lanes
      PROVE  /\ row'[l].by = IF l \in N THEN a ELSE row[l].by
             /\ l \notin N => /\ row'[l].state = "absent" <=> row[l].state = "absent"
                              /\ row[l].by # a => row'[l] = row[l]
  <2>1. table[l] = IF l \in N THEN NewRow(a) ELSE row[l]
    OBVIOUS
  <2>2. table[l] \in RowTypes /\ table[l].by = IF l \in N THEN a ELSE row[l].by
    <3>1. NewRow(a) \in RowTypes /\ NewRow(a).by = a
      BY RowCreated DEF NewRow
    <3> QED
      BY <2>1, <3>1 DEF IInv, Tables
  <2>3. row'[l] = IF table[l].by = a /\ table[l].state = "starting"
                  THEN [table[l] EXCEPT !.state = "failed"] ELSE table[l]
    BY <1>1 DEF BirthFailed
  <2> HIDE DEF table
  <2>4. row'[l].by = table[l].by /\ (row'[l] = table[l] \/ (table[l].state = "starting" /\ row'[l].state = "failed" /\ table[l].by = a))
    BY <2>2, <2>3 DEF RowTypes
  <2> QED
    BY <2>1, <2>2, <2>4
<1> HIDE DEF table, N
<1>4. RowsOwned' /\ StartsSingle'
  BY <1>1, <1>2, <1>3, OwnersStay
<1>5. /\ \A b \in Actions : b # a => outcome'[b] = outcome[b] /\ births'[b] = births[b]
      /\ outcome'[a] = "failed" /\ \A b \in Actions : act[b].lanes \subseteq Lanes
  BY <1>1 DEF IInv, Tables, ActTypes
<1>6. ASSUME NEW b \in Actions, StaysUnder(b), IsBirth(b)'
      PROVE  b # a /\ Under(b) /\ IsBirth(b)
  BY <1>1, <1>5, <1>6 DEF StaysUnder, Under, IsBirth
<1>7. ASSUME NEW b \in Actions, StaysUnder(b), IsBirth(b)'
      PROVE  /\ \A l \in births[b] : Unheard(events, l, proc'[l].state)
             /\ \A l \in act[b].lanes : row[l].state = "starting" => row'[l].state = "starting"
  <2>1. b # a /\ Under(b) /\ IsBirth(b)
    BY <1>6, <1>7
  <2>2. \A l \in act[b].lanes : l \in Lanes /\ l \notin N /\ (row[l].by # a \/ row[l].state = "absent")
    BY <1>1, <1>2, <1>5, <2>1 DEF BirthInvs, BirthsApart, ChildrenInv, RowsOwned
  <2>3. \A l \in births[b] : l \in act[b].lanes /\ Unheard(events, l, proc[l].state)
    BY <2>1 DEF ChildrenInv, AwaitedUnheard
  <2>4. \A l \in act[b].lanes : proc'[l] = proc[l]
    BY <1>1, <2>2 DEF N
  <2> QED
    BY <1>3, <2>2, <2>3, <2>4
<1> QED
  BY <1>1, <1>4, <1>5, <1>6, <1>7, ChildrenKept

(* A worker's ready event precedes its answers.                            *)
LEMMA ChildrenWorker ==
    ASSUME IInv, ChildrenInv, NEW l \in Lanes, WorkerStep(l) \/ WorkerFails(l)
    PROVE  ChildrenInv'
<1>1. PICK s, p : Says(l, s, p)
  BY WorkerSays
<1>2. UNCHANGED <<row, act, outcome, births, inflight>>
  BY DEF WorkerStep, WorkerReady, WorkerApplies, WorkerStops, WorkerFails, rows, dispatcher
<1>3. events \in Seq(GoodEvents) /\ s \in Seq(GoodEvents) /\ events' = events \o s
  BY <1>1 DEF Says, IInv, Messages
<1>4. proc'[l] = p /\ \A m \in Lanes : m # l => proc'[m] = proc[m]
  BY <1>1 DEF Says, IInv, Tables
<1>5. ASSUME NEW m \in Lanes, Unheard(events, m, proc[m].state)
      PROVE  Unheard(events', m, proc'[m].state)
  <2>1. \A i \in 1 .. Len(s) : s[i].kind = "outcome" /\ s[i].lane = m => proc[m].state = "live"
    BY <1>1 DEF Says
  <2>2. proc'[m].state = "live" => proc[m].state = "live" \/ \E i \in 1 .. Len(s) : Hello(s, i, m)
    BY <1>1, <1>4 DEF Says, Hello, Working
  <2> HIDE DEF GoodEvents
  <2> QED
    BY <1>3, <1>5, <2>1, <2>2, UnheardJoined
<1>6. RowsOwned' /\ StartsSingle'
  BY <1>2, OwnersStay
<1>7. ASSUME NEW a \in Actions, StaysUnder(a), IsBirth(a)'
      PROVE  Under(a) /\ \A m \in births[a] : Unheard(events', m, proc'[m].state)
  <2>1. Under(a) /\ IsBirth(a)
    BY <1>2, <1>7 DEF StaysUnder, Under, IsBirth
  <2>2. \A m \in births[a] : m \in Lanes /\ Unheard(events, m, proc[m].state)
    BY <2>1 DEF ChildrenInv, AwaitedUnheard, IInv, Tables
  <2> QED
    BY <1>5, <2>1, <2>2
<1> QED
  BY <1>2, <1>6, <1>7, ChildrenKept

(* The event being handled is the first of the queue.                      *)
LEMMA FirstEvent ==
    ASSUME IInv, events # <<>>
    PROVE  Head(events) = events[1] /\ 1 \in 1 .. Len(events)
<1>1. events \in Seq(GoodEvents)
  BY DEF IInv, Messages
<1> HIDE DEF GoodEvents
<1> QED
  BY <1>1, TailIndex

(* UnheardTail for the event queue.                                        *)
LEMMA UnheardRead ==
    ASSUME IInv, events # <<>>, NEW l, NEW s, Unheard(events, l, s), ~Hello(events, 1, l)
    PROVE  Unheard(Tail(events), l, s) /\ ~(Head(events).kind = "outcome" /\ Head(events).lane = l)
<1>1. events \in Seq(GoodEvents)
  BY DEF IInv, Messages
<1> HIDE DEF GoodEvents
<1> QED
  BY <1>1, UnheardTail

(* Handling an event that no awaited child reports ready with.             *)
LEMMA ChildrenRead ==
    ASSUME IInv, ChildrenInv, events # <<>>, events' = Tail(events), UNCHANGED <<act, proc>>, RowsOwned',
           \A a \in Actions : StaysUnder(a) /\ IsBirth(a) =>
               /\ Under(a)
               /\ births'[a] \subseteq births[a] /\ (act[a].kind = "start" => births'[a] = births[a])
               /\ \A l \in births'[a] : ~Hello(events, 1, l)
               /\ \A l \in act[a].lanes : row[l].state = "starting" =>
                    row'[l].state = "starting" \/ (l \notin births'[a] /\ ~Unrevised)
    PROVE  ChildrenInv'
<1>1. StartsSingle'
  BY DEF ChildrenInv, StartsSingle
<1>2. \A a \in Actions : IsBirth(a)' => IsBirth(a)
  BY DEF IsBirth
<1>3. ASSUME NEW a \in Actions, StaysUnder(a), IsBirth(a)', NEW l \in births'[a]
      PROVE  Unheard(events', l, proc'[l].state)
  <2>1. IsBirth(a) /\ Under(a) /\ l \in births[a] /\ ~Hello(events, 1, l)
    BY <1>2, <1>3
  <2>2. Unheard(events, l, proc[l].state)
    BY <2>1 DEF ChildrenInv, AwaitedUnheard
  <2>3. Unheard(Tail(events), l, proc[l].state)
    BY <2>1, <2>2, UnheardRead
  <2> QED
    BY <2>3
<1> QED
  BY <1>1, <1>2, <1>3, ChildrenKept

(* record_lane_checkpoint moves no row's state.                            *)
LEMMA ChildrenCheckpoint ==
    ASSUME IInv, ChildrenInv, HandleCheckpoint
    PROVE  ChildrenInv'
<1> DEFINE e == Head(events)
           n == CheckpointedRow(row[e.lane], e.ver)
<1>1. /\ events # <<>> /\ events' = Tail(events) /\ e.kind = "checkpoint"
      /\ row' = [row EXCEPT ![e.lane] = n]
      /\ UNCHANGED <<act, proc, outcome, births, inflight>>
  BY DEF HandleCheckpoint, Polling, dispatcher, workers
<1>2. e.lane \in Lanes /\ \A l : ~Hello(events, 1, l)
  BY <1>1, HeadEvent, FirstEvent DEF Hello
<1>3. n.state = row[e.lane].state /\ n.by = row[e.lane].by /\ row \in [Lanes -> RowTypes]
  BY <1>2 DEF CheckpointedRow, RowTypes, IInv, Tables
<1> HIDE DEF n
<1>4. \A l \in Lanes : row'[l].state = row[l].state /\ row'[l].by = row[l].by
  BY <1>1, <1>2, <1>3
<1>5. RowsOwned'
  BY <1>1, <1>4, OwnersStay
<1>6. \A a \in Actions : act[a].lanes \subseteq Lanes
  BY DEF IInv, Tables, ActTypes
<1> QED
  BY <1>1, <1>2, <1>4, <1>5, <1>6, ChildrenRead DEF StaysUnder, Under

(* An outcome comes from a lane that has been heard, so from no awaited    *)
(* child; only a patch or a stop moves a child's state.                    *)
LEMMA ChildrenOutcome ==
    ASSUME IInv, ChildrenInv, HandleOutcome
    PROVE  ChildrenInv'
<1> DEFINE e == Head(events)
           a == e.action
           l == e.lane
           n == RevisedRow(row[l], act[a].kind, e.ver)
<1>1. /\ events # <<>> /\ events' = Tail(events) /\ e.kind = "outcome" /\ act[a].kind # "reallocate"
      /\ UNCHANGED <<act, proc, births>> /\ inflight' = inflight \ {a}
      /\ ApplyLaneOutcome(a, l, e.status, e.ver)
  BY DEF HandleOutcome, Polling, workers
<1>2. l \in Lanes /\ a \in Actions /\ Targets(a, l) /\ e.status \in Answers /\ \A m : ~Hello(events, 1, m)
  BY <1>1, HeadEvent, FirstEvent DEF Hello, Targets
<1>3. ~IsBirth(a) /\ ~Unrevised
  <2>1. act[a].kind \in {"patch", "stop"} /\ act[a].kind \in Kinds \cup {"none"}
    BY <1>1, <1>2 DEF Targets, ChangeKinds, IInv, Tables, ActTypes
  <2> QED
    BY <2>1 DEF IsBirth, BirthKinds, Unrevised
<1>4. row' = row \/ row' = [row EXCEPT ![l] = n]
  BY <1>1 DEF ApplyLaneOutcome
<1>5. n.by = row[l].by /\ n.state # "absent" /\ row[l].state # "absent" /\ row \in [Lanes -> RowTypes]
  BY <1>1, <1>2, HeadEvent DEF RevisedRow, RowTypes, IInv, Tables
<1> HIDE DEF n
<1>6. \A m \in Lanes : row'[m] = row[m] \/ (m = l /\ row'[m].by = row[m].by /\ row[m].state # "absent")
  BY <1>2, <1>4, <1>5
<1>7. RowsOwned'
  BY <1>1, <1>6, OwnersStay
<1>8. \A b \in Actions : IsBirth(b) => outcome'[b] = outcome[b]
  BY <1>1, <1>2, <1>3 DEF ApplyLaneOutcome, IInv, Tables
<1>9. \A b \in Actions : act[b].lanes \subseteq Lanes
  BY DEF IInv, Tables, ActTypes
<1>10. ASSUME NEW b \in Actions, StaysUnder(b), IsBirth(b)
       PROVE  Under(b) /\ l \notin births[b]
  <2>1. Under(b)
    BY <1>1, <1>8, <1>10 DEF StaysUnder, Under
  <2>2. ASSUME NEW m \in births[b] PROVE m # l
    BY <1>1, <1>2, <1>10, <2>1, UnheardRead DEF ChildrenInv, AwaitedUnheard
  <2> QED
    BY <2>1, <2>2
<1> QED
  BY <1>1, <1>2, <1>3, <1>6, <1>7, <1>9, <1>10, ChildrenRead

(* A reallocation moves versions, not states.                              *)
LEMMA ChildrenAllocation ==
    ASSUME IInv, AnswersInv, ChildrenInv, HandleAllocation
    PROVE  ChildrenInv'
<1> DEFINE e == Head(events)
           a == e.action
           S == act[a].lanes
           got == [alloc[a] EXCEPT ![e.lane] = e.status]
           onTime == \A l \in S : row[l].ver = act[a].expected[l]
<1>1. /\ events # <<>> /\ events' = Tail(events) /\ e.kind = "outcome" /\ act[a].kind = "reallocate"
      /\ UNCHANGED <<act, proc, births>>
  BY DEF HandleAllocation, Polling
<1>2. a \in Actions /\ ~IsBirth(a) /\ \A m : ~Hello(events, 1, m)
  BY <1>1, AllocationOnTime, FirstEvent DEF Hello, IsBirth, BirthKinds
<1>3. AllAnswered(S, got) /\ outcome[a] = "pending" /\ ~Refused(S, got) => onTime
  BY AllocationOnTime
<1>4. /\ inflight' \subseteq inflight
      /\ \/ outcome' = outcome \/ outcome' = [outcome EXCEPT ![a] = "failed"]
         \/ outcome' = [outcome EXCEPT ![a] = "applied"]
      /\ row' = row \/ row' = [l \in Lanes |-> IF l \in S THEN AllocatedRow(row[l]) ELSE row[l]]
  <2>1. CASE ~AllAnswered(S, got)
    BY <2>1 DEF HandleAllocation
  <2>2. CASE AllAnswered(S, got)
    BY <1>3, <2>2 DEF HandleAllocation
  <2> QED
    BY <2>1, <2>2
<1>5. \A l \in Lanes : row'[l].state = row[l].state /\ row'[l].by = row[l].by
  <2>1. \A l \in Lanes : AllocatedRow(row[l]).state = row[l].state /\ AllocatedRow(row[l]).by = row[l].by
    BY DEF AllocatedRow, IInv, Tables, RowTypes
  <2> QED
    BY <1>4, <2>1
<1>6. RowsOwned'
  BY <1>1, <1>5, OwnersStay
<1>7. \A b \in Actions : IsBirth(b) => outcome'[b] = outcome[b]
  BY <1>2, <1>4 DEF IInv, Tables
<1>8. \A b \in Actions : act[b].lanes \subseteq Lanes
  BY DEF IInv, Tables, ActTypes
<1>9. \A b \in Actions : StaysUnder(b) /\ IsBirth(b) => Under(b)
  BY <1>4, <1>7 DEF StaysUnder, Under
<1> QED
  BY <1>1, <1>2, <1>5, <1>6, <1>8, <1>9, ChildrenRead

(* A birth under way owns its children.                                    *)
LEMMA ChildOwned ==
    ASSUME BirthInvs, NEW a \in Actions, IsBirth(a), Under(a)
    PROVE  \A l \in act[a].lanes : owner[l] = a
BY DEF BirthInvs, UnderWay, Under

(* A worker's exit ends the birth that awaits it, and no other.            *)
LEMMA ChildrenExit ==
    ASSUME IInv, BirthInvs, ChildrenInv, HandleExit
    PROVE  ChildrenInv'
<1> DEFINE e == Head(events)
           a == owner[e.lane]
           t == ExitedRow(e)
<1>1. /\ events # <<>> /\ events' = Tail(events) /\ e.kind = "exit"
      /\ UNCHANGED <<act, proc>>
  BY DEF HandleExit, Polling
<1>2. e.lane \in Lanes /\ row[e.lane].state # "absent" /\ \A m : ~Hello(events, 1, m)
  BY <1>1, HeadEvent, FirstEvent DEF Hello
<1>3. \A b \in Actions : act[b].lanes \subseteq Lanes
  BY DEF IInv, Tables, ActTypes
<1>4. /\ t \in [Lanes -> RowTypes]
      /\ \A l \in Lanes : /\ t[l].by = row[l].by /\ (l # e.lane => t[l] = row[l])
                          /\ t[l].state = "absent" => row[l].state = "absent"
      /\ \A l \in Lanes : row[l].state = "absent" => t[l].state = "absent"
  <2>1. row \in [Lanes -> RowTypes]
    BY DEF IInv, Tables
  <2> QED
    BY <1>2, <2>1 DEF ExitedRow, RowTypes, RowStates, ActiveStates
<1> HIDE DEF t
<1>5. row' = t \/ row' = BirthFailed(t, a)
  BY DEF HandleExit, t
<1>6. \A l \in Lanes : /\ row'[l].by = row[l].by
                       /\ row'[l].state = "absent" <=> row[l].state = "absent"
                       /\ l # e.lane /\ row[l].by # a => row'[l] = row[l]
  <2>1. ASSUME NEW l \in Lanes, row' = BirthFailed(t, a)
        PROVE  row'[l].by = t[l].by /\ (row'[l] = t[l] \/ (t[l].by = a /\ t[l].state = "starting" /\ row'[l].state = "failed"))
    BY <1>4, <2>1 DEF BirthFailed, RowTypes
  <2> QED
    BY <1>4, <1>5, <2>1
<1>7. RowsOwned'
  BY <1>1, <1>6, OwnersStay
<1>8. ASSUME NEW b \in Actions, StaysUnder(b), IsBirth(b)
      PROVE  Under(b) /\ b # a /\ births'[b] = births[b]
  <2>1. CASE a # NoAction /\ a \in inflight
    <3>1. /\ outcome' = [outcome EXCEPT ![a] = IF @ = "pending" THEN "failed" ELSE @]
          /\ births' = [births EXCEPT ![a] = {}] /\ inflight' = inflight \ {a}
      BY <2>1 DEF HandleExit
    <3>2. b # a
      BY <1>8, <3>1 DEF StaysUnder
    <3> QED
      BY <1>8, <3>1, <3>2 DEF StaysUnder, Under, IInv, Tables
  <2>2. CASE ~(a # NoAction /\ a \in inflight)
    <3>1. UNCHANGED <<outcome, births, inflight>>
      BY <2>2 DEF HandleExit
    <3>2. b # NoAction
      BY DispatchAssumption
    <3> QED
      BY <1>8, <2>2, <3>1, <3>2 DEF StaysUnder, Under
  <2> QED
    BY <2>1, <2>2
<1>9. ASSUME NEW b \in Actions, StaysUnder(b), IsBirth(b), NEW l \in act[b].lanes, row[l].state = "starting"
      PROVE  row'[l].state = "starting"
  <2>1. owner[l] = b /\ l # e.lane /\ l \in Lanes
    BY <1>3, <1>8, <1>9, ChildOwned
  <2>2. row[l].by # a
    BY <1>8, <1>9, <2>1 DEF BirthInvs, BirthsApart, ChildrenInv, RowsOwned
  <2> QED
    BY <1>6, <1>9, <2>1, <2>2
<1> QED
  BY <1>1, <1>2, <1>7, <1>8, <1>9, ChildrenRead

(* Only a fork can have a child that left its starting state while a       *)
(* sibling is awaited, and only by a patch or a stop.                      *)
LEMMA ChildNotStarting ==
    ASSUME IInv, ChildrenInv, NEW a \in Actions, NEW m \in Lanes, owner[m] = a, outcome[a] = "pending",
           NEW l \in Lanes, owner[l] = a, row[l].state # "starting"
    PROVE  act[a].kind = "fork" /\ l \in act[a].lanes /\ ~Unrevised
<1>1. a # NoAction
  BY DispatchAssumption
<1>2. IsBirth(a) /\ Under(a) /\ m \in act[a].lanes /\ l \in act[a].lanes
  BY <1>1 DEF IInv, OwnersSound, Under, IsBirth
<1>3. /\ act[a].kind = "start" => births[a] = act[a].lanes
      /\ \A c \in births[a] : row[c].state = "starting"
  BY <1>2 DEF ChildrenInv, AwaitedUnheard
<1>4. Unrevised => row[l].state = "starting"
  BY <1>2 DEF ChildrenInv, ChildrenStarting
<1> QED
  BY <1>2, <1>3, <1>4 DEF IsBirth, BirthKinds

(* _handle_ready and complete_lane_births touch the children of one birth. *)
LEMMA ChildrenReady ==
    ASSUME IInv, BirthInvs, ChildrenInv, HandleReady
    PROVE  ChildrenInv'
<1> DEFINE e == Head(events)
           a == owner[e.lane]
           children == {l \in Lanes : owner[l] = a}
<1>1. /\ events # <<>> /\ events' = Tail(events) /\ e.kind = "ready"
      /\ UNCHANGED <<act, proc>>
  BY DEF HandleReady, Polling
<1>2. e.lane \in Lanes /\ a \in Actions \cup {NoAction} /\ \A m : Hello(events, 1, m) => m = e.lane
  BY <1>1, HeadEvent, FirstEvent DEF Hello, IInv, Tables
<1>3. \A b \in Actions : act[b].lanes \subseteq Lanes /\ births[b] \subseteq Lanes /\ b # NoAction
  BY DispatchAssumption DEF IInv, Tables, ActTypes
<1>4. row \in [Lanes -> RowTypes] /\ births \in [Actions -> SUBSET Lanes] /\ outcome \in [Actions -> Outcomes]
  BY DEF IInv, Tables
<1>5. a # NoAction => e.lane \in act[a].lanes /\ IsBirth(a)
  BY <1>2 DEF IInv, OwnersSound, IsBirth
<1>6. \A b \in Actions : IsBirth(b) /\ Under(b) /\ b # a => \A l \in act[b].lanes : l # e.lane /\ l \notin children
  BY <1>3, ChildOwned
<1>7. CASE a = NoAction
  <2>1. UNCHANGED <<row, outcome, births, inflight>>
    BY <1>7 DEF HandleReady
  <2>2. RowsOwned'
    BY <1>1, <2>1, OwnersStay
  <2>3. ASSUME NEW b \in Actions, StaysUnder(b), IsBirth(b)
        PROVE  Under(b) /\ \A l \in births[b] : ~Hello(events, 1, l)
    <3>1. Under(b) /\ b # a
      BY <1>3, <1>7, <2>1, <2>3 DEF StaysUnder, Under
    <3>2. births[b] \subseteq act[b].lanes
      BY <2>3, <3>1 DEF ChildrenInv, AwaitedUnheard
    <3> QED
      BY <1>2, <1>6, <2>3, <3>1, <3>2
  <2> QED
    BY <1>1, <2>1, <2>2, <2>3, ChildrenRead
<1>8. CASE a # NoAction /\ Awaited(a, e.lane) # {}
  <2>1. UNCHANGED <<row, outcome, inflight>> /\ births' = [births EXCEPT ![a] = births[a] \ {e.lane}]
    BY <1>8 DEF HandleReady, Awaited
  <2>2. RowsOwned'
    BY <1>1, <2>1, OwnersStay
  <2>3. ASSUME NEW b \in Actions, StaysUnder(b), IsBirth(b)
        PROVE  /\ Under(b) /\ births'[b] \subseteq births[b]
               /\ act[b].kind = "start" => births'[b] = births[b]
               /\ \A l \in births'[b] : ~Hello(events, 1, l)
    <3>1. Under(b)
      BY <2>1, <2>3 DEF StaysUnder, Under
    <3>2. births[b] \subseteq act[b].lanes /\ (act[b].kind = "start" => births[b] = act[b].lanes)
      BY <2>3, <3>1 DEF ChildrenInv, AwaitedUnheard
    <3>3. CASE b = a
      <4>1. births'[b] = births[b] \ {e.lane}
        BY <1>4, <2>1, <3>3
      <4>2. act[b].kind # "start"
        <5>1. SUFFICES ASSUME act[b].kind = "start" PROVE FALSE
          OBVIOUS
        <5>2. PICK c \in Lanes : act[b].lanes = {c}
          BY <5>1 DEF ChildrenInv, StartsSingle
        <5> QED
          BY <1>5, <1>8, <3>2, <3>3, <5>1, <5>2 DEF Awaited
      <4> QED
        BY <1>2, <3>1, <4>1, <4>2
    <3>4. CASE b # a
      <4>1. births'[b] = births[b]
        BY <1>4, <2>1, <3>4
      <4> QED
        BY <1>2, <1>6, <2>3, <3>1, <3>2, <3>4, <4>1
    <3> QED
      BY <3>3, <3>4
  <2> QED
    BY <1>1, <2>1, <2>2, <2>3, ChildrenRead
<1>9. CASE a # NoAction /\ Awaited(a, e.lane) = {} /\ outcome[a] = "pending" /\ \E l \in children : row[l].state # "starting"
  <2>1. Fault /\ births' = [births EXCEPT ![a] = {}] /\ inflight' = inflight
    BY <1>9 DEF HandleReady
  <2>2. act[a].kind = "fork"
    BY <1>2, <1>9, ChildNotStarting
  <2>3. \A l \in Lanes : row'[l] = row[l] \/ (row[l].state = "running" /\ row'[l].by = row[l].by)
    BY <1>4, <2>1 DEF Fault, RowTypes
  <2>4. RowsOwned'
    BY <1>1, <2>3, OwnersStay
  <2>5. outcome' = outcome
    BY <2>1 DEF Fault
  <2>6. ASSUME NEW b \in Actions, StaysUnder(b), IsBirth(b)
        PROVE  /\ Under(b) /\ births'[b] \subseteq births[b]
               /\ act[b].kind = "start" => births'[b] = births[b]
               /\ \A l \in births'[b] : ~Hello(events, 1, l)
    <3>1. Under(b)
      BY <2>1, <2>5, <2>6 DEF StaysUnder, Under
    <3>2. births[b] \subseteq act[b].lanes
      BY <2>6, <3>1 DEF ChildrenInv, AwaitedUnheard
    <3>3. CASE b = a
      BY <1>4, <2>1, <2>2, <3>1, <3>3
    <3>4. CASE b # a
      <4>1. births'[b] = births[b]
        BY <1>4, <2>1, <3>4
      <4> QED
        BY <1>2, <1>6, <2>6, <3>1, <3>2, <3>4, <4>1
    <3> QED
      BY <3>3, <3>4
  <2>7. \A l \in Lanes : row[l].state = "starting" => row'[l].state = "starting"
    BY <2>3
  <2> QED
    BY <1>1, <1>3, <2>4, <2>6, <2>7, ChildrenRead
<1>10. CASE a # NoAction /\ Awaited(a, e.lane) = {} /\ ~(outcome[a] = "pending" /\ \E l \in children : row[l].state # "starting")
  <2>1. /\ inflight' = inflight \ {a} /\ births' = [births EXCEPT ![a] = {}]
        /\ \/ outcome' = outcome /\ row' = row
           \/ /\ outcome[a] = "pending" /\ outcome' = [outcome EXCEPT ![a] = "applied"]
              /\ row' = [l \in Lanes |-> IF l \in children THEN [row[l] EXCEPT !.state = "running"] ELSE row[l]]
    BY <1>10 DEF HandleReady
  <2>2. ASSUME NEW l \in Lanes
        PROVE  /\ row'[l].by = row[l].by /\ (l \notin children => row'[l] = row[l])
               /\ row[l].state = "absent" => row'[l].state = "absent"
    BY <1>4, <1>10, <2>1 DEF RowTypes
  <2>3. RowsOwned'
    BY <1>1, <2>2, OwnersStay
  <2>4. ASSUME NEW b \in Actions, StaysUnder(b), IsBirth(b)
        PROVE  /\ Under(b) /\ births'[b] = births[b]
               /\ \A l \in births[b] : ~Hello(events, 1, l)
               /\ \A l \in act[b].lanes : row'[l] = row[l]
    <3>1. b # a
      BY <2>1, <2>4 DEF StaysUnder
    <3>2. Under(b) /\ births'[b] = births[b]
      BY <1>4, <2>1, <2>4, <3>1 DEF StaysUnder, Under
    <3>3. births[b] \subseteq act[b].lanes
      BY <2>4, <3>2 DEF ChildrenInv, AwaitedUnheard
    <3> QED
      BY <1>2, <1>3, <1>6, <2>2, <2>4, <3>1, <3>2, <3>3
  <2> QED
    BY <1>1, <2>3, <2>4, ChildrenRead
<1> QED
  BY <1>2, <1>7, <1>8, <1>9, <1>10

(* The end of a coordinator leaves no birth under way.                     *)
LEMMA ChildrenEnd ==
    ASSUME IInv, BirthInvs, ChildrenInv,
           ShutdownEnd \/ Crash \/ \E a \in Actions, made \in SUBSET Lanes : CrashInBirth(a, made)
    PROVE  ChildrenInv'
<1>1. act' = act /\ inflight' = {}
  BY DEF ShutdownEnd, Crash, CrashInBirth, GoDown, rows
<1>2. row \in [Lanes -> RowTypes]
  BY DEF IInv, Tables
<1>3. \A l \in Lanes : row'[l].state # "absent" =>
        \/ row[l].state # "absent" /\ row'[l].by = row[l].by
        \/ row'[l].by \in Actions /\ IsBirth(row'[l].by) /\ l \in act[row'[l].by].lanes
  <2>1. CASE ShutdownEnd
    <3>1. ASSUME NEW l \in Lanes
          PROVE  row'[l] = row[l] \/ (row[l].ckpt # NoCheckpoint /\ row'[l].by = row[l].by)
      BY <1>2, <2>1 DEF ShutdownEnd, Preserved, RowTypes
    <3> QED
      BY <3>1 DEF IInv, RowsSound, RowSound
  <2>2. CASE Crash
    BY <2>2 DEF Crash, rows
  <2>3. ASSUME NEW a \in Actions, NEW made \in SUBSET Lanes, CrashInBirth(a, made)
        PROVE  \A l \in Lanes : row'[l] = row[l] \/ (row'[l].by = a /\ IsBirth(a) /\ l \in act[a].lanes)
    BY <2>3 DEF CrashInBirth, NewRow, IsBirth, BirthKinds
  <2> QED
    BY <2>1, <2>2, <2>3
<1>4. RowsOwned' /\ StartsSingle'
  BY <1>1, <1>3, OwnersStay
<1> QED
  BY <1>1, <1>4, ChildrenKept DEF StaysUnder

(* recover finds none under way.                                           *)
LEMMA ChildrenRecover ==
    ASSUME IInv, BirthInvs, ChildrenInv, NEW R \in SUBSET Lanes, Recover(R)
    PROVE  ChildrenInv'
<1>1. act' = act /\ inflight' = {}
  BY DEF Recover, dispatcher, BirthInvs, UnderWay
<1>2. row \in [Lanes -> RowTypes]
  BY DEF IInv, Tables
<1>3. \A l \in Lanes : row'[l] = row[l] \/ (row[l].state \in ActiveStates /\ row'[l].by = row[l].by)
  BY <1>2 DEF Recover, RowTypes
<1>4. RowsOwned' /\ StartsSingle'
  BY <1>1, <1>3, OwnersStay DEF ActiveStates
<1> QED
  BY <1>1, <1>4, ChildrenKept DEF StaysUnder

(* activate_recovered_lanes moves paused lanes only.                       *)
LEMMA ChildrenActivate ==
    ASSUME IInv, ChildrenInv, ActivateRecovered
    PROVE  ChildrenInv'
<1>1. UNCHANGED <<act, outcome, inflight, births, events, proc>>
  BY DEF ActivateRecovered, dispatcher, workers
<1>2. row \in [Lanes -> RowTypes] /\ \A a \in Actions : act[a].lanes \subseteq Lanes
  BY DEF IInv, Tables, ActTypes
<1>3. \A l \in Lanes : row'[l] = row[l] \/ (row[l].state = "paused" /\ row'[l].by = row[l].by)
  BY <1>2 DEF ActivateRecovered, RowTypes
<1>4. RowsOwned' /\ StartsSingle'
  BY <1>1, <1>3, OwnersStay
<1>5. \A a \in Actions : IsBirth(a) /\ Under(a) => \A l \in births[a] : Unheard(events, l, proc[l].state)
  BY DEF ChildrenInv, AwaitedUnheard
<1>6. \A a \in Actions : (IsBirth(a)' => IsBirth(a)) /\ (StaysUnder(a) => Under(a))
  BY <1>1 DEF IsBirth, StaysUnder, Under
<1>7. \A l \in Lanes : row[l].state = "starting" => row'[l].state = "starting"
  BY <1>3
<1> QED
  BY <1>1, <1>2, <1>4, <1>5, <1>6, <1>7, ChildrenKept

(* Every step keeps the account of children.                               *)
LEMMA NextChildren ==
    ASSUME IInv, BirthInvs, AnswersInv, ChildrenInv, [Next]_vars
    PROVE  ChildrenInv'
<1>1. CASE Commit
  BY <1>1, ChildrenCommits
<1>2. ASSUME NEW a \in Actions, DispatchExpired(a) PROVE ChildrenInv'
  BY <1>2, ChildrenDispatch
<1>3. CASE Dispatch
  <2>1. PICK a \in Actions : \/ DispatchBirth(a)
                             \/ \E made, orphan \in SUBSET Lanes : DispatchBirthFails(a, made, orphan)
                             \/ DispatchChange(a)
                             \/ \E sent \in SUBSET Lanes : DispatchChangeFails(a, sent)
    BY <1>3 DEF Dispatch
  <2> QED
    BY <2>1, ChildrenBirth, ChildrenBirthFails, ChildrenDispatch
<1>4. ASSUME NEW l \in Lanes, WorkerStep(l) \/ WorkerFails(l) PROVE ChildrenInv'
  BY <1>4, ChildrenWorker
<1>5. CASE Poll
  BY <1>5, ChildrenCheckpoint, ChildrenReady, ChildrenOutcome, ChildrenAllocation, ChildrenExit DEF Poll
<1>6. CASE ShutdownEnd \/ Crash \/ \E a \in Actions, made \in SUBSET Lanes : CrashInBirth(a, made)
  BY <1>6, ChildrenEnd
<1>7. ASSUME NEW R \in SUBSET Lanes, Recover(R) PROVE ChildrenInv'
  BY <1>7, ChildrenRecover
<1>8. CASE ActivateRecovered
  BY <1>8, ChildrenActivate
<1>9. CASE Shutdown \/ UNCHANGED vars
  <2>1. UNCHANGED <<act, row, births, events, proc, outcome, inflight>>
    BY <1>9 DEF Shutdown, BeginDrain, vars, rows, dispatcher, workers, manager
  <2> QED
    BY <2>1, ChildrenAside DEF StaysUnder, Under
<1> QED
  BY <1>1, <1>2, <1>3, <1>4, <1>5, <1>6, <1>7, <1>8, <1>9 DEF Next

(* It holds at the start.                                                  *)
LEMMA InitChildren ==
    ASSUME Init
    PROVE  ChildrenInv
<1>1. /\ \A l \in Lanes : row[l].state = "absent"
      /\ \A a \in Actions : act[a].kind = "none"
  BY DEF Init, NoAct
<1> QED
  BY <1>1 DEF ChildrenInv, RowsOwned, StartsSingle, AwaitedUnheard, ChildrenStarting, IsBirth, BirthKinds

-----------------------------------------------------------------------------
(* The event pump raises only at the last child's ready event of a fork    *)
(* one of whose children has left its starting state.                      *)
FaultsAtForks ==
    faulted' # faulted =>
        \E a \in Actions : /\ act[a].kind = "fork" /\ Under(a)
                           /\ \E l \in act[a].lanes : row[l].state # "starting"

(* A step that raises is _handle_ready's, for a fork whose child moved on. *)
LEMMA FaultCause ==
    ASSUME IInv, AnswersInv, ChildrenInv, [Next]_vars, faulted' # faulted
    PROVE  FaultsAtForks /\ ~Unrevised /\ "fork" \in Kinds
<1> DEFINE e == Head(events)
           a == owner[e.lane]
           children == {l \in Lanes : owner[l] = a}
<1>1. HandleReady
  <2>1. ~HandleAllocation
    BY AllocationNoFault
  <2>2. ~HandleCheckpoint /\ ~HandleOutcome
    BY DEF HandleCheckpoint, HandleOutcome, NoFault
  <2>3. ~HandleExit
    BY DEF HandleExit, NoFault
  <2>4. ~Commit /\ ~Dispatch
    BY ZenonT(30) DEF Commit, CommitStart, CommitFork, CommitChange, CommitReallocation, CommitAs, Dispatch,
       DispatchBirth, DispatchBirthFails, DispatchChange, DispatchChangeFails
  <2>5. \A b \in Actions : ~DispatchExpired(b)
    BY DEF DispatchExpired
  <2>6. \A l \in Lanes : ~WorkerStep(l) /\ ~WorkerFails(l)
    BY DEF WorkerStep, WorkerReady, WorkerApplies, WorkerStops, WorkerFails
  <2>7. ~Shutdown /\ ~ShutdownEnd /\ ~Crash /\ ~ActivateRecovered /\ ~UNCHANGED vars
    BY DEF Shutdown, ShutdownEnd, Crash, ActivateRecovered, vars
  <2>8. \A b \in Actions, made \in SUBSET Lanes : ~CrashInBirth(b, made)
    BY DEF CrashInBirth
  <2>9. \A R \in SUBSET Lanes : ~Recover(R)
    BY DEF Recover
  <2> QED
    BY <2>1, <2>2, <2>3, <2>4, <2>5, <2>6, <2>7, <2>8, <2>9 DEF Next, Poll
<1>2. /\ events # <<>> /\ e.kind = "ready" /\ a # NoAction /\ outcome[a] = "pending"
      /\ \E l \in children : row[l].state # "starting"
  BY <1>1 DEF HandleReady, Polling, NoFault
<1>3. e.lane \in Lanes /\ a \in Actions
  BY <1>2, HeadEvent DEF IInv, Tables
<1>4. PICK l \in Lanes : owner[l] = a /\ row[l].state # "starting"
  BY <1>2
<1>5. act[a].kind = "fork" /\ l \in act[a].lanes /\ ~Unrevised
  BY <1>2, <1>3, <1>4, ChildNotStarting
<1>6. Under(a)
  BY <1>2, <1>3 DEF IInv, OwnersSound, Under
<1>7. "fork" \in Kinds
  BY <1>3, <1>5 DEF IInv, Tables, ActTypes
<1> QED
  BY <1>3, <1>4, <1>5, <1>6, <1>7 DEF FaultsAtForks

(* The accounts of answers and children are invariant, for every mix of    *)
(* action kinds.                                                           *)
LEMMA AccountsHold == Spec => [](IInv /\ AnswersInv /\ ChildrenInv)
<1>1. Init => IInv /\ BirthInvs /\ AnswersInv /\ ChildrenInv
  BY InitInv, InitBirths, InitAnswers, InitChildren
<1>2. IInv /\ BirthInvs /\ AnswersInv /\ ChildrenInv /\ [Next]_vars => (IInv /\ BirthInvs /\ AnswersInv /\ ChildrenInv)'
  BY NextInv, NextBirths, NextAnswers, NextChildren
<1> QED
  BY <1>1, <1>2, PTL DEF Spec

(* For every mix of action kinds, the event pump raises (paused_fault)     *)
(* only in _handle_ready, for a fork one of whose children left its        *)
(* starting state before its last sibling was ready                        *)
(* (complete_lane_births).                                                 *)
THEOREM OnlyForksFault == Spec => [][FaultsAtForks]_vars
<1>1. IInv /\ AnswersInv /\ ChildrenInv /\ [Next]_vars => [FaultsAtForks]_vars
  BY FaultCause DEF FaultsAtForks
<1> QED
  BY <1>1, AccountsHold, PTL DEF Spec

(* Without forks, or without patches and stops, no sequence of lane        *)
(* actions, failures, crashes and recoveries makes the event pump raise.   *)
THEOREM NoFaults ==
    ASSUME "fork" \notin Kinds \/ Unrevised
    PROVE  Spec => []NoCoordinatorFault
<1>1. Init => NoCoordinatorFault
  BY DEF Init, NoCoordinatorFault
<1>2. IInv /\ AnswersInv /\ ChildrenInv /\ NoCoordinatorFault /\ [Next]_vars => NoCoordinatorFault'
  BY FaultCause DEF NoCoordinatorFault
<1> QED
  BY <1>1, <1>2, AccountsHold, PTL DEF Spec
=============================================================================
