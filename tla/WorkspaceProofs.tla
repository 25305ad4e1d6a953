--------------------------- MODULE WorkspaceProofs ---------------------------
(***************************************************************************)
(* Machine-checked proofs about two users of the workspace database that   *)
(* share it with other processes: ComparisonSuite, for any number of       *)
(* workers and arms, any plans and any cap, and SchemaMigration, for any   *)
(* number of processes that open the file and any number that die.         *)
(***************************************************************************)
EXTENDS ComparisonSuite, SchemaMigration, FiniteSetTheorems, WellFoundedInduction, TLAPS

(* The arm of a worker at work is one of the plan's, request_stop counts   *)
(* only a request that it had room for, and a worker that settles knows    *)
(* its result.                                                             *)
CurrentArm ==
    /\ \A w \in Workers : pc[w] \in AtWork => cur[w] \in Arms
    /\ stopper = "attempt" => stops < MaxStops
    /\ \A w \in Workers : pc[w] = "settling" => result[w] # "none"

(* What a lease excludes: workers at work have one, and no two are valid.  *)
Leased == AtWork \cup {"leased", "loop", "stopping", "raised"}

LeaseInv ==
    /\ \A w \in Workers : pc[w] \in Leased => lease[w] \in {"fresh", "stale"}
    /\ \A w \in Workers : pc[w] \in {"off", "verified", "launching"} => lease[w] = "none"
    /\ \A v, w \in Workers : LeaseValid(v) /\ LeaseValid(w) => v = w

(* A worker reserves the arms in their order, each once.                   *)
ReservedInOrder ==
    \A w \in Workers, a \in Arms :
        /\ pc[w] \notin {"done", "dead"}
        /\ \/ a > cur[w]
           \/ /\ a = cur[w]
              /\ pc[w] \in {"off", "verified", "launching", "leased", "loop", "preflight", "thread_ready"}
        => resv[w][a] = "none"

(* A worker that asks an arm, or has asked it, began the arm's only turn;  *)
(* with fail_closed it has asked the first arm before any other.           *)
Asks(w, a) == resv[w][a] = "reached" \/ (cur[w] = a /\ pc[w] \in {"turn", "inference_started"})

AskedOnce ==
    /\ \A w \in Workers, a \in Arms : Asks(w, a) => turn[a] # "none"
    /\ \A v, w \in Workers, a \in Arms : Asks(v, a) /\ Asks(w, a) => v = w
    /\ \A w \in Workers : pc[w] = "inference_started" => resv[w][cur[w]] = "reached"

FirstAskedFirst ==
    failClosed => \A w \in Workers :
        cur[w] > 1 \/ (\E a \in Arms : resv[w][a] = "reached") => resv[w][1] = "reached"

IInv ==
    /\ TypeOK /\ CurrentArm /\ LeaseInv /\ ReservedInOrder
    /\ InferenceAccounting /\ AskedOnce /\ FirstAskedFirst

-----------------------------------------------------------------------------
(* The first arm of a conversation is an arm.                              *)
LEMMA HeadIsArm ==
    ASSUME plan \in Plans, NEW a \in Arms
    PROVE  FirstArm(a) \in Arms
<1> DEFINE T == {a - h : h \in {h \in 1 .. a : h \notin resumes}}
<1>1. a \in Nat /\ a >= 1 /\ N \in Nat /\ 1 \notin resumes
  BY PlanAssumption DEF Arms, resumes
<1>2. \A h \in 1 .. a : a - h \in Nat
  BY <1>1
<1>3. T \in SUBSET Nat
  BY <1>2
<1>4. a - 1 \in T
  BY <1>1
<1>5. PICK t \in T : \A u \in T : ~(<<u, t>> \in OpToRel(<, Nat))
  BY <1>3, <1>4, NatLessThanWellFounded, WFMin
<1>6. PICK h \in 1 .. a : h \notin resumes /\ t = a - h
  OBVIOUS
<1>7. \A k \in (h + 1) .. a : k \in resumes
  <2> SUFFICES ASSUME NEW k \in (h + 1) .. a, k \notin resumes PROVE FALSE
    OBVIOUS
  <2>1. k \in 1 .. a /\ a - k \in Nat /\ a - k < a - h /\ a - h \in Nat
    BY <1>1, <1>6
  <2>2. a - k \in T
    BY <2>1
  <2>3. <<a - k, t>> \in OpToRel(<, Nat)
    BY <1>6, <2>1 DEF OpToRel
  <2> QED
    BY <1>5, <2>2, <2>3
<1>8. \E x \in 1 .. a : x \notin resumes /\ (x + 1) .. a \subseteq resumes
  BY <1>6, <1>7
<1>9. FirstArm(a) \in 1 .. a
  BY <1>8 DEF FirstArm
<1> QED
  BY <1>1, <1>9 DEF Arms

(* The numbers of a plan.                                                  *)
LEMMA Numbers ==
    /\ N \in Nat /\ N >= 1 /\ Cap \in Nat /\ MaxStops \in Nat
    /\ 1 \in 1 .. (N + 1) /\ \A s \in 0 .. MaxStops : s \in Nat
BY PlanAssumption

(* A count of stop requests that moves by one.                             *)
LEMMA StopsStep ==
    ASSUME NEW m \in Nat, NEW s \in 0 .. m, NEW t,
           t = s \/ (s < m /\ t = s + 1) \/ (s > 0 /\ t = s - 1)
    PROVE  t \in 0 .. m /\ ((t = s \/ t = s - 1) /\ s < m => t < m)
OBVIOUS

(* The reservations of a suite can be counted.                             *)
LEMMA ReservationsFinite ==
    /\ \A state : IsFiniteSet(Reservations(state)) /\ Cardinality(Reservations(state)) \in Nat
    /\ \A state, x : x \in Reservations(state) => Cardinality(Reservations(state)) >= 1
<1>1. IsFiniteSet(Workers) /\ IsFiniteSet(Arms)
  BY PlanAssumption, FS_Interval DEF Arms
<1>2. IsFiniteSet(Workers \X Arms)
  BY <1>1, FS_Product
<1>3. \A state : Reservations(state) \in SUBSET (Workers \X Arms)
  BY DEF Reservations
<1>4. \A state : IsFiniteSet(Reservations(state)) /\ Cardinality(Reservations(state)) \in Nat
  BY <1>2, <1>3, FS_Subset, FS_CardinalityType
<1>5. \A state : Reservations(state) # {} => Cardinality(Reservations(state)) # 0
  BY <1>4, FS_EmptySet
<1> QED
  BY <1>4, <1>5

(* An open reservation leaves room for the inference it may become.        *)
LEMMA ConsumeRoom ==
    ASSUME TypeOK, InferenceAccounting, NEW w \in Workers, NEW a \in Arms, resv[w][a] = "open"
    PROVE  consumed + 1 \in 0 .. Cap
<1>1. <<w, a>> \in Reservations("open")
  BY DEF Reservations
<1>2. Cardinality(Reservations("open")) \in Nat /\ Cardinality(Reservations("open")) >= 1
  BY <1>1, ReservationsFinite
<1>3. consumed \in 0 .. Cap
  BY DEF TypeOK
<1> QED
  BY <1>2, <1>3, Numbers DEF InferenceAccounting

(* Every variable has its type at the start.                               *)
LEMMA TypeInit == Init => TypeOK /\ CurrentArm
BY PlanAssumption DEF Init, TypeOK, CurrentArm, AtWork, Arms, Terminal

(* Every step keeps the types: the operator's ...                          *)
LEMMA OperatorTypes ==
    ASSUME TypeOK, CurrentArm, Prepare \/ Authorize \/ StopRead \/ StopWrite
    PROVE  TypeOK' /\ CurrentArm'
<1> USE DEF TypeOK, CurrentArm
<1>1. CASE Prepare
  BY <1>1 DEF Prepare, stopVars, local
<1>2. CASE Authorize
  BY <1>2 DEF Authorize, stopVars, local
<1>3. CASE StopRead
  BY <1>3 DEF StopRead, rows, local
<1>4. CASE StopWrite
  <2>1. stops' \in 0 .. MaxStops /\ (stopper' = "attempt" => stops' < MaxStops)
    <3>1. stops \in 0 .. MaxStops /\ stopper' = "idle"
      BY <1>4 DEF StopWrite
    <3>2. stops' = stops \/ (stops < MaxStops /\ stops' = stops + 1)
      BY <1>4 DEF StopWrite
    <3>3. stops' \in 0 .. MaxStops
      BY <3>1, <3>2, Numbers, StopsStep
    <3> QED
      BY <3>1, <3>3
  <2> QED
    BY <1>4, <2>1 DEF StopWrite, local
<1> QED
  BY <1>1, <1>2, <1>3, <1>4

(* ... those before the arms ...                                           *)
LEMMA StartTypes ==
    ASSUME TypeOK, CurrentArm, NEW w \in Workers,
           Launch(w) \/ CreateAttempt(w) \/ AcquireLease(w) \/ LeaseRefused(w) \/ MarkSuiteRunning(w)
    PROVE  TypeOK' /\ CurrentArm'
<1> USE DEF TypeOK, CurrentArm, AtWork, Goto
<1>1. CASE Launch(w)
  BY <1>1 DEF Launch, rows, stopVars, local
<1>2. CASE CreateAttempt(w)
  <2>1. attempt' \in [Workers -> {"none", "launching", "running", "ended", "interrupted"}]
    BY <1>2 DEF CreateAttempt
  <2>2. PICK label \in {"launching", "done"} : pc' = [pc EXCEPT ![w] = label]
    BY <1>2 DEF CreateAttempt
  <2> QED
    BY <1>2, <2>1, <2>2, ZenonT(30) DEF CreateAttempt, rows, stopVars, local
<1>3. CASE AcquireLease(w)
  BY <1>3 DEF AcquireLease, rows, stopVars, local
<1>4. CASE LeaseRefused(w)
  BY <1>4 DEF LeaseRefused, rows, stopVars, local
<1>5. CASE MarkSuiteRunning(w)
  BY <1>5 DEF MarkSuiteRunning, EnsureRuntimeCampaign, stopVars, local
<1> QED
  BY <1>1, <1>2, <1>3, <1>4, <1>5

(* ... where the outcome of an arm leads ...                               *)
LEMMA ArmEndsTypes ==
    ASSUME TypeOK, CurrentArm, NEW w \in Workers, NEW outcome, pc[w] \in AtWork \cup {"loop"},
           cur[w] \in Arms, ArmEnds(w, outcome)
    PROVE  /\ \E label \in {"loop", "stopping", "raised"} : pc' = [pc EXCEPT ![w] = label]
           /\ cur' \in [Workers -> 1 .. (N + 1)] /\ soft' \in [Workers -> BOOLEAN]
           /\ \A v \in Workers : v # w => cur'[v] = cur[v]
<1>1. cur[w] + 1 \in 1 .. (N + 1)
  BY PlanAssumption DEF Arms
<1>2. /\ pc \in [Workers -> AtWork \cup
                 {"off", "verified", "launching", "leased", "loop", "stopping",
                  "raised", "failing", "settling", "releasing", "done", "dead"}]
      /\ cur \in [Workers -> 1..(N + 1)] /\ soft \in [Workers -> BOOLEAN]
  BY DEF TypeOK
<1> QED
  BY <1>1, <1>2 DEF ArmEnds, NextArm, Goto

(* ... what a release makes of a reservation ...                           *)
LEMMA ReleaseTypes ==
    ASSUME TypeOK, NEW w \in Workers, cur[w] \in Arms, ReleaseReservation(w)
    PROVE  /\ resv' \in [Workers -> [Arms -> {"none", "open", "reached", "released"}]]
           /\ UNCHANGED consumed
           /\ \A v \in Workers, a \in Arms :
                resv'[v][a] = IF v = w /\ a = cur[w] /\ resv[v][a] = "open" THEN "released" ELSE resv[v][a]
BY DEF ReleaseReservation, TypeOK

(* ... the arms ...                                                        *)
LEMMA ArmTypes ==
    ASSUME TypeOK, CurrentArm, InferenceAccounting, NEW w \in Workers, Arm(w)
    PROVE  TypeOK' /\ CurrentArm'
<1> USE DEF TypeOK, CurrentArm, AtWork, Goto, Transition, Heartbeat
<1>1. CASE ArmStopped(w)
  BY <1>1 DEF ArmStopped, rows, stopVars, local
<1>2. CASE ArmRefused(w) \/ ThreadFails(w) \/ ReserveFails(w) \/ BeginTurnFails(w) \/ AnswerNotKept(w)
  <2>1. Raise(w)
    BY <1>2 DEF ArmRefused, ThreadFails, ReserveFails, BeginTurnFails, AnswerNotKept
  <2> QED
    BY <2>1 DEF Raise, rows, stopVars, local
<1>3. CASE ArmBlocked(w)
  <2>1. pc[w] = "loop" /\ cur[w] \in Arms /\ ArmEnds(w, "blocked")
    BY <1>3 DEF ArmBlocked
  <2>2. PICK label \in {"loop", "stopping", "raised"} : pc' = [pc EXCEPT ![w] = label]
    BY <2>1, ArmEndsTypes
  <2>3. /\ cur' \in [Workers -> 1 .. (N + 1)] /\ soft' \in [Workers -> BOOLEAN]
        /\ \A v \in Workers : v # w => cur'[v] = cur[v]
    BY <2>1, ArmEndsTypes
  <2> QED
    BY <1>3, <2>1, <2>2, <2>3, ZenonT(30) DEF ArmBlocked, stopVars, Terminal
<1>4. CASE ArmBegins(w)
  BY <1>4 DEF ArmBegins, stopVars, local
<1>5. CASE ThreadStarts(w)
  <2>1. pc[w] = "preflight" /\ cur[w] \in Arms /\ FirstArm(cur[w]) \in Arms
    BY <1>5, HeadIsArm DEF ThreadStarts
  <2>2. groups' \in [Workers -> SUBSET Arms]
    BY <1>5, <2>1, ZenonT(30) DEF ThreadStarts
  <2>3. CASE /\ Transition(cur[w], "thread_ready") /\ Goto(w, "thread_ready")
             /\ UNCHANGED <<cur, soft>>
    BY <1>5, <2>1, <2>2, <2>3 DEF ThreadStarts, stopVars
  <2>4. CASE Transition(cur[w], "failed") /\ ArmEnds(w, "failed")
    <3>1. PICK label \in {"loop", "stopping", "raised"} : pc' = [pc EXCEPT ![w] = label]
      BY <2>1, <2>4, ArmEndsTypes
    <3>2. /\ cur' \in [Workers -> 1 .. (N + 1)] /\ soft' \in [Workers -> BOOLEAN]
          /\ \A v \in Workers : v # w => cur'[v] = cur[v]
      BY <2>1, <2>4, ArmEndsTypes
    <3> QED
      BY <1>5, <2>1, <2>2, <2>4, <3>1, <3>2, ZenonT(30) DEF ThreadStarts, stopVars, Terminal
  <2> QED
    BY <1>5, <2>3, <2>4 DEF ThreadStarts
<1>6. CASE ReserveInference(w)
  BY <1>6 DEF ReserveInference, stopVars, local
<1>7. CASE BeginTurn(w)
  <2>1. PICK label \in {"turn", "raised"} : pc' = [pc EXCEPT ![w] = label]
    BY <1>7 DEF BeginTurn
  <2> QED
    BY <1>7, <2>1 DEF BeginTurn, stopVars, local
<1>8. CASE ConsumeInference(w)
  <2>1. cur[w] \in Arms /\ consumed + 1 \in 0 .. Cap
    BY <1>8, ConsumeRoom DEF ConsumeInference
  <2>2. consumed' \in 0 .. Cap
    BY <1>8, <2>1 DEF ConsumeInference
  <2> QED
    BY <1>8, <2>1, <2>2 DEF ConsumeInference, stopVars, local
<1>9. ASSUME NEW o \in {"stopped", "failed"}, TurnLost(w, o) PROVE TypeOK' /\ CurrentArm'
  <2>1. cur[w] \in Arms /\ pc[w] \in AtWork
    BY <1>9 DEF TurnLost
  <2>2. /\ \E label \in {"loop", "stopping", "raised"} : pc' = [pc EXCEPT ![w] = label]
        /\ cur' \in [Workers -> 1 .. (N + 1)] /\ soft' \in [Workers -> BOOLEAN]
        /\ \A v \in Workers : v # w => cur'[v] = cur[v]
    <3>1. CASE ArmEnds(w, o)
      BY <2>1, <3>1, ArmEndsTypes
    <3>2. CASE Goto(w, "raised") /\ UNCHANGED <<cur, soft>>
      BY <3>2
    <3> QED
      BY <1>9, <3>1, <3>2 DEF TurnLost
  <2>3. stops' \in 0 .. MaxStops /\ (stopper' = "attempt" => stops' < MaxStops)
    <3>1. stops \in 0 .. MaxStops /\ UNCHANGED stopper /\ (stopper = "attempt" => stops < MaxStops)
      BY <1>9 DEF TurnLost
    <3>2. stops' = stops \/ (stops > 0 /\ stops' = stops - 1)
      BY <1>9 DEF TurnLost
    <3>3. stops' \in 0 .. MaxStops /\ (stops < MaxStops => stops' < MaxStops)
      BY <3>1, <3>2, Numbers, StopsStep
    <3> QED
      BY <3>1, <3>3
  <2>4. groups' \in [Workers -> SUBSET Arms]
    BY <1>9 DEF TurnLost
  <2>5. resv' \in [Workers -> [Arms -> {"none", "open", "reached", "released"}]] /\ UNCHANGED consumed
    BY <1>9, <2>1, ReleaseTypes DEF TurnLost
  <2>6. turn' \in [Arms -> Terminal \cup {"none", "open"}] /\ arm' \in [Arms -> Terminal \cup AtWork \cup {"planned"}]
    BY <1>9, <2>1 DEF TurnLost, Terminal
  <2>7. PICK label \in {"loop", "stopping", "raised"} : pc' = [pc EXCEPT ![w] = label]
    BY <2>2
  <2>8. /\ pc' \in [Workers -> AtWork \cup
                 {"off", "verified", "launching", "leased", "loop", "stopping",
                  "raised", "failing", "settling", "releasing", "done", "dead"}]
        /\ \A v \in Workers : pc'[v] \in AtWork => cur'[v] \in Arms
        /\ \A v \in Workers : pc'[v] = "settling" => pc[v] = "settling"
    BY <2>2, <2>7
  <2> QED
    BY <1>9, <2>2, <2>8, <2>3, <2>4, <2>5, <2>6 DEF TurnLost
<1>10. CASE TurnSilent(w)
  <2>1. cur[w] \in Arms /\ pc[w] \in AtWork
    BY <1>10 DEF TurnSilent
  <2>2. /\ \E label \in {"loop", "stopping", "raised"} : pc' = [pc EXCEPT ![w] = label]
        /\ cur' \in [Workers -> 1 .. (N + 1)] /\ soft' \in [Workers -> BOOLEAN]
        /\ \A v \in Workers : v # w => cur'[v] = cur[v]
    BY <1>10, <2>1, ArmEndsTypes DEF TurnSilent
  <2>3. resv' \in [Workers -> [Arms -> {"none", "open", "reached", "released"}]] /\ UNCHANGED consumed
    BY <1>10, <2>1, ReleaseTypes DEF TurnSilent
  <2>4. arm' \in [Arms -> Terminal \cup AtWork \cup {"planned"}]
    BY <1>10, <2>1 DEF TurnSilent, Terminal
  <2>7. PICK label \in {"loop", "stopping", "raised"} : pc' = [pc EXCEPT ![w] = label]
    BY <2>2
  <2>8. /\ pc' \in [Workers -> AtWork \cup
                 {"off", "verified", "launching", "leased", "loop", "stopping",
                  "raised", "failing", "settling", "releasing", "done", "dead"}]
        /\ \A v \in Workers : pc'[v] \in AtWork => cur'[v] \in Arms
        /\ \A v \in Workers : pc'[v] = "settling" => pc[v] = "settling"
    BY <2>2, <2>7
  <2> QED
    BY <1>10, <2>2, <2>8, <2>3, <2>4 DEF TurnSilent, stopVars
<1>11. ASSUME NEW o \in {"invalid", "failed", "completed"}, TurnAnswered(w, o)
       PROVE  TypeOK' /\ CurrentArm'
  <2>1. cur[w] \in Arms /\ pc[w] \in AtWork
    BY <1>11 DEF TurnAnswered
  <2>2. /\ \E label \in {"loop", "stopping", "raised"} : pc' = [pc EXCEPT ![w] = label]
        /\ cur' \in [Workers -> 1 .. (N + 1)] /\ soft' \in [Workers -> BOOLEAN]
        /\ \A v \in Workers : v # w => cur'[v] = cur[v]
    <3>1. CASE ArmEnds(w, o)
      BY <2>1, <3>1, ArmEndsTypes
    <3>2. CASE Goto(w, "raised") /\ UNCHANGED <<cur, soft>>
      BY <3>2
    <3> QED
      BY <1>11, <3>1, <3>2 DEF TurnAnswered
  <2>3. groups' \in [Workers -> SUBSET Arms]
    BY <1>11 DEF TurnAnswered
  <2>4. resv' \in [Workers -> [Arms -> {"none", "open", "reached", "released"}]] /\ UNCHANGED consumed
    BY <1>11, <2>1, ReleaseTypes DEF TurnAnswered
  <2>5. turn' \in [Arms -> Terminal \cup {"none", "open"}] /\ arm' \in [Arms -> Terminal \cup AtWork \cup {"planned"}]
    BY <1>11, <2>1 DEF TurnAnswered, Terminal
  <2>7. PICK label \in {"loop", "stopping", "raised"} : pc' = [pc EXCEPT ![w] = label]
    BY <2>2
  <2>8. /\ pc' \in [Workers -> AtWork \cup
                 {"off", "verified", "launching", "leased", "loop", "stopping",
                  "raised", "failing", "settling", "releasing", "done", "dead"}]
        /\ \A v \in Workers : pc'[v] \in AtWork => cur'[v] \in Arms
        /\ \A v \in Workers : pc'[v] = "settling" => pc[v] = "settling"
    BY <2>2, <2>7
  <2> QED
    BY <1>11, <2>2, <2>8, <2>3, <2>4, <2>5 DEF TurnAnswered, stopVars
<1> QED
  BY <1>1, <1>2, <1>3, <1>4, <1>5, <1>6, <1>7, <1>8, <1>9, <1>10, <1>11 DEF Arm

(* ... and the end of a worker, time and recovery.                         *)
LEMMA EndTypes ==
    ASSUME TypeOK, CurrentArm, NEW w \in Workers,
           \/ CleanUp(w) \/ Fail(w) \/ Stop(w) \/ StopRaises(w) \/ Finish(w) \/ FinishRaises(w)
           \/ SettleSuite(w) \/ ReleaseLease(w)
           \/ TurnRuns(w) \/ ExpireLease(w) \/ Crash(w) \/ RecoverStaleWorker(w)
    PROVE  TypeOK' /\ CurrentArm'
<1> USE DEF TypeOK, CurrentArm, AtWork, Goto
<1>1. ASSUME NEW state \in {"failed", "blocked"}, BlockRemaining(w, state)
      PROVE  arm' \in [Arms -> Terminal \cup AtWork \cup {"planned"}]
  BY <1>1 DEF BlockRemaining, Terminal
<1>2. CASE CleanUp(w)
  <2>1. groups' \in [Workers -> SUBSET Arms] /\ arm' \in [Arms -> Terminal \cup AtWork \cup {"planned"}]
    BY <1>1, <1>2 DEF CleanUp, CloseGroups
  <2> QED
    BY <1>2, <2>1 DEF CleanUp, stopVars
<1>3. CASE Fail(w)
  BY <1>3 DEF Fail, FinishAttempt, stopVars
<1>4. CASE Stop(w)
  <2>1. groups' \in [Workers -> SUBSET Arms] /\ arm' \in [Arms -> Terminal \cup AtWork \cup {"planned"}]
    BY <1>1, <1>4 DEF Stop, CloseGroups
  <2>2. stops' \in 0 .. MaxStops /\ (stopper' = "attempt" => stops' < MaxStops)
    <3>1. stops \in 0 .. MaxStops /\ UNCHANGED stopper /\ (stopper = "attempt" => stops < MaxStops)
      BY <1>4 DEF Stop
    <3>4. stops \in Nat
      BY <3>1, Numbers
    <3>5. stops' = IF stops > 0 THEN stops - 1 ELSE 0
      BY <1>4 DEF Stop
    <3> HIDE DEF TypeOK, CurrentArm
    <3>2. stops' = stops \/ (stops > 0 /\ stops' = stops - 1)
      BY <3>4, <3>5
    <3>3. stops' \in 0 .. MaxStops /\ (stops < MaxStops => stops' < MaxStops)
      BY <3>1, <3>2, Numbers, StopsStep
    <3> QED
      BY <3>1, <3>3
  <2> QED
    BY <1>4, <2>1, <2>2 DEF Stop, FinishAttempt
<1>5. CASE StopRaises(w)
  <2>1. arm' \in [Arms -> Terminal \cup AtWork \cup {"planned"}]
    BY <1>1, <1>5 DEF StopRaises
  <2> QED
    BY <1>5, <2>1 DEF StopRaises, stopVars, local
<1>6. CASE Finish(w)
  BY <1>6 DEF Finish, FinishAttempt, CloseGroups, stopVars
<1>7. CASE FinishRaises(w)
  BY <1>7 DEF FinishRaises, rows, stopVars, local
<1>8. CASE SettleSuite(w)
  <2>1. suite' \in {"draft", "prepared", "authorized", "running", "stopped", "failed", "completed"}
    BY <1>8 DEF SettleSuite
  <2> QED
    BY <1>8, <2>1 DEF SettleSuite, stopVars, local
<1>9. CASE ReleaseLease(w)
  <2>1. 1 \in 1 .. (N + 1)
    BY Numbers
  <2> QED
    BY <1>9, <2>1 DEF ReleaseLease, Forget, rows, stopVars
<1>10. CASE TurnRuns(w)
  BY <1>10 DEF TurnRuns, Heartbeat, rows, stopVars, local
<1>11. CASE ExpireLease(w)
  BY <1>11 DEF ExpireLease, rows, stopVars, local
<1>12. CASE Crash(w)
  <2>1. 1 \in 1 .. (N + 1)
    BY Numbers
  <2> QED
    BY <1>12, <2>1 DEF Crash, Forget, rows, stopVars
<1>13. CASE RecoverStaleWorker(w)
  <2>1. resv' \in [Workers -> [Arms -> {"none", "open", "reached", "released"}]]
    BY <1>13, ZenonT(30) DEF RecoverStaleWorker
  <2> QED
    BY <1>13, <2>1 DEF RecoverStaleWorker, RecoveredSuite, stopVars, local
<1> QED
  BY <1>2, <1>3, <1>4, <1>5, <1>6, <1>7, <1>8, <1>9, <1>10, <1>11, <1>12, <1>13

(* Every step keeps the types.                                             *)
LEMMA TypeNext ==
    ASSUME TypeOK, CurrentArm, InferenceAccounting, [Next]_vars
    PROVE  TypeOK' /\ CurrentArm'
<1>1. CASE Prepare \/ Authorize \/ StopRead \/ StopWrite
  BY <1>1, OperatorTypes
<1>2. ASSUME NEW w \in Workers,
             Launch(w) \/ Work(w) \/ TurnRuns(w) \/ ExpireLease(w) \/ Crash(w) \/ RecoverStaleWorker(w)
      PROVE  TypeOK' /\ CurrentArm'
  BY <1>2, StartTypes, ArmTypes, EndTypes DEF Work
<1>3. CASE UNCHANGED vars
  BY <1>3 DEF vars, rows, stopVars, local, TypeOK, CurrentArm
<1> QED
  BY <1>1, <1>2, <1>3 DEF Next

-----------------------------------------------------------------------------
(* The lease.                                                              *)

(* A step of one worker that does not make its lease valid again.          *)
LEMMA LeaseKept ==
    ASSUME LeaseInv, NEW w \in Workers,
           \A v \in Workers : v # w => pc'[v] = pc[v] /\ lease'[v] = lease[v],
           pc'[w] \in Leased => lease'[w] \in {"fresh", "stale"},
           pc'[w] \in {"off", "verified", "launching"} => lease'[w] = "none",
           LeaseValid(w)' => LeaseValid(w)
    PROVE  LeaseInv'
<1>1. \A v \in Workers : LeaseValid(v)' => LeaseValid(v)
  BY DEF LeaseValid, Alive
<1> QED
  BY <1>1 DEF LeaseInv

(* At the arms a worker keeps its lease, or makes it fresh again.          *)
LEMMA ArmEffect ==
    ASSUME TypeOK, NEW w \in Workers, Arm(w)
    PROVE  /\ pc[w] \in AtWork \cup {"loop"}
           /\ \E label \in AtWork \cup {"loop", "stopping", "raised"} : pc' = [pc EXCEPT ![w] = label]
           /\ UNCHANGED lease \/ Heartbeat(w)
<1> USE DEF Goto, AtWork
<1>1. ASSUME NEW o, ArmEnds(w, o)
      PROVE  \E label \in {"loop", "stopping", "raised"} : pc' = [pc EXCEPT ![w] = label]
  BY <1>1 DEF ArmEnds, NextArm
<1>2. CASE ArmStopped(w)
  BY <1>2 DEF ArmStopped
<1>3. CASE ArmRefused(w) \/ ThreadFails(w) \/ ReserveFails(w) \/ BeginTurnFails(w) \/ AnswerNotKept(w)
  BY <1>3 DEF ArmRefused, ThreadFails, ReserveFails, BeginTurnFails, AnswerNotKept, Raise
<1>4. CASE ArmBlocked(w)
  BY <1>1, <1>4 DEF ArmBlocked
<1>5. CASE ArmBegins(w)
  BY <1>5 DEF ArmBegins
<1>6. CASE ThreadStarts(w)
  BY <1>1, <1>6 DEF ThreadStarts
<1>7. CASE ReserveInference(w) \/ BeginTurn(w) \/ ConsumeInference(w)
  BY <1>7 DEF ReserveInference, BeginTurn, ConsumeInference
<1>8. ASSUME NEW o \in {"stopped", "failed"}, TurnLost(w, o)
      PROVE  /\ pc[w] \in AtWork \cup {"loop"}
             /\ \E label \in AtWork \cup {"loop", "stopping", "raised"} : pc' = [pc EXCEPT ![w] = label]
             /\ UNCHANGED lease \/ Heartbeat(w)
  BY <1>1, <1>8 DEF TurnLost
<1>9. CASE TurnSilent(w)
  BY <1>1, <1>9 DEF TurnSilent
<1>10. ASSUME NEW o \in {"invalid", "failed", "completed"}, TurnAnswered(w, o)
       PROVE  /\ pc[w] \in AtWork \cup {"loop"}
              /\ \E label \in AtWork \cup {"loop", "stopping", "raised"} : pc' = [pc EXCEPT ![w] = label]
              /\ UNCHANGED lease \/ Heartbeat(w)
  BY <1>1, <1>10 DEF TurnAnswered
<1> QED
  BY <1>2, <1>3, <1>4, <1>5, <1>6, <1>7, <1>8, <1>9, <1>10 DEF Arm

(* Every step keeps the leases exclusive.                                  *)
LEMMA LeaseNext ==
    ASSUME TypeOK, LeaseInv, [Next]_vars
    PROVE  LeaseInv'
<1> USE DEF Leased, AtWork, Goto
<1>1. CASE Prepare \/ Authorize \/ StopRead \/ StopWrite
  BY <1>1 DEF Prepare, Authorize, StopRead, StopWrite, LeaseInv, LeaseValid, Alive
<1>2. ASSUME NEW w \in Workers, AcquireLease(w) PROVE LeaseInv'
  <2>1. /\ pc[w] = "launching" /\ \A v \in Workers : ~LeaseValid(v)
        /\ \A v \in Workers : v # w => pc'[v] = pc[v] /\ lease'[v] = lease[v]
        /\ lease'[w] = "fresh" /\ pc'[w] = "leased"
    BY <1>2 DEF AcquireLease, TypeOK
  <2>2. \A v \in Workers : LeaseValid(v)' => v = w
    BY <2>1 DEF LeaseValid, Alive
  <2> QED
    BY <2>1, <2>2 DEF LeaseInv
<1>3. ASSUME NEW w \in Workers, Launch(w) PROVE LeaseInv'
  <2>1. /\ pc[w] = "off" /\ pc'[w] = "verified" /\ lease'[w] = lease[w]
        /\ \A v \in Workers : v # w => pc'[v] = pc[v] /\ lease'[v] = lease[v]
    BY <1>3 DEF Launch, TypeOK
  <2> QED
    BY <2>1, LeaseKept DEF LeaseInv, LeaseValid, Alive
<1>4. ASSUME NEW w \in Workers, CreateAttempt(w) \/ LeaseRefused(w) PROVE LeaseInv'
  <2>1. /\ pc[w] \in {"verified", "launching"} /\ pc'[w] \in {"launching", "done", "failing"} /\ lease'[w] = lease[w]
        /\ \A v \in Workers : v # w => pc'[v] = pc[v] /\ lease'[v] = lease[v]
    BY <1>4 DEF CreateAttempt, LeaseRefused, TypeOK
  <2> QED
    BY <2>1, LeaseKept DEF LeaseInv, LeaseValid, Alive
<1>5. ASSUME NEW w \in Workers, MarkSuiteRunning(w) PROVE LeaseInv'
  <2>1. /\ pc[w] = "leased" /\ pc'[w] = "loop" /\ lease'[w] = lease[w]
        /\ \A v \in Workers : v # w => pc'[v] = pc[v] /\ lease'[v] = lease[v]
    BY <1>5 DEF MarkSuiteRunning, TypeOK
  <2> QED
    BY <2>1, LeaseKept DEF LeaseInv, LeaseValid, Alive
<1>6. ASSUME NEW w \in Workers, Arm(w) PROVE LeaseInv'
  <2>1. /\ pc[w] \in AtWork \cup {"loop"} /\ pc'[w] \in AtWork \cup {"loop", "stopping", "raised"}
        /\ \A v \in Workers : v # w => pc'[v] = pc[v] /\ lease'[v] = lease[v]
        /\ lease'[w] \in {"fresh", lease[w]}
    <3>1. PICK label \in AtWork \cup {"loop", "stopping", "raised"} : pc' = [pc EXCEPT ![w] = label]
      BY <1>6, ArmEffect
    <3>2. pc[w] \in AtWork \cup {"loop"} /\ (UNCHANGED lease \/ Heartbeat(w))
      BY <1>6, ArmEffect
    <3> QED
      BY <3>1, <3>2 DEF TypeOK, Heartbeat
  <2> QED
    BY <2>1, LeaseKept DEF LeaseInv, LeaseValid, Alive
<1>7. ASSUME NEW w \in Workers,
             CleanUp(w) \/ Fail(w) \/ Stop(w) \/ StopRaises(w) \/ Finish(w) \/ FinishRaises(w) \/ SettleSuite(w)
      PROVE  LeaseInv'
  <2>1. /\ pc[w] \in {"raised", "failing", "stopping", "loop", "settling"}
        /\ pc'[w] \in {"failing", "settling", "releasing"} /\ UNCHANGED lease
        /\ \A v \in Workers : v # w => pc'[v] = pc[v]
    BY <1>7 DEF CleanUp, Fail, Stop, StopRaises, Finish, FinishRaises, SettleSuite, FinishAttempt, TypeOK
  <2> QED
    BY <2>1, LeaseKept DEF LeaseInv, LeaseValid, Alive
<1>8. ASSUME NEW w \in Workers, ReleaseLease(w) PROVE LeaseInv'
  <2>1. /\ pc[w] = "releasing" /\ pc'[w] = "done" /\ lease'[w] \in {"none", "released"}
        /\ \A v \in Workers : v # w => pc'[v] = pc[v] /\ lease'[v] = lease[v]
    BY <1>8 DEF ReleaseLease, TypeOK
  <2> QED
    BY <2>1, LeaseKept DEF LeaseInv, LeaseValid, Alive
<1>9. ASSUME NEW w \in Workers, TurnRuns(w) PROVE LeaseInv'
  <2>1. /\ pc[w] \in AtWork /\ pc'[w] = pc[w] /\ lease[w] = "stale" /\ lease'[w] = "fresh"
        /\ \A v \in Workers : v # w => pc'[v] = pc[v] /\ lease'[v] = lease[v]
    BY <1>9 DEF TurnRuns, Heartbeat, TypeOK
  <2> QED
    BY <2>1, LeaseKept DEF LeaseInv, LeaseValid, Alive
<1>10. ASSUME NEW w \in Workers, ExpireLease(w) PROVE LeaseInv'
  <2>1. /\ lease[w] = "fresh" /\ pc'[w] = pc[w] /\ lease'[w] = "stale"
        /\ \A v \in Workers : v # w => pc'[v] = pc[v] /\ lease'[v] = lease[v]
    BY <1>10 DEF ExpireLease, TypeOK
  <2> QED
    BY <2>1, LeaseKept DEF LeaseInv, LeaseValid, Alive
<1>11. ASSUME NEW w \in Workers, Crash(w) PROVE LeaseInv'
  <2>1. /\ Alive(w) /\ pc'[w] = "dead" /\ lease'[w] = lease[w]
        /\ \A v \in Workers : v # w => pc'[v] = pc[v] /\ lease'[v] = lease[v]
    BY <1>11 DEF Crash, TypeOK
  <2> QED
    BY <2>1, LeaseKept DEF LeaseInv, LeaseValid, Alive
<1>12. ASSUME NEW w \in Workers, RecoverStaleWorker(w) PROVE LeaseInv'
  <2>1. /\ ~Alive(w) /\ lease[w] = "stale" /\ pc'[w] = pc[w] /\ lease'[w] = "released"
        /\ \A v \in Workers : v # w => pc'[v] = pc[v] /\ lease'[v] = lease[v]
    BY <1>12 DEF RecoverStaleWorker, TypeOK
  <2> QED
    BY <2>1, LeaseKept DEF LeaseInv, LeaseValid, Alive
<1>13. CASE UNCHANGED vars
  BY <1>13 DEF vars, LeaseInv, LeaseValid, Alive
<1> QED
  BY <1>1, <1>2, <1>3, <1>4, <1>5, <1>6, <1>7, <1>8, <1>9, <1>10, <1>11, <1>12, <1>13 DEF Next, Work

(* With the lease, at most one worker is at the arms.                      *)
LEMMA LeaseExcludes ==
    ASSUME LeaseInv
    PROVE  OneWorkerAtWork
<1> DEFINE S == {w \in Workers : pc[w] \in AtWork \cup {"loop", "stopping", "raised"}}
<1>1. \A v, w \in S : v = w
  BY DEF LeaseInv, LeaseValid, Alive, Leased, AtWork
<1>2. CASE S = {}
  BY <1>2, FS_EmptySet DEF OneWorkerAtWork
<1>3. CASE S # {}
  <2>1. PICK w \in S : S = {w}
    BY <1>1, <1>3
  <2>2. Cardinality(S) = 1
    BY <2>1, FS_Singleton
  <2> QED
    BY <2>2 DEF OneWorkerAtWork
<1> QED
  BY <1>2, <1>3

-----------------------------------------------------------------------------
(* The inferences.  A step of a worker, as far as they are concerned:      *)
Before == {"off", "verified", "launching", "leased", "loop", "preflight", "thread_ready"}

Quiet == UNCHANGED <<plan, resv, consumed, turn>>
Moves(w, label, n) == pc' = [pc EXCEPT ![w] = label] /\ cur' = [cur EXCEPT ![w] = n]

(* it goes on with its arm, or leaves it, or is gone;                      *)
Advances(w, label) ==
    /\ Quiet /\ Moves(w, label, cur[w]) /\ pc[w] \notin {"done", "dead"}
    /\ label \in Before => pc[w] \in Before
    /\ label \notin {"turn", "inference_started"}

Vanishes(w) == Quiet /\ \E label \in {"done", "dead"} : Moves(w, label, 1)

(* it passes an arm without an inference, never the first if fail_closed;  *)
Passes(w) ==
    /\ Quiet /\ Moves(w, "loop", cur[w] + 1) /\ pc[w] \in Before /\ cur[w] \in Arms
    /\ failClosed => cur[w] # 1

(* it ends an inference, and then passes the arm or leaves the loop;       *)
Concludes(w, label, n) ==
    /\ UNCHANGED plan /\ cur[w] \in Arms /\ pc[w] \in {"turn", "inference_started"}
    /\ ReleaseReservation(w)
    /\ \E state \in Terminal : turn' = [turn EXCEPT ![cur[w]] = state] \/ UNCHANGED turn
    /\ Moves(w, label, n)
    /\ \/ label \in {"stopping", "raised"} /\ n = cur[w]
       \/ label = "loop" /\ n = cur[w] + 1 /\ (failClosed => pc[w] = "inference_started")

(* or it is recovered.                                                     *)
Recovered(w) ==
    /\ UNCHANGED <<plan, pc, cur, consumed, turn>>
    /\ resv' = [resv EXCEPT ![w] = [a \in Arms |-> IF @[a] = "open" THEN "released" ELSE @[a]]]

(* Where the outcome of an arm leads, in these terms.                      *)
LEMMA ArmEndsMoves ==
    ASSUME TypeOK, NEW w \in Workers, NEW o, ArmEnds(w, o)
    PROVE  \/ \E label \in {"stopping", "raised"} : Moves(w, label, cur[w])
           \/ Moves(w, "loop", cur[w] + 1) /\ (failClosed => o \in {"completed", "invalid", "blocked"})
<1>1. CASE NextArm(w) /\ (failClosed => o \in {"completed", "invalid", "blocked"})
  BY <1>1 DEF NextArm, Moves, Goto
<1>2. ASSUME NEW label \in {"stopping", "raised"}, Goto(w, label), UNCHANGED cur
      PROVE  Moves(w, label, cur[w])
  BY <1>2 DEF Moves, Goto, TypeOK
<1> QED
  BY <1>1, <1>2 DEF ArmEnds

(* Every step at the arms is of one of these kinds.                        *)
LEMMA ArmKinds ==
    ASSUME TypeOK, CurrentArm, NEW w \in Workers, Arm(w)
    PROVE  \/ \E label \in AtWork \cup {"stopping", "raised"} : Advances(w, label)
           \/ Passes(w)
           \/ ReserveInference(w) \/ BeginTurn(w) \/ ConsumeInference(w)
           \/ \E label \in {"loop", "stopping", "raised"}, n \in {cur[w], cur[w] + 1} : Concludes(w, label, n)
<1> USE DEF Quiet, Before, AtWork
<1>1. ASSUME NEW label, Goto(w, label), UNCHANGED cur PROVE Moves(w, label, cur[w])
  BY <1>1 DEF Moves, Goto, TypeOK
<1>2. CASE ArmStopped(w)
  BY <1>1, <1>2 DEF ArmStopped, Advances, rows, local
<1>3. CASE ArmRefused(w) \/ ThreadFails(w) \/ ReserveFails(w) \/ BeginTurnFails(w) \/ AnswerNotKept(w)
  <2>1. Raise(w)
    BY <1>3 DEF ArmRefused, ThreadFails, ReserveFails, BeginTurnFails, AnswerNotKept
  <2>2. Goto(w, "raised") /\ UNCHANGED cur /\ Quiet /\ pc[w] \notin {"done", "dead"}
    BY <1>3, <2>1 DEF ArmRefused, ThreadFails, ReserveFails, BeginTurnFails, AnswerNotKept, Raise, rows, local
  <2>3. Advances(w, "raised")
    BY <1>1, <2>2 DEF Advances
  <2> QED
    BY <2>3
<1>4. CASE ArmBlocked(w)
  <2>1. pc[w] = "loop" /\ cur[w] \in Arms /\ Quiet /\ ArmEnds(w, "blocked") /\ ~DependencyMet(cur[w])
    BY <1>4 DEF ArmBlocked
  <2>2. cur[w] # 1
    BY <2>1, PlanAssumption DEF DependencyMet, resumes, TypeOK
  <2>3. CASE Moves(w, "loop", cur[w] + 1)
    BY <2>1, <2>2, <2>3 DEF Passes
  <2>4. ASSUME NEW label \in {"stopping", "raised"}, Moves(w, label, cur[w]) PROVE Advances(w, label)
    BY <2>1, <2>4 DEF Advances
  <2> QED
    BY <2>1, <2>3, <2>4, ArmEndsMoves
<1>5. CASE ArmBegins(w)
  <2>1. pc[w] = "loop" /\ Goto(w, "preflight") /\ UNCHANGED cur /\ Quiet
    BY <1>5 DEF ArmBegins, local
  <2>2. Advances(w, "preflight")
    BY <1>1, <2>1 DEF Advances
  <2> QED
    BY <2>2
<1>6. CASE ThreadStarts(w)
  <2>1. pc[w] = "preflight" /\ cur[w] \in Arms /\ Quiet
    BY <1>6 DEF ThreadStarts, CurrentArm
  <2>2. CASE Goto(w, "thread_ready") /\ UNCHANGED cur
    <3>1. Advances(w, "thread_ready")
      BY <1>1, <2>1, <2>2 DEF Advances
    <3> QED
      BY <3>1
  <2>3. CASE ArmEnds(w, "failed")
    <3>1. CASE Moves(w, "loop", cur[w] + 1) /\ ~failClosed
      BY <2>1, <3>1 DEF Passes
    <3>2. ASSUME NEW label \in {"stopping", "raised"}, Moves(w, label, cur[w]) PROVE Advances(w, label)
      BY <2>1, <3>2 DEF Advances
    <3> QED
      BY <2>3, <3>1, <3>2, ArmEndsMoves
  <2> QED
    BY <1>6, <2>2, <2>3 DEF ThreadStarts
<1>7. ASSUME NEW o \in {"stopped", "failed"}, TurnLost(w, o)
      PROVE  \E label \in {"loop", "stopping", "raised"}, n \in {cur[w], cur[w] + 1} : Concludes(w, label, n)
  <2>1. /\ UNCHANGED plan /\ cur[w] \in Arms /\ pc[w] \in {"turn", "inference_started"}
        /\ ReleaseReservation(w) /\ turn' = [turn EXCEPT ![cur[w]] = o] /\ o \in Terminal
    BY <1>7 DEF TurnLost, CurrentArm, Terminal
  <2>2. \/ \E label \in {"stopping", "raised"} : Moves(w, label, cur[w])
        \/ Moves(w, "loop", cur[w] + 1) /\ ~failClosed
    BY <1>1, <1>7, ArmEndsMoves DEF TurnLost
  <2> QED
    BY <2>1, <2>2 DEF Concludes
<1>8. CASE TurnSilent(w)
  <2>1. /\ UNCHANGED <<plan, turn>> /\ cur[w] \in Arms /\ pc[w] \in {"turn", "inference_started"}
        /\ ReleaseReservation(w) /\ "failed" \in Terminal
    BY <1>8 DEF TurnSilent, CurrentArm, Terminal
  <2>2. \/ \E label \in {"stopping", "raised"} : Moves(w, label, cur[w])
        \/ Moves(w, "loop", cur[w] + 1) /\ ~failClosed
    BY <1>8, ArmEndsMoves DEF TurnSilent
  <2> QED
    BY <2>1, <2>2 DEF Concludes
<1>9. ASSUME NEW o \in {"invalid", "failed", "completed"}, TurnAnswered(w, o)
      PROVE  \E label \in {"loop", "stopping", "raised"}, n \in {cur[w], cur[w] + 1} : Concludes(w, label, n)
  <2>1. /\ UNCHANGED plan /\ cur[w] \in Arms /\ pc[w] = "inference_started"
        /\ ReleaseReservation(w) /\ turn' = [turn EXCEPT ![cur[w]] = o] /\ o \in Terminal
    BY <1>9 DEF TurnAnswered, CurrentArm, Terminal
  <2>2. \/ \E label \in {"stopping", "raised"} : Moves(w, label, cur[w])
        \/ Moves(w, "loop", cur[w] + 1)
    BY <1>1, <1>9, ArmEndsMoves DEF TurnAnswered
  <2> QED
    BY <2>1, <2>2 DEF Concludes
<1> QED
  BY <1>2, <1>3, <1>4, <1>5, <1>6, <1>7, <1>8, <1>9 DEF Arm

(* Every step is of one of these kinds.                                    *)
LEMMA StepKinds ==
    ASSUME TypeOK, CurrentArm, [Next]_vars
    PROVE  \/ Quiet /\ UNCHANGED <<pc, cur>>
           \/ \E w \in Workers :
                \/ \E label : Advances(w, label)
                \/ Vanishes(w) \/ Passes(w)
                \/ ReserveInference(w) \/ BeginTurn(w) \/ ConsumeInference(w)
                \/ \E label, n : Concludes(w, label, n)
                \/ Recovered(w)
<1> USE DEF Quiet, Before
<1>1. ASSUME NEW w \in Workers, NEW label, Goto(w, label), UNCHANGED cur PROVE Moves(w, label, cur[w])
  BY <1>1 DEF Moves, Goto, TypeOK
<1>2. CASE Prepare \/ Authorize \/ StopRead \/ StopWrite \/ UNCHANGED vars
  BY <1>2 DEF Prepare, Authorize, StopRead, StopWrite, vars, rows, local
<1>3. ASSUME NEW w \in Workers, TurnRuns(w) \/ ExpireLease(w) PROVE Quiet /\ UNCHANGED <<pc, cur>>
  BY <1>3 DEF TurnRuns, ExpireLease, rows, local
<1>4. ASSUME NEW w \in Workers,
             \/ Launch(w) \/ CreateAttempt(w) \/ AcquireLease(w) \/ LeaseRefused(w) \/ MarkSuiteRunning(w)
             \/ CleanUp(w) \/ Fail(w) \/ Stop(w) \/ StopRaises(w) \/ Finish(w) \/ FinishRaises(w)
             \/ SettleSuite(w)
      PROVE  \E label : Advances(w, label)
  <2>1. Quiet /\ UNCHANGED cur
    BY <1>4 DEF Launch, CreateAttempt, AcquireLease, LeaseRefused, MarkSuiteRunning, CleanUp, Fail, Stop,
                StopRaises, Finish, FinishRaises, SettleSuite, rows, local
  <2>2. PICK label \in {"verified", "launching", "done", "leased", "failing", "loop", "settling", "releasing"} :
          Goto(w, label) /\ (label \in Before => pc[w] \in Before) /\ pc[w] \notin {"done", "dead"}
    BY <1>4 DEF Launch, CreateAttempt, AcquireLease, LeaseRefused, MarkSuiteRunning, CleanUp, Fail, Stop,
                StopRaises, Finish, FinishRaises, SettleSuite, FinishAttempt
  <2>3. Advances(w, label)
    BY <1>1, <2>1, <2>2 DEF Advances
  <2> QED
    BY <2>3
<1>5. ASSUME NEW w \in Workers, ReleaseLease(w) \/ Crash(w) PROVE Vanishes(w)
  BY <1>5 DEF ReleaseLease, Crash, Vanishes, Forget, Moves, Goto, rows
<1>6. ASSUME NEW w \in Workers, RecoverStaleWorker(w) PROVE Recovered(w)
  BY <1>6 DEF RecoverStaleWorker, Recovered, local
<1> QED
  BY <1>2, <1>3, <1>4, <1>5, <1>6, ArmKinds DEF Next, Work

(* What the types say of one worker and one arm.                           *)
LEMMA Points ==
    ASSUME TypeOK
    PROVE  /\ \A w \in Workers, a \in Arms : resv[w][a] \in {"none", "open", "reached", "released"}
           /\ \A w \in Workers : cur[w] \in Nat /\ cur[w] >= 1
           /\ \A a \in Arms : a \in Nat /\ a >= 1 /\ a <= N
           /\ 1 \in Arms
<1>1. resv \in [Workers -> [Arms -> {"none", "open", "reached", "released"}]]
  BY DEF TypeOK
<1>2. cur \in [Workers -> 1 .. (N + 1)]
  BY DEF TypeOK
<1>3. 1 \in Arms /\ \A a \in Arms : a \in Nat /\ a >= 1 /\ a <= N
  BY Numbers DEF Arms
<1>4. \A n \in 1 .. (N + 1) : n \in Nat /\ n >= 1
  BY Numbers
<1>5. \A w \in Workers : cur[w] \in 1 .. (N + 1)
  BY <1>2
<1> QED
  BY <1>1, <1>3, <1>4, <1>5

(* A move of one worker leaves the others where they are.                  *)
LEMMA MovesOne ==
    ASSUME TypeOK, NEW w \in Workers, NEW label, NEW n, Moves(w, label, n)
    PROVE  /\ pc'[w] = label /\ cur'[w] = n
           /\ \A v \in Workers : v # w => pc'[v] = pc[v] /\ cur'[v] = cur[v]
BY DEF Moves, TypeOK

(* The reservations after each kind of step that changes them.             *)
LEMMA ReservePoints ==
    ASSUME TypeOK, CurrentArm, NEW w \in Workers, ReserveInference(w)
    PROVE  /\ cur[w] \in Arms /\ pc[w] = "thread_ready" /\ Moves(w, "inference_reserved", cur[w])
           /\ UNCHANGED <<plan, consumed, turn>>
           /\ \A v \in Workers, a \in Arms :
                resv'[v][a] = IF v = w /\ a = cur[w] THEN "open" ELSE resv[v][a]
<1>1. resv \in [Workers -> [Arms -> {"none", "open", "reached", "released"}]] /\ cur \in [Workers -> 1 .. (N + 1)]
  BY DEF TypeOK
<1>2. cur[w] \in Arms
  BY DEF ReserveInference, CurrentArm, AtWork
<1> QED
  BY <1>1, <1>2 DEF ReserveInference, Moves, Goto, local

(* The turn of an arm after it was begun.                                  *)
LEMMA BeginPoints ==
    ASSUME TypeOK, CurrentArm, NEW w \in Workers, BeginTurn(w)
    PROVE  /\ cur[w] \in Arms /\ pc[w] = "inference_reserved" /\ turn[cur[w]] = "none"
           /\ \E label \in {"turn", "raised"} : Moves(w, label, cur[w])
           /\ UNCHANGED <<plan, consumed, resv>>
           /\ \A a \in Arms : turn'[a] = IF a = cur[w] THEN "open" ELSE turn[a]
<1>1. turn \in [Arms -> Terminal \cup {"none", "open"}] /\ cur \in [Workers -> 1 .. (N + 1)]
  BY DEF TypeOK
<1>2. cur[w] \in Arms
  BY DEF BeginTurn, CurrentArm, AtWork
<1> QED
  BY <1>1, <1>2 DEF BeginTurn, TurnPossible, Moves, Goto, local

(* A reservation after its inference was reached.                          *)
LEMMA ConsumePoints ==
    ASSUME TypeOK, CurrentArm, NEW w \in Workers, ConsumeInference(w)
    PROVE  /\ cur[w] \in Arms /\ pc[w] = "turn" /\ Moves(w, "inference_started", cur[w])
           /\ UNCHANGED <<plan, turn>> /\ consumed' = consumed + 1 /\ resv[w][cur[w]] = "open"
           /\ \A v \in Workers, a \in Arms :
                resv'[v][a] = IF v = w /\ a = cur[w] THEN "reached" ELSE resv[v][a]
<1>1. resv \in [Workers -> [Arms -> {"none", "open", "reached", "released"}]] /\ cur \in [Workers -> 1 .. (N + 1)]
  BY DEF TypeOK
<1>2. cur[w] \in Arms
  BY DEF ConsumeInference, CurrentArm, AtWork
<1> QED
  BY <1>1, <1>2 DEF ConsumeInference, Moves, Goto, local

(* The reservations and turns after an inference.                          *)
LEMMA ConcludePoints ==
    ASSUME TypeOK, NEW w \in Workers, NEW label, NEW n, Concludes(w, label, n)
    PROVE  /\ UNCHANGED consumed
           /\ \A v \in Workers, a \in Arms :
                resv'[v][a] = IF v = w /\ a = cur[w] /\ resv[v][a] = "open" THEN "released" ELSE resv[v][a]
           /\ \A a \in Arms : turn[a] # "none" => turn'[a] # "none"
<1>1. turn \in [Arms -> Terminal \cup {"none", "open"}]
  BY DEF TypeOK
<1> QED
  BY <1>1, ReleaseTypes DEF Concludes, Terminal

(* The reservations of a worker after its recovery.                        *)
LEMMA RecoveredPoints ==
    ASSUME TypeOK, NEW w \in Workers, Recovered(w)
    PROVE  /\ UNCHANGED <<plan, pc, cur, consumed, turn>>
           /\ \A v \in Workers, a \in Arms :
                resv'[v][a] = IF v = w /\ resv[v][a] = "open" THEN "released" ELSE resv[v][a]
<1>1. resv \in [Workers -> [Arms -> {"none", "open", "reached", "released"}]]
  BY DEF TypeOK
<1> QED
  BY <1>1 DEF Recovered

(* The order of the reservations is kept.                                  *)
LEMMA OrderNext ==
    ASSUME TypeOK, CurrentArm, ReservedInOrder, [Next]_vars
    PROVE  ReservedInOrder'
<1> USE DEF ReservedInOrder, Before
<1>1. CASE Quiet /\ UNCHANGED <<pc, cur>>
  BY <1>1 DEF Quiet
<1>2. ASSUME NEW w \in Workers, NEW label, Advances(w, label) PROVE ReservedInOrder'
  BY <1>2, MovesOne DEF Advances, Quiet
<1>3. ASSUME NEW w \in Workers, Vanishes(w) PROVE ReservedInOrder'
  BY <1>3, MovesOne DEF Vanishes, Quiet
<1>4. ASSUME NEW w \in Workers, Passes(w) PROVE ReservedInOrder'
  BY <1>4, MovesOne, Points DEF Passes, Quiet
<1>5. ASSUME NEW w \in Workers, ReserveInference(w) PROVE ReservedInOrder'
  BY <1>5, MovesOne, ReservePoints, Points
<1>6. ASSUME NEW w \in Workers, BeginTurn(w) PROVE ReservedInOrder'
  BY <1>6, MovesOne, BeginPoints, Points
<1>7. ASSUME NEW w \in Workers, ConsumeInference(w) PROVE ReservedInOrder'
  BY <1>7, MovesOne, ConsumePoints, Points
<1>8. ASSUME NEW w \in Workers, NEW label, NEW n, Concludes(w, label, n) PROVE ReservedInOrder'
  BY <1>8, MovesOne, ConcludePoints, Points DEF Concludes
<1>9. ASSUME NEW w \in Workers, Recovered(w) PROVE ReservedInOrder'
  BY <1>9, RecoveredPoints
<1> QED
  BY <1>1, <1>2, <1>3, <1>4, <1>5, <1>6, <1>7, <1>8, <1>9, StepKinds

(* The count is kept when no reservation is opened or reached.             *)
LEMMA FewerOpen ==
    ASSUME TypeOK, InferenceAccounting, UNCHANGED consumed,
           \A v \in Workers, a \in Arms :
              /\ resv'[v][a] = "open" => resv[v][a] = "open"
              /\ resv'[v][a] = "reached" <=> resv[v][a] = "reached"
    PROVE  InferenceAccounting'
<1>1. Reservations("reached")' = Reservations("reached")
  BY DEF Reservations
<1>2. Reservations("open")' \in SUBSET Reservations("open")
  BY DEF Reservations
<1>3. /\ Cardinality(Reservations("open")') <= Cardinality(Reservations("open"))
      /\ Cardinality(Reservations("open")') \in Nat /\ Cardinality(Reservations("open")) \in Nat
  BY <1>2, ReservationsFinite, FS_Subset, FS_CardinalityType
<1>4. consumed \in 0 .. Cap
  BY DEF TypeOK
<1>5. consumed \in Nat
  BY <1>4, Numbers
<1>6. consumed' + Cardinality(Reservations("open")') <= Cap
  BY <1>3, <1>5, Numbers DEF InferenceAccounting
<1> QED
  BY <1>1, <1>6 DEF InferenceAccounting

(* Every inference that is reached was reserved under the cap.             *)
LEMMA AccountingNext ==
    ASSUME TypeOK, CurrentArm, ReservedInOrder, InferenceAccounting, [Next]_vars
    PROVE  InferenceAccounting'
<1>0. consumed \in Nat
  <2>1. consumed \in 0 .. Cap
    BY DEF TypeOK
  <2> QED
    BY <2>1, Numbers
<1> DEFINE open == Reservations("open")
           reached == Reservations("reached")
<1>1. CASE UNCHANGED <<resv, consumed>>
  BY <1>1, FewerOpen
<1>2. ASSUME NEW w \in Workers, ReserveInference(w) PROVE InferenceAccounting'
  <2> DEFINE x == <<w, cur[w]>>
  <2>1. cur[w] \in Arms /\ resv[w][cur[w]] = "none"
    BY <1>2, ReservePoints DEF ReservedInOrder
  <2>2. open' = open \cup {x}
    BY <1>2, <2>1, ReservePoints DEF Reservations
  <2>3. reached' = reached
    BY <1>2, <2>1, ReservePoints DEF Reservations
  <2>4. x \notin open
    BY <2>1 DEF Reservations
  <2>5. Cardinality(open') = Cardinality(open) + 1
    BY <2>2, <2>4, ReservationsFinite, FS_AddElement
  <2>6. consumed + Cardinality(open) < Cap /\ UNCHANGED consumed
    BY <1>2 DEF ReserveInference, MayReserve
  <2>7. Cardinality(open) \in Nat
    BY ReservationsFinite
  <2> HIDE DEF open, x
  <2>8. consumed' + Cardinality(open') <= Cap
    BY <1>0, <2>5, <2>6, <2>7, Numbers
  <2> QED
    BY <2>3, <2>6, <2>8 DEF InferenceAccounting, open
<1>3. ASSUME NEW w \in Workers, ConsumeInference(w) PROVE InferenceAccounting'
  <2> DEFINE x == <<w, cur[w]>>
  <2>1. cur[w] \in Arms /\ resv[w][cur[w]] = "open" /\ consumed' = consumed + 1
    BY <1>3, ConsumePoints
  <2>2. open' = open \ {x} /\ x \in open
    BY <1>3, <2>1, ConsumePoints DEF Reservations
  <2>3. reached' = reached \cup {x} /\ x \notin reached
    BY <1>3, <2>1, ConsumePoints DEF Reservations
  <2>4. Cardinality(open') = Cardinality(open) - 1 /\ Cardinality(open) \in Nat
    BY <2>2, ReservationsFinite, FS_RemoveElement
  <2>5. Cardinality(reached') = Cardinality(reached) + 1
    BY <2>3, ReservationsFinite, FS_AddElement
  <2>6. consumed = Cardinality(reached) /\ consumed + Cardinality(open) <= Cap
    BY DEF InferenceAccounting
  <2> HIDE DEF open, x, reached
  <2>7. consumed' = Cardinality(reached') /\ consumed' + Cardinality(open') <= Cap
    BY <1>0, <2>1, <2>4, <2>5, <2>6, Numbers
  <2> QED
    BY <2>7 DEF InferenceAccounting, open, reached
<1>4. ASSUME NEW w \in Workers, NEW label, NEW n, Concludes(w, label, n) PROVE InferenceAccounting'
  <2>1. UNCHANGED consumed
    BY <1>4, ConcludePoints
  <2>2. \A v \in Workers, a \in Arms :
           /\ resv'[v][a] = "open" => resv[v][a] = "open"
           /\ resv'[v][a] = "reached" <=> resv[v][a] = "reached"
    BY <1>4, ConcludePoints
  <2> QED
    BY <2>1, <2>2, FewerOpen
<1>5. ASSUME NEW w \in Workers, Recovered(w) PROVE InferenceAccounting'
  <2>1. UNCHANGED consumed
    BY <1>5, RecoveredPoints
  <2>2. \A v \in Workers, a \in Arms :
           /\ resv'[v][a] = "open" => resv[v][a] = "open"
           /\ resv'[v][a] = "reached" <=> resv[v][a] = "reached"
    BY <1>5, RecoveredPoints
  <2> QED
    BY <2>1, <2>2, FewerOpen
<1> QED
  BY <1>1, <1>2, <1>3, <1>4, <1>5, StepKinds, BeginPoints DEF Quiet, Advances, Vanishes, Passes

-----------------------------------------------------------------------------
(* Who has asked which arm.                                                *)
LEMMA AskedNext ==
    ASSUME TypeOK, CurrentArm, ReservedInOrder, AskedOnce, [Next]_vars
    PROVE  AskedOnce'
<1>0. \A v \in Workers : pc[v] \in {"turn", "inference_started"} => cur[v] \in Arms
  BY DEF CurrentArm, AtWork
<1> USE DEF AskedOnce, Asks
<1>1. CASE Quiet /\ UNCHANGED <<pc, cur>>
  BY <1>1 DEF Quiet
<1>2. ASSUME NEW w \in Workers, NEW label, Advances(w, label) PROVE AskedOnce'
  BY <1>2, MovesOne DEF Advances, Quiet
<1>3. ASSUME NEW w \in Workers, Vanishes(w) PROVE AskedOnce'
  BY <1>3, MovesOne DEF Vanishes, Quiet
<1>4. ASSUME NEW w \in Workers, Passes(w) PROVE AskedOnce'
  BY <1>4, MovesOne DEF Passes, Quiet
<1>5. ASSUME NEW w \in Workers, ReserveInference(w) PROVE AskedOnce'
  BY <1>0, <1>5, MovesOne, ReservePoints, Points
<1>6. ASSUME NEW w \in Workers, BeginTurn(w) PROVE AskedOnce'
  BY <1>6, MovesOne, BeginPoints, Points
<1>7. ASSUME NEW w \in Workers, ConsumeInference(w) PROVE AskedOnce'
  BY <1>0, <1>7, MovesOne, ConsumePoints, Points
<1>8. ASSUME NEW w \in Workers, NEW label, NEW n, Concludes(w, label, n) PROVE AskedOnce'
  BY <1>0, <1>8, MovesOne, ConcludePoints, Points DEF Concludes
<1>9. ASSUME NEW w \in Workers, Recovered(w) PROVE AskedOnce'
  BY <1>0, <1>9, RecoveredPoints, Points
<1> QED
  BY <1>1, <1>2, <1>3, <1>4, <1>5, <1>6, <1>7, <1>8, <1>9, StepKinds

(* With fail_closed nobody passes the first arm without asking it.         *)
LEMMA FirstNext ==
    ASSUME TypeOK, CurrentArm, ReservedInOrder, AskedOnce, FirstAskedFirst, [Next]_vars
    PROVE  FirstAskedFirst'
<1> USE DEF FirstAskedFirst, failClosed
<1>1. CASE Quiet /\ UNCHANGED <<pc, cur>>
  BY <1>1 DEF Quiet
<1>2. ASSUME NEW w \in Workers, NEW label, Advances(w, label) PROVE FirstAskedFirst'
  BY <1>2, MovesOne DEF Advances, Quiet
<1>3. ASSUME NEW w \in Workers, Vanishes(w) PROVE FirstAskedFirst'
  BY <1>3, MovesOne DEF Vanishes, Quiet
<1>4. ASSUME NEW w \in Workers, Passes(w) PROVE FirstAskedFirst'
  BY <1>4, MovesOne, Points DEF Passes, Quiet
<1>5. ASSUME NEW w \in Workers, ReserveInference(w) PROVE FirstAskedFirst'
  BY <1>5, MovesOne, ReservePoints, Points DEF ReservedInOrder
<1>6. ASSUME NEW w \in Workers, BeginTurn(w) PROVE FirstAskedFirst'
  BY <1>6, MovesOne, BeginPoints, Points
<1>7. ASSUME NEW w \in Workers, ConsumeInference(w) PROVE FirstAskedFirst'
  BY <1>7, MovesOne, ConsumePoints, Points
<1>8. ASSUME NEW w \in Workers, NEW label, NEW n, Concludes(w, label, n) PROVE FirstAskedFirst'
  BY <1>8, MovesOne, ConcludePoints, Points DEF Concludes, AskedOnce
<1>9. ASSUME NEW w \in Workers, Recovered(w) PROVE FirstAskedFirst'
  BY <1>9, RecoveredPoints, Points
<1> QED
  BY <1>1, <1>2, <1>3, <1>4, <1>5, <1>6, <1>7, <1>8, <1>9, StepKinds

-----------------------------------------------------------------------------
(* The invariant at the start.                                             *)
LEMMA InvariantInit == Init => IInv
<1> SUFFICES ASSUME Init PROVE IInv
  OBVIOUS
<1>1. TypeOK /\ CurrentArm
  BY TypeInit
<1>2. LeaseInv
  BY DEF Init, LeaseInv, LeaseValid, Alive, Leased, AtWork
<1>3. \A w \in Workers, a \in Arms : resv[w][a] = "none"
  BY DEF Init
<1>4. ReservedInOrder /\ AskedOnce
  BY <1>3 DEF Init, ReservedInOrder, AskedOnce, Asks
<1>5. FirstAskedFirst
  BY <1>3 DEF Init, FirstAskedFirst
<1>6. Reservations("open") = {} /\ Reservations("reached") = {}
  BY <1>3 DEF Reservations
<1>7. InferenceAccounting
  BY <1>6, Numbers, FS_EmptySet DEF Init, InferenceAccounting
<1> QED
  BY <1>1, <1>2, <1>4, <1>5, <1>7 DEF IInv

(* The invariant holds in every reachable state, for every plan.           *)
THEOREM Invariant == Spec => []IInv
<1>1. IInv /\ [Next]_vars => IInv'
  BY TypeNext, LeaseNext, OrderNext, AccountingNext, AskedNext, FirstNext DEF IInv
<1> QED
  BY <1>1, InvariantInit, PTL DEF Spec

(* Every variable has its type.                                            *)
THEOREM TypeCorrect == Spec => []TypeOK
<1>1. IInv => TypeOK
  BY DEF IInv
<1> QED
  BY <1>1, Invariant, PTL

(* One worker at a time works on the arms of a suite, however many are     *)
(* started and whichever leases expire: _acquire_lease, _heartbeat.        *)
THEOREM LeaseExclusive == Spec => []OneWorkerAtWork
<1>1. IInv => OneWorkerAtWork
  BY LeaseExcludes DEF IInv
<1> QED
  BY <1>1, Invariant, PTL

(* The inferences of a suite are counted exactly and never exceed the      *)
(* authorized number: _reserve_inference, _consume_inference.              *)
THEOREM CapHolds == Spec => []InferenceAccounting
<1>1. IInv => InferenceAccounting
  BY DEF IInv
<1> QED
  BY <1>1, Invariant, PTL

(* No arm is asked twice, and with fail_closed one worker asks them all:   *)
(* _begin_turn.                                                            *)
THEOREM PaidOnce == Spec => []NoPaidResume
<1>1. IInv => NoPaidResume
  <2> SUFFICES ASSUME IInv, NEW x \in Reservations("reached"), NEW y \in Reservations("reached"),
                      x[2] = y[2] \/ failClosed
               PROVE  x[1] = y[1]
    BY DEF NoPaidResume
  <2>1. /\ x[1] \in Workers /\ x[2] \in Arms /\ resv[x[1]][x[2]] = "reached"
        /\ y[1] \in Workers /\ y[2] \in Arms /\ resv[y[1]][y[2]] = "reached"
    BY DEF Reservations
  <2>2. \A v, w \in Workers, a \in Arms : resv[v][a] = "reached" /\ resv[w][a] = "reached" => v = w
    BY DEF IInv, AskedOnce, Asks
  <2>3. CASE x[2] = y[2]
    BY <2>1, <2>2, <2>3
  <2>4. CASE failClosed
    <3>1. resv[x[1]][1] = "reached" /\ resv[y[1]][1] = "reached"
      BY <2>1, <2>4 DEF IInv, FirstAskedFirst
    <3>2. 1 \in Arms
      BY Points DEF IInv
    <3> QED
      BY <2>1, <2>2, <3>1, <3>2
  <2> QED
    BY <2>3, <2>4
<1> QED
  BY <1>1, Invariant, PTL

-----------------------------------------------------------------------------
(* SchemaMigration.                                                        *)

(* The stretch a process is in: between two looks, or before the first.    *)
LaterLooks(i) == {j \in Looks : j > i}
End(i) == IF LaterLooks(i) = {} THEN Len(Migrate) ELSE First(LaterLooks(i))

Migrating(p) == opener[p].state = "migrating"
Todo(p) == opener[p].todo
Alone(p) == opener[p].alone

At(p, i) ==
    /\ Todo(p) # {} /\ Todo(p) \subseteq (i + 1)..End(i)
    /\ End(i) \in Looks => End(i) \in Todo(p)

OpenerStates == {"closed", "migrating", "open", "failed", "died"}
OpenerRecords == [state : OpenerStates, todo : SUBSET Indices, alone : BOOLEAN]

SchemaTypeOK ==
    /\ version \in 0..SchemaVersion
    /\ crashes \in Nat
    /\ opener \in [Openers -> OpenerRecords]

(* A process in the middle of one of the two scripts.                      *)
MidBase(p) == Migrating(p) /\ 4 \in Todo(p) /\ 2 \notin Todo(p)
MidComparison(p) == Migrating(p) /\ 33 \in Todo(p) /\ 31 \notin Todo(p)

BaseObjects ==
    /\ version >= 1 => {"runs"} \cup BaseTables \subseteq objects
    /\ version >= 7 => DirectorTables \cup LedgerTables \subseteq objects
    /\ BaseTables \cap objects # {} => "runs" \in objects
BaseWalk(p) ==
    /\ 2 \in Todo(p) => 3 \in Todo(p)
    /\ 3 \in Todo(p) => 4 \in Todo(p)
    /\ 1 \notin Todo(p) => \A j \in {2, 3, 5, 6} : j \in Todo(p) \/ Migrate[j].objs \subseteq objects
    /\ MidBase(p) /\ 3 \in Todo(p) => BaseTables \cap objects = {}
BaseInv ==
    /\ BaseObjects
    /\ \A p \in Openers : Migrating(p) => BaseWalk(p)
    /\ \A p, q \in Openers : MidBase(p) /\ MidBase(q) => p = q
    /\ crashes = 0 /\ "runs" \in objects /\ version = 0 => \E p \in Openers : MidBase(p)

HalfComparison == "comparison_fixtures" \in objects /\ "comparison_authorizations" \notin objects
ComparisonObjects ==
    /\ "comparison_fixtures" \notin objects =>
           (ComparisonPlanTables \cup ComparisonRunTables) \cap objects = {}
    /\ ComparisonPlanTables \cap objects # {} => ComparisonPlanTables \subseteq objects
    /\ ComparisonRunTables \cap objects # {} =>
           ComparisonPlanTables \cup ComparisonRunTables \subseteq objects
ComparisonWalk(p) ==
    /\ 31 \in Todo(p) => 32 \in Todo(p)
    /\ 32 \in Todo(p) => 33 \in Todo(p)
    /\ MidComparison(p) =>
        /\ "comparison_fixtures" \in objects /\ ComparisonRunTables \cap objects = {}
        /\ 32 \in Todo(p) => ComparisonPlanTables \cap objects = {}
        /\ 32 \notin Todo(p) => ComparisonPlanTables \subseteq objects
ComparisonInv ==
    /\ ComparisonObjects
    /\ \A p \in Openers : Migrating(p) => ComparisonWalk(p)
    /\ \A p, q \in Openers : MidComparison(p) /\ MidComparison(q) => p = q
    /\ crashes = 0 /\ HalfComparison => \E p \in Openers : MidComparison(p)

PassiveWhole == PassiveObjects \cap objects # {} => PassiveObjects \subseteq objects

(* What an undisturbed process knows: nothing it is about to create is     *)
(* there, unless a script was torn before it came.                         *)
HalfBefore(p) == HalfComparison /\ ~ MidComparison(p)
Done(j) == Migrate[j].objs \ Backfilled \subseteq objects
Behind(p, i) == \A j \in 1..End(i) : j \in Todo(p) \/ Done(j)
Raised(p, i) ==
    \A j \in 61..End(i) :
        version >= Migrate[j].stamp \/ \E k \in Todo(p) : Migrate[k].stamp >= Migrate[j].stamp
Lowered(p, i) ==
    End(i) >= 61 /\ 61 \notin Todo(p) => \E j \in 61..End(i) : version <= Migrate[j].stamp
Progress(p, i) == HalfBefore(p) \/ (Behind(p, i) /\ Raised(p, i) /\ Lowered(p, i))

LoneWalk(p) ==
    /\ \A j \in Todo(p) : GuardedCreate(j) => Migrate[j].objs \cap objects = {}
    /\ 2 \in Todo(p) => version = 0
    /\ 31 \in Todo(p) => "comparison_suites" \notin objects
Undisturbed(p) ==
    /\ \A q \in Openers \ {p} : ~ Migrating(q)
    /\ Migrating(p) => LoneWalk(p)
    /\ opener[p].state = "failed" => Torn
    /\ opener[p].state = "open" => HalfComparison \/ Complete
LoneInv == \A p \in Openers : Alone(p) => Undisturbed(p)

Placed(p) == \E i \in {0} \cup Looks : At(p, i) /\ (Alone(p) => Progress(p, i))
PlaceInv == \A p \in Openers : Migrating(p) => Placed(p)

SchemaInv ==
    SchemaTypeOK /\ BaseInv /\ ComparisonInv /\ PassiveWhole /\ LoneInv /\ PlaceInv

-----------------------------------------------------------------------------
(* A set of numbers that is not empty has a first element.                 *)
LEMMA FirstIsLeast ==
    ASSUME NEW S, S \subseteq Nat, S # {}
    PROVE  First(S) \in S /\ \A j \in S : First(S) <= j
<1>1. PICK x \in S : \A y \in S : ~(<<y, x>> \in OpToRel(<, Nat))
  BY NatLessThanWellFounded, WFMin
<1>2. \A y \in S : ~(y < x)
  BY <1>1 DEF OpToRel
<1>3. \A y \in S : x <= y
  BY <1>2
<1> QED
  BY <1>3 DEF First

(* The looks are positions in the list of statements.                      *)
LEMMA LooksAreIndices == Looks \subseteq 1..90 /\ Looks \subseteq Nat /\ Indices = 1..90
  BY LookFacts DEF Looks, Indices

(* Every statement of the list has a stamp, 0 when it stores no version.   *)
LEMMA StampIsNatural ==
    ASSUME NEW j \in 1..90
    PROVE  j \in Indices /\ Migrate[j].stamp \in Nat
<1>1. j \in Indices
  BY LooksAreIndices
<1>2. Migrate[j].stamp \in 0..SchemaVersion
  BY <1>1, StatementFacts, Zenon
<1> QED
  BY <1>1, <1>2

(* A stretch ends at the next look, or at the end of the list.             *)
LEMMA EndFacts ==
    ASSUME NEW i \in {0} \cup Looks
    PROVE  /\ i \in 0..89 /\ End(i) \in (i + 1)..90
           /\ End(i) \in Looks \/ End(i) = 90
           /\ \A l \in Looks : l > i => End(i) <= l
<1>1. i \in 0..89
  BY LooksAreIndices, LookFacts
<1>2. CASE LaterLooks(i) = {}
  <2>1. End(i) = 90
    BY <1>2, LookFacts DEF End
  <2> QED
    BY <1>1, <1>2, <2>1, LooksAreIndices DEF LaterLooks
<1>3. CASE LaterLooks(i) # {}
  <2>1. End(i) = First(LaterLooks(i))
    BY <1>3 DEF End
  <2>2. LaterLooks(i) \subseteq Nat
    BY LooksAreIndices DEF LaterLooks
  <2>3. End(i) \in LaterLooks(i) /\ \A j \in LaterLooks(i) : End(i) <= j
    BY <1>3, <2>1, <2>2, FirstIsLeast
  <2>4. End(i) \in Looks /\ End(i) > i
    BY <2>3 DEF LaterLooks
  <2>5. End(i) \in (i + 1)..90
    <3>1. End(i) \in 1..90
      BY <2>4, LooksAreIndices
    <3> QED
      BY <1>1, <2>4, <3>1
  <2>6. \A l \in Looks : l > i => End(i) <= l
    BY <2>3 DEF LaterLooks
  <2> QED
    BY <1>1, <2>4, <2>5, <2>6
<1> QED
  BY <1>2, <1>3

(* The stretches that hold the scripts and the stamps.                     *)
LEMMA EndAround ==
    /\ End(0) = 1 /\ End(30) = 35 /\ End(79) = 82 /\ End(59) = 62
    /\ \A i \in {0} \cup Looks : \A j \in (i + 1)..End(i) :
        /\ j \in 2..7 => i = 1
        /\ j \in 31..33 => i = 30
        /\ j \in {60, 61} => i = 59
        /\ j \in {80, 81} => i = 79
<1>1. End(0) = 1 /\ End(30) = 35 /\ End(79) = 82 /\ End(59) = 62
  <2>1. End(0) = 1
    BY EndFacts, LookFacts
  <2>2. End(30) = 35
    <3>1. 30 \in Looks /\ 35 \in Looks
      BY LookFacts
    <3>2. End(30) \in 31..90 /\ End(30) <= 35 /\ (End(30) \in Looks \/ End(30) = 90)
      BY <3>1, EndFacts
    <3>3. End(30) \notin 31..34
      BY <3>2, LookFacts
    <3> QED
      BY <3>2, <3>3
  <2>3. End(79) = 82
    <3>1. 79 \in Looks /\ 82 \in Looks
      BY LookFacts
    <3>2. End(79) \in 80..90 /\ End(79) <= 82 /\ (End(79) \in Looks \/ End(79) = 90)
      BY <3>1, EndFacts
    <3>3. End(79) \notin {80, 81}
      BY <3>2, LookFacts
    <3> QED
      BY <3>2, <3>3
  <2>4. End(59) = 62
    <3>1. 59 \in Looks /\ 62 \in Looks
      BY LookFacts
    <3>2. End(59) \in 60..90 /\ End(59) <= 62 /\ (End(59) \in Looks \/ End(59) = 90)
      BY <3>1, EndFacts
    <3>3. End(59) \notin {60, 61}
      BY <3>2, LookFacts
    <3> QED
      BY <3>2, <3>3
  <2> QED
    BY <2>1, <2>2, <2>3, <2>4
<1>2. ASSUME NEW i \in {0} \cup Looks, NEW j \in (i + 1)..End(i)
      PROVE  /\ j \in 2..7 => i = 1
             /\ j \in 31..33 => i = 30
             /\ j \in {60, 61} => i = 59
             /\ j \in {80, 81} => i = 79
  <2>1. i \in 0..89 /\ j \in i + 1..90
    BY EndFacts
  <2>2. \A l \in Looks : l > i => j <= l
    BY EndFacts, LooksAreIndices
  <2>3. i = 0 \/ i \in Looks
    OBVIOUS
  <2>4. j \in 2..7 => i = 1
    BY <2>1, <2>2, <2>3, LookFacts
  <2>5. j \in 31..33 => i = 30
    BY <2>1, <2>2, <2>3, LookFacts
  <2>6. j \in {60, 61} => i = 59
    BY <2>1, <2>2, <2>3, LookFacts
  <2>7. j \in {80, 81} => i = 79
    BY <2>1, <2>2, <2>3, LookFacts
  <2> QED
    BY <2>4, <2>5, <2>6, <2>7
<1> QED
  BY <1>1, <1>2

(* A look decides on the statements of the stretch it begins.              *)
LEMMA DecidedIs ==
    ASSUME NEW i \in Looks, NEW file
    PROVE  Decided(i, file) = {j \in (i + 1)..End(i) : Applies(Migrate[j], file)}
  BY DEF Decided, End, LaterLooks

-----------------------------------------------------------------------------
(* The five kinds of step, by their effect on the process that takes it.   *)
Unaltered(q) ==
    /\ Todo(q)' = Todo(q) /\ opener'[q].state = opener[q].state
    /\ Alone(q)' <=> Alone(q)
OthersKept(p) == \A q \in Openers \ {p} : Unaltered(q)
StateAfter(todo) == IF todo = {} THEN "open" ELSE "migrating"

Applying(j) ==
    /\ version < Migrate[j].below
    /\ Migrate[j].on \subseteq objects
    /\ Migrate[j].unless \cap objects = {}

Connected(p) ==
    /\ ~ Migrating(p) /\ UNCHANGED <<objects, version, crashes>>
    /\ Todo(p)' = {1} /\ opener'[p].state = "migrating"
    /\ Alone(p)' => \A q \in Openers \ {p} : ~ Migrating(q)
    /\ \A q \in Openers \ {p} :
        Todo(q)' = Todo(q) /\ opener'[q].state = opener[q].state /\ ~ Alone(q)'

Looked(p, i) ==
    /\ Migrating(p) /\ Todo(p) = {i}
    /\ UNCHANGED <<objects, version, crashes>> /\ OthersKept(p)
    /\ Todo(p)' = {j \in (i + 1)..End(i) : Applying(j)}
    /\ opener'[p].state = StateAfter(Todo(p)')
    /\ Alone(p)' <=> Alone(p)

Heads(p, k) == k \in Todo(p) /\ \A j \in Todo(p) : k <= j

Executed(p, k) ==
    /\ Migrating(p) /\ Heads(p, k) /\ ~ Fails(Migrate[k], objects)
    /\ objects' = objects \cup Migrate[k].objs
    /\ version' = Stamped(Migrate[k], version)
    /\ UNCHANGED crashes /\ OthersKept(p)
    /\ Todo(p)' = Todo(p) \ {k}
    /\ opener'[p].state = StateAfter(Todo(p)')
    /\ Alone(p)' <=> Alone(p)

Refused(p, k) ==
    /\ Migrating(p) /\ Heads(p, k) /\ Fails(Migrate[k], objects)
    /\ UNCHANGED <<objects, version, crashes>> /\ OthersKept(p)
    /\ opener'[p].state = "failed"
    /\ Alone(p)' <=> Alone(p)

Died(p) ==
    /\ Migrating(p)
    /\ UNCHANGED <<objects, version>> /\ crashes' = crashes + 1 /\ OthersKept(p)
    /\ opener'[p].state = "died" /\ ~ Alone(p)'

(* connect starts the walk.                                                *)
LEMMA ConnectKind ==
    ASSUME SchemaTypeOK, NEW p \in Openers, Connect(p)
    PROVE  Connected(p) /\ SchemaTypeOK'
<1>1. \A q \in Openers \ {p} : opener'[q] = [opener[q] EXCEPT !.alone = FALSE]
  BY DEF Connect
<1>2. opener'[p] = [state |-> "migrating", todo |-> {1}, alone |-> Idle]
  BY DEF Connect
<1>3. 1 \in Indices
  BY LooksAreIndices
<1>4. SchemaTypeOK'
  <2>1. Idle \in BOOLEAN
    BY DEF Idle
  <2>2. \A q \in Openers : opener'[q] \in OpenerRecords
    <3>1. opener'[p] \in OpenerRecords
      BY <1>2, <1>3, <2>1 DEF OpenerRecords, OpenerStates
    <3>2. ASSUME NEW q \in Openers \ {p}
          PROVE  opener'[q] \in OpenerRecords
      <4>1. opener[q] \in OpenerRecords
        BY DEF SchemaTypeOK
      <4> QED
        BY <1>1, <4>1 DEF OpenerRecords
    <3> QED
      BY <3>1, <3>2
  <2>3. opener' = [q \in Openers |-> opener'[q]]
    BY DEF Connect
  <2> QED
    BY <2>2, <2>3 DEF SchemaTypeOK, Connect
<1>5. \A q \in Openers \ {p} :
        Todo(q)' = Todo(q) /\ opener'[q].state = opener[q].state /\ ~ Alone(q)'
  <2> SUFFICES ASSUME NEW q \in Openers \ {p}
               PROVE  Todo(q)' = Todo(q) /\ opener'[q].state = opener[q].state /\ ~ Alone(q)'
    OBVIOUS
  <2>1. opener[q] \in OpenerRecords
    BY DEF SchemaTypeOK
  <2>2. opener'[q].todo = opener[q].todo /\ opener'[q].state = opener[q].state
        /\ opener'[q].alone = FALSE
    BY <1>1, <2>1 DEF OpenerRecords
  <2> QED
    BY <2>2 DEF Todo, Alone
<1>6. Alone(p)' => \A q \in Openers \ {p} : ~ Migrating(q)
  BY <1>2 DEF Alone, Idle, Migrating
<1>7. Todo(p)' = {1} /\ opener'[p].state = "migrating"
  BY <1>2 DEF Todo
<1> QED
  BY <1>4, <1>5, <1>6, <1>7 DEF Connected, Connect, Migrating

(* A step that sets one process's record leaves the others alone.          *)
LEMMA Altered ==
    ASSUME SchemaTypeOK, NEW p \in Openers, NEW r \in OpenerRecords,
           opener' = [opener EXCEPT ![p] = r]
    PROVE  OthersKept(p) /\ opener'[p] = r /\ opener' \in [Openers -> OpenerRecords]
<1>1. opener'[p] = r
  BY DEF SchemaTypeOK
<1>2. \A q \in Openers \ {p} : opener'[q] = opener[q]
  BY DEF SchemaTypeOK
<1>3. OthersKept(p)
  BY <1>2 DEF OthersKept, Unaltered, Todo, Alone
<1>4. opener' \in [Openers -> OpenerRecords]
  BY DEF SchemaTypeOK, OpenerRecords
<1> QED
  BY <1>1, <1>3, <1>4

(* A process with nothing left to do has opened the file.                  *)
LEMMA AdvancedIs ==
    ASSUME NEW o \in OpenerRecords,
           o.state = "migrating", NEW t
    PROVE  Advanced(o, t) = [state |-> StateAfter(t), todo |-> t, alone |-> o.alone]
<1> DEFINE r == Advanced(o, t)
<1>1. DOMAIN r = {"state", "todo", "alone"}
  BY DEF OpenerRecords, Advanced
<1>2. r.todo = t /\ r.alone = o.alone
  BY DEF Advanced
<1>3. r.state = StateAfter(t)
  BY DEF Advanced, StateAfter
<1>4. r = [k \in {"state", "todo", "alone"} |-> r[k]]
  BY <1>1 DEF Advanced
<1> QED
  BY <1>1, <1>2, <1>3, <1>4

(* A process executes the first of the statements it has left.             *)
LEMMA HeadIs ==
    ASSUME SchemaTypeOK, NEW p \in Openers, Todo(p) # {}
    PROVE  Heads(p, First(Todo(p))) /\ First(Todo(p)) \in 1..90
<1>1. Todo(p) \subseteq Indices
  BY DEF OpenerRecords, SchemaTypeOK, Todo
<1>2. Todo(p) \subseteq 1..90 /\ Todo(p) \subseteq Nat
  BY <1>1, LooksAreIndices
<1> QED
  BY <1>2, FirstIsLeast DEF Heads

(* A look that is left to do ends its stretch.                             *)
LEMMA LookEnds ==
    ASSUME NEW p, NEW h \in {0} \cup Looks, At(p, h), NEW k \in Todo(p), k \in Looks
    PROVE  k = End(h) /\ (Heads(p, k) => Todo(p) = {k})
<1>1. k \in (h + 1)..End(h)
  BY DEF At
<1>2. h \in 0..89 /\ End(h) \in (h + 1)..90 /\ \A l \in Looks : l > h => End(h) <= l
  BY EndFacts
<1>3. k = End(h)
  BY <1>1, <1>2
<1>4. ASSUME Heads(p, k) PROVE Todo(p) = {k}
  <2>1. \A j \in Todo(p) : j \in (h + 1)..End(h) /\ k <= j
    BY <1>4 DEF Heads, At
  <2>2. \A j \in Todo(p) : j = k
    BY <1>2, <1>3, <2>1
  <2> QED
    BY <2>2
<1> QED
  BY <1>3, <1>4

(* A look at the schema decides on the next stretch.                       *)
LEMMA LookKind ==
    ASSUME SchemaTypeOK, PlaceInv, NEW p \in Openers, Migrating(p),
           NEW i, i = First(Todo(p)), Migrate[i].op = "look",
           UNCHANGED <<objects, version, crashes>>,
           opener' = [opener EXCEPT ![p] =
               Advanced(@, Decided(i, [objects |-> objects, version |-> version]))]
    PROVE  SchemaTypeOK' /\ i \in Looks /\ Looked(p, i)
<1> DEFINE t == {j \in (i + 1)..End(i) : Applying(j)}
<1>1. PICK h \in {0} \cup Looks : At(p, h)
  BY DEF PlaceInv, Placed
<1>2. Heads(p, i) /\ i \in 1..90
  BY <1>1, HeadIs DEF At
<1>3. i \in Looks
  BY <1>2, LookFacts DEF Looks
<1>4. Todo(p) = {i}
  BY <1>1, <1>2, <1>3, LookEnds DEF Heads
<1>5. Decided(i, [objects |-> objects, version |-> version]) = t
  BY <1>3, DecidedIs DEF Applies, Applying
<1>6. t \subseteq Indices
  BY <1>3, EndFacts, LooksAreIndices
<1> HIDE DEF t
<1>7. opener[p] \in OpenerRecords
      /\ opener[p].state = "migrating"
  BY DEF SchemaTypeOK, Migrating
<1>8. opener' = [opener EXCEPT ![p] = [state |-> StateAfter(t), todo |-> t, alone |-> opener[p].alone]]
  BY <1>5, <1>7, AdvancedIs
<1>9. StateAfter(t) \in OpenerStates /\ opener[p].alone \in BOOLEAN
  BY <1>7 DEF OpenerRecords, StateAfter, OpenerStates
<1> DEFINE r == [state |-> StateAfter(t), todo |-> t, alone |-> opener[p].alone]
<1>15. r \in OpenerRecords
  BY <1>6, <1>9 DEF OpenerRecords
<1>16. r.state = StateAfter(t) /\ r.todo = t /\ r.alone = opener[p].alone
  OBVIOUS
<1> HIDE DEF r
<1>17. OthersKept(p) /\ opener'[p] = r /\ opener' \in [Openers -> OpenerRecords]
  BY <1>8, <1>15, Altered DEF r
<1>10. /\ OthersKept(p)
       /\ Todo(p)' = t /\ opener'[p].state = StateAfter(t) /\ opener'[p].alone = opener[p].alone
       /\ opener' \in [Openers -> OpenerRecords]
  BY <1>16, <1>17 DEF Todo
<1>11. SchemaTypeOK'
  BY <1>10 DEF SchemaTypeOK, OpenerRecords
<1>12. Alone(p)' <=> Alone(p)
  BY <1>10 DEF Alone
<1>13. opener'[p].state = StateAfter(Todo(p)')
  BY <1>10
<1> QED
  BY <1>3, <1>4, <1>10, <1>11, <1>12, <1>13 DEF Looked, t

(* A statement is executed and committed by itself.                        *)
LEMMA ExecuteKind ==
    ASSUME SchemaTypeOK, PlaceInv, NEW p \in Openers, Migrating(p),
           NEW k, k = First(Todo(p)), Migrate[k].op # "look",
           ~ Fails(Migrate[k], objects), UNCHANGED crashes,
           objects' = objects \cup Migrate[k].objs,
           version' = Stamped(Migrate[k], version),
           opener' = [opener EXCEPT ![p] = Advanced(@, @.todo \ {k})]
    PROVE  SchemaTypeOK' /\ k \in Indices \ Looks /\ Executed(p, k)
<1> DEFINE t == Todo(p) \ {k}
<1>1. PICK h \in {0} \cup Looks : At(p, h)
  BY DEF PlaceInv, Placed
<1>2. Heads(p, k) /\ k \in 1..90
  BY <1>1, HeadIs DEF At
<1>3. k \in Indices \ Looks
  BY <1>2, LookFacts, LooksAreIndices DEF Looks
<1>7. opener[p] \in OpenerRecords
      /\ opener[p].state = "migrating"
  BY DEF SchemaTypeOK, Migrating
<1>6. t \subseteq Indices /\ opener[p].todo \ {k} = t
  BY <1>7 DEF OpenerRecords, Todo
<1> HIDE DEF t
<1>8. opener' = [opener EXCEPT ![p] = [state |-> StateAfter(t), todo |-> t, alone |-> opener[p].alone]]
  BY <1>6, <1>7, AdvancedIs
<1>9. StateAfter(t) \in OpenerStates /\ opener[p].alone \in BOOLEAN
  BY <1>7 DEF OpenerRecords, StateAfter, OpenerStates
<1> DEFINE r == [state |-> StateAfter(t), todo |-> t, alone |-> opener[p].alone]
<1>15. r \in OpenerRecords
  BY <1>6, <1>9 DEF OpenerRecords
<1>16. r.state = StateAfter(t) /\ r.todo = t /\ r.alone = opener[p].alone
  OBVIOUS
<1> HIDE DEF r
<1>17. OthersKept(p) /\ opener'[p] = r /\ opener' \in [Openers -> OpenerRecords]
  BY <1>8, <1>15, Altered DEF r
<1>10. /\ OthersKept(p)
       /\ Todo(p)' = t /\ opener'[p].state = StateAfter(t) /\ opener'[p].alone = opener[p].alone
       /\ opener' \in [Openers -> OpenerRecords]
  BY <1>16, <1>17 DEF Todo
<1>14. version' \in 0..SchemaVersion
  BY <1>3, StatementFacts DEF Stamped, SchemaTypeOK
<1>11. SchemaTypeOK'
  BY <1>10, <1>14 DEF SchemaTypeOK, OpenerRecords
<1>12. Alone(p)' <=> Alone(p)
  BY <1>10 DEF Alone
<1>13. opener'[p].state = StateAfter(Todo(p)')
  BY <1>10
<1> QED
  BY <1>2, <1>3, <1>10, <1>11, <1>12, <1>13 DEF Executed, t

(* A CREATE or an ALTER whose object is there fails, and connect with it.  *)
LEMMA RefuseKind ==
    ASSUME SchemaTypeOK, PlaceInv, NEW p \in Openers, Migrating(p),
           NEW k, k = First(Todo(p)), Fails(Migrate[k], objects),
           UNCHANGED <<objects, version, crashes>>,
           opener' = [opener EXCEPT ![p] = [state |-> "failed", todo |-> {}, alone |-> @.alone]]
    PROVE  SchemaTypeOK' /\ k \in Indices /\ Refused(p, k)
<1>1. PICK h \in {0} \cup Looks : At(p, h)
  BY DEF PlaceInv, Placed
<1>2. Heads(p, k) /\ k \in Indices
  BY <1>1, HeadIs, LooksAreIndices DEF At
<1>3. opener[p].alone \in BOOLEAN /\ "failed" \in OpenerStates
  BY DEF OpenerRecords, SchemaTypeOK, OpenerStates
<1>4. opener' = [opener EXCEPT ![p] = [state |-> "failed", todo |-> {}, alone |-> opener[p].alone]]
  OBVIOUS
<1> DEFINE r == [state |-> "failed", todo |-> {}, alone |-> opener[p].alone]
<1>8. r \in OpenerRecords
  BY <1>3 DEF OpenerRecords
<1>9. r.state = "failed" /\ r.alone = opener[p].alone
  OBVIOUS
<1> HIDE DEF r
<1>10. OthersKept(p) /\ opener'[p] = r /\ opener' \in [Openers -> OpenerRecords]
  BY <1>4, <1>8, Altered DEF r
<1>5. /\ OthersKept(p)
      /\ opener'[p].state = "failed" /\ opener'[p].alone = opener[p].alone
      /\ opener' \in [Openers -> OpenerRecords]
  BY <1>9, <1>10
<1>6. SchemaTypeOK'
  BY <1>5 DEF SchemaTypeOK, OpenerRecords
<1>7. Alone(p)' <=> Alone(p)
  BY <1>5 DEF Alone
<1> QED
  BY <1>2, <1>5, <1>6, <1>7 DEF Refused

(* A process that dies leaves what it has committed.                       *)
LEMMA DieKind ==
    ASSUME SchemaTypeOK, NEW p \in Openers, OpenerDies(p)
    PROVE  SchemaTypeOK' /\ Died(p)
<1> DEFINE r == [Closed EXCEPT !.state = "died"]
<1>1. r \in OpenerRecords /\ r.state = "died" /\ r.alone = FALSE
  BY DEF Closed, OpenerRecords, OpenerStates
<1> HIDE DEF r
<1>2. OthersKept(p) /\ opener'[p] = r /\ opener' \in [Openers -> OpenerRecords]
  BY <1>1, Altered DEF OpenerDies, r
<1>3. /\ OthersKept(p)
      /\ opener'[p].state = "died" /\ opener'[p].alone = FALSE
      /\ opener' \in [Openers -> OpenerRecords]
  BY <1>1, <1>2
<1>4. SchemaTypeOK'
  BY <1>3 DEF SchemaTypeOK, OpenerRecords, OpenerDies
<1>5. ~ Alone(p)'
  BY <1>3 DEF Alone
<1> QED
  BY <1>3, <1>4, <1>5 DEF Died, OpenerDies, Migrating

(* A step of the migration is one of the three.                            *)
LEMMA StepKind ==
    ASSUME SchemaTypeOK, PlaceInv, NEW p \in Openers, Step(p)
    PROVE  /\ SchemaTypeOK'
           /\ \/ \E i \in Looks : Looked(p, i)
              \/ \E k \in Indices \ Looks : Executed(p, k)
              \/ \E k \in Indices : Refused(p, k)
<1> DEFINE i == First(Todo(p))
<1>0. Migrating(p) /\ UNCHANGED crashes
  BY DEF Step, Migrating
<1>1. CASE /\ Migrate[i].op = "look"
           /\ opener' = [opener EXCEPT ![p] =
                Advanced(@, Decided(i, [objects |-> objects, version |-> version]))]
           /\ UNCHANGED <<objects, version>>
  BY <1>0, <1>1, LookKind
<1>2. CASE /\ Migrate[i].op # "look"
           /\ ~ Fails(Migrate[i], objects)
           /\ objects' = objects \cup Migrate[i].objs
           /\ version' = Stamped(Migrate[i], version)
           /\ opener' = [opener EXCEPT ![p] = Advanced(@, @.todo \ {i})]
  BY <1>0, <1>2, ExecuteKind
<1>3. CASE /\ Fails(Migrate[i], objects)
           /\ opener' = [opener EXCEPT ![p] = [state |-> "failed", todo |-> {}, alone |-> @.alone]]
           /\ UNCHANGED <<objects, version>>
  BY <1>0, <1>3, RefuseKind
<1> QED
  BY <1>1, <1>2, <1>3 DEF Step, Todo

-----------------------------------------------------------------------------
(* A migrating process has something left, and only the first look before  *)
(* it has looked.                                                          *)
LEMMA TodoFacts ==
    ASSUME SchemaTypeOK, PlaceInv, NEW p \in Openers, Migrating(p)
    PROVE  /\ Todo(p) # {} /\ Todo(p) \subseteq 1..90
           /\ 1 \in Todo(p) => Todo(p) = {1}
<1>1. PICK h \in {0} \cup Looks : At(p, h)
  BY DEF PlaceInv, Placed
<1>2. h \in 0..89 /\ End(h) \in (h + 1)..90
  BY EndFacts
<1>3. Todo(p) # {} /\ Todo(p) \subseteq (h + 1)..End(h)
  BY <1>1 DEF At
<1>4. ASSUME 1 \in Todo(p) PROVE Todo(p) = {1}
  <2>1. h = 0
    BY <1>2, <1>3, <1>4
  <2>2. End(h) = 1
    BY <2>1, EndAround
  <2> QED
    BY <1>3, <1>4, <2>1, <2>2
<1> QED
  BY <1>2, <1>3, <1>4

(* What executing a statement says about this process and the others.      *)
LEMMA ExecutedFacts ==
    ASSUME SchemaTypeOK, PlaceInv, NEW p \in Openers, NEW k \in Indices \ Looks, Executed(p, k)
    PROVE  /\ k \in 2..90 /\ 1 \notin Todo(p) /\ Heads(p, k)
           /\ \A j \in 1..90 : j < k => j \notin Todo(p)
           /\ Migrating(p)' <=> Todo(p) \ {k} # {}
           /\ \A q \in Openers \ {p} :
                Todo(q)' = Todo(q) /\ (Migrating(q)' <=> Migrating(q)) /\ (Alone(q)' <=> Alone(q))
<1>1. k \in 2..90
  BY LookFacts, LooksAreIndices
<1>2. Heads(p, k)
  BY DEF Executed
<1>3. \A j \in 1..90 : j < k => j \notin Todo(p)
  BY <1>1, <1>2 DEF Heads
<1>4. Migrating(p)' <=> Todo(p) \ {k} # {}
  BY DEF Executed, StateAfter, Migrating
<1>5. \A q \in Openers \ {p} :
        Todo(q)' = Todo(q) /\ (Migrating(q)' <=> Migrating(q)) /\ (Alone(q)' <=> Alone(q))
  BY DEF Executed, OthersKept, Unaltered, Migrating
<1> QED
  BY <1>1, <1>2, <1>3, <1>4, <1>5

(* Executing a statement keeps the base schema: only one process at a time *)
(* is inside its script, because CREATE TABLE runs fails for the next.     *)
LEMMA BaseExecuted ==
    ASSUME SchemaTypeOK, PlaceInv, BaseInv, NEW p \in Openers,
           NEW k \in Indices \ Looks, Executed(p, k), SchemaTypeOK'
    PROVE  BaseInv'
<1>1. /\ k \in 2..90 /\ 1 \notin Todo(p) /\ k \in Todo(p)
      /\ \A j \in 1..90 : j < k => j \notin Todo(p)
      /\ Migrating(p)' <=> Todo(p) \ {k} # {}
      /\ Migrating(p) /\ Todo(p)' = Todo(p) \ {k}
  BY ExecutedFacts DEF Heads, Executed
<1>2. \A q \in Openers \ {p} : Todo(q)' = Todo(q) /\ (Migrating(q)' <=> Migrating(q))
  BY ExecutedFacts
<1>3. BaseWalk(p)
  BY <1>1 DEF BaseInv
<1>4. objects' = objects \cup Migrate[k].objs
  BY DEF Executed
<1>5. /\ k >= 3 => "runs" \in objects
      /\ k >= 4 => BaseTables \subseteq objects
      /\ k >= 7 => DirectorTables \cup LedgerTables \subseteq objects
  <2>1. \A j \in {2, 3, 5, 6} : j < k => Migrate[j].objs \subseteq objects
    BY <1>1, <1>3 DEF BaseWalk
  <2> QED
    BY <1>1, <2>1, BaseFacts
<1>6. version' = version \/ (version' = Migrate[k].stamp /\ Migrate[k].stamp # 0)
  BY DEF Executed, Stamped
<1>7. Migrate[k].stamp # 0 => k >= 4
  BY <1>1, BaseFacts
<1>8. Migrate[k].stamp >= 7 => k >= 7
  BY <1>1, BaseFacts
<1>9. /\ "runs" \in Migrate[k].objs => k = 2
      /\ Migrate[k].objs \cap BaseTables # {} => k = 3
  BY OwnerFacts
<1>10. BaseObjects'
  <2>1. (version >= 1 => {"runs"} \cup BaseTables \subseteq objects)'
    BY <1>1, <1>4, <1>5, <1>6, <1>7 DEF BaseInv, BaseObjects
  <2>2. (version >= 7 => DirectorTables \cup LedgerTables \subseteq objects)'
    BY <1>1, <1>4, <1>5, <1>6, <1>8 DEF BaseInv, BaseObjects
  <2>3. (BaseTables \cap objects # {} => "runs" \in objects)'
    BY <1>1, <1>4, <1>5, <1>9 DEF BaseInv, BaseObjects
  <2> QED
    BY <2>1, <2>2, <2>3 DEF BaseObjects
<1>11. k = 3 => MidBase(p)
  BY <1>1, <1>3 DEF BaseWalk, MidBase
<1>12. \A q \in Openers \ {p} : MidBase(q)' <=> MidBase(q)
  BY <1>2 DEF MidBase
<1>13. k = 2 => "runs" \notin objects /\ BaseTables \cap objects = {}
  BY BaseFacts DEF Executed, Fails, BaseInv, BaseObjects
<1>14. ASSUME NEW q \in Openers \ {p}, Migrating(q)'
       PROVE  BaseWalk(q)'
  <2>1. BaseWalk(q) /\ Migrating(q)
    BY <1>2, <1>14 DEF BaseInv
  <2>2. MidBase(q)' /\ 3 \in Todo(q)' => BaseTables \cap objects' = {}
    BY <1>2, <1>4, <1>9, <1>11, <1>12, <2>1 DEF BaseInv, BaseWalk
  <2>3. /\ 2 \in Todo(q)' => 3 \in Todo(q)'
        /\ 3 \in Todo(q)' => 4 \in Todo(q)'
        /\ 1 \notin Todo(q)' => \A j \in {2, 3, 5, 6} : j \in Todo(q)' \/ Migrate[j].objs \subseteq objects'
    BY <1>2, <1>4, <2>1 DEF BaseWalk
  <2> QED
    BY <2>2, <2>3 DEF BaseWalk
<1>15. ASSUME Migrating(p)' PROVE BaseWalk(p)'
  <2>1. MidBase(p)' /\ 3 \in Todo(p)' => BaseTables \cap objects' = {}
    <3> SUFFICES ASSUME MidBase(p)', 3 \in Todo(p)' PROVE BaseTables \cap objects' = {}
      OBVIOUS
    <3>1. k # 3
      BY <1>1
    <3>2. BaseTables \cap objects = {}
      BY <1>1, <1>3, <1>13 DEF BaseWalk, MidBase
    <3> QED
      BY <1>4, <1>9, <3>1, <3>2
  <2>2. 2 \in Todo(p)' => 3 \in Todo(p)'
    BY <1>1, <1>3 DEF BaseWalk
  <2>3. 3 \in Todo(p)' => 4 \in Todo(p)'
    BY <1>1, <1>3 DEF BaseWalk
  <2>4. \A j \in {2, 3, 5, 6} : j \in Todo(p)' \/ Migrate[j].objs \subseteq objects'
    BY <1>1, <1>3, <1>4 DEF BaseWalk
  <2> QED
    BY <2>1, <2>2, <2>3, <2>4 DEF BaseWalk
<1>16. \A q, r \in Openers : MidBase(q)' /\ MidBase(r)' => q = r
  <2>1. MidBase(p)' => MidBase(p) \/ k = 2
    BY <1>1 DEF MidBase
  <2>2. ASSUME NEW q \in Openers \ {p}, MidBase(q), k = 2 PROVE FALSE
    <3>1. Migrating(q) /\ 4 \in Todo(q) /\ 2 \notin Todo(q)
      BY <2>2 DEF MidBase
    <3>2. 1 \notin Todo(q)
      BY <3>1, TodoFacts
    <3>3. BaseWalk(q)
      BY <3>1 DEF BaseInv
    <3>4. Migrate[2].objs \subseteq objects
      BY <3>1, <3>2, <3>3 DEF BaseWalk
    <3> QED
      BY <1>13, <2>2, <3>4, BaseFacts
  <2>3. \A q, r \in Openers : MidBase(q) /\ MidBase(r) => q = r
    BY DEF BaseInv
  <2> QED
    BY <1>12, <2>1, <2>2, <2>3
<1>17. ASSUME (crashes = 0 /\ "runs" \in objects /\ version = 0)'
       PROVE  \E q \in Openers : MidBase(q)'
  <2>1. CASE k = 2
    <3>1. 4 \in Todo(p)'
      BY <1>1, <1>3, <2>1 DEF BaseWalk
    <3> QED
      BY <1>1, <2>1, <3>1 DEF MidBase
  <2>2. CASE k # 2
    <3>1. "runs" \in objects
      BY <1>4, <1>9, <1>17, <2>2
    <3>2. version = 0 /\ crashes = 0 /\ Migrate[k].stamp = 0
      BY <1>6, <1>17 DEF Executed, Stamped
    <3>3. PICK q \in Openers : MidBase(q)
      BY <3>1, <3>2 DEF BaseInv
    <3>4. k # 4
      BY <3>2, BaseFacts
    <3>5. CASE q = p
      BY <1>1, <3>3, <3>4, <3>5 DEF MidBase
    <3>6. CASE q # p
      BY <1>12, <3>3, <3>6
    <3> QED
      BY <3>5, <3>6
  <2> QED
    BY <2>1, <2>2
<1> QED
  BY <1>10, <1>14, <1>15, <1>16, <1>17 DEF BaseInv

(* A step that changes nothing in the file.                                *)
FileUntouched(p) ==
    /\ UNCHANGED <<objects, version>>
    /\ \A q \in Openers \ {p} : Todo(q)' = Todo(q) /\ (Migrating(q)' <=> Migrating(q))

(* Every step but an execution leaves the file alone.                      *)
LEMMA QuietSteps ==
    ASSUME NEW p \in Openers,
           Connected(p) \/ (\E i \in Looks : Looked(p, i)) \/ (\E k \in Indices : Refused(p, k)) \/ Died(p)
    PROVE  FileUntouched(p)
<1>1. CASE Connected(p)
  BY <1>1 DEF Connected, FileUntouched, Migrating
<1>2. CASE \E i \in Looks : Looked(p, i)
  BY <1>2 DEF Looked, OthersKept, Unaltered, FileUntouched, Migrating
<1>3. CASE \E k \in Indices : Refused(p, k)
  BY <1>3 DEF Refused, OthersKept, Unaltered, FileUntouched, Migrating
<1>4. CASE Died(p)
  BY <1>4 DEF Died, OthersKept, Unaltered, FileUntouched, Migrating
<1> QED
  BY <1>1, <1>2, <1>3, <1>4

(* A step that leaves the file alone keeps the base schema, unless it      *)
(* takes the process out of the script without a crash.                    *)
LEMMA BaseQuiet ==
    ASSUME BaseInv, NEW p \in Openers, FileUntouched(p), ~ MidBase(p)',
           Migrating(p)' => BaseWalk(p)',
           crashes' = 0 => crashes = 0 /\ ~ MidBase(p)
    PROVE  BaseInv'
<1>1. \A q \in Openers \ {p} : MidBase(q)' <=> MidBase(q)
  BY DEF FileUntouched, MidBase
<1>2. \A q \in Openers \ {p} : Migrating(q)' => BaseWalk(q)'
  BY <1>1 DEF BaseInv, BaseWalk, FileUntouched
<1>3. BaseObjects'
  BY DEF BaseInv, BaseObjects, FileUntouched
<1>4. \A q, r \in Openers : MidBase(q)' /\ MidBase(r)' => q = r
  BY <1>1 DEF BaseInv
<1>5. (crashes = 0 /\ "runs" \in objects /\ version = 0)' => \E q \in Openers : MidBase(q)'
  BY <1>1 DEF BaseInv, FileUntouched
<1> QED
  BY <1>2, <1>3, <1>4, <1>5 DEF BaseInv

(* What a look says about the next stretch.                                *)
LEMMA LookedFacts ==
    ASSUME SchemaTypeOK, NEW p \in Openers, NEW i \in Looks, Looked(p, i)
    PROVE  /\ \A j : j \in Todo(p)' <=> j \in (i + 1)..End(i) /\ Applying(j)
           /\ End(i) \in Looks => End(i) \in Todo(p)'
           /\ Todo(p)' \subseteq (i + 1)..End(i)
           /\ i \in 1..89 /\ End(i) \in (i + 1)..90
           /\ Migrating(p)' <=> Todo(p)' # {}
<1>1. \A j : j \in Todo(p)' <=> j \in (i + 1)..End(i) /\ Applying(j)
  BY DEF Looked
<1>2. i \in 1..89 /\ End(i) \in (i + 1)..90
  BY EndFacts, LooksAreIndices
<1>3. ASSUME End(i) \in Looks PROVE End(i) \in Todo(p)'
  <2>1. Applying(End(i))
    BY <1>3, LookFacts DEF Applying, SchemaTypeOK, Always, SchemaVersion
  <2> QED
    BY <1>1, <1>2, <2>1
<1>4. Migrating(p)' <=> Todo(p)' # {}
  BY DEF Looked, StateAfter, Migrating
<1> QED
  BY <1>1, <1>2, <1>3, <1>4

(* A look takes the whole base script or none of it: its three statements  *)
(* share one version guard.                                                *)
LEMMA BaseLooked ==
    ASSUME SchemaTypeOK, PlaceInv, BaseInv, NEW p \in Openers, NEW i \in Looks, Looked(p, i)
    PROVE  BaseInv'
<1>1. FileUntouched(p)
  BY QuietSteps
<1>2. Todo(p) = {i} /\ Migrating(p) /\ crashes' = crashes /\ objects' = objects
  BY DEF Looked
<1>3. ~ MidBase(p)
  BY <1>2, LookFacts DEF MidBase
<1>4. /\ \A j : j \in Todo(p)' <=> j \in (i + 1)..End(i) /\ Applying(j)
      /\ i \in 1..89 /\ End(i) \in (i + 1)..90
  BY LookedFacts
<1>5. \A j \in 2..7 : j \in (i + 1)..End(i) => i = 1
  BY EndAround
<1>6. i = 1 => End(i) >= 8
  <2> SUFFICES ASSUME i = 1 PROVE End(i) >= 8
    OBVIOUS
  <2>1. End(i) \in Looks \/ End(i) = 90
    BY EndFacts
  <2> QED
    BY <1>4, <2>1, LookFacts
<1>7. i # 1 => \A j \in 1..7 : j \notin Todo(p)'
  BY <1>4, <1>5
<1>8. i = 1 => \A j \in 2..7 : j \in Todo(p)' <=> version < Migrate[j].below
  BY <1>4, <1>6, BaseFacts DEF Applying
<1>9. ~ MidBase(p)'
  BY <1>7, <1>8, BaseFacts DEF MidBase
<1>10. BaseWalk(p)'
  <2>1. \A j \in {2, 3, 5, 6} : j \in Todo(p)' \/ Migrate[j].objs \subseteq objects'
    <3>1. CASE i = 1
      <4>1. \A j \in {2, 3, 5, 6} : j \notin Todo(p)' => version >= Migrate[j].below
        BY <1>8, <3>1, BaseFacts DEF SchemaTypeOK
      <4>2. /\ 2 \notin Todo(p)' => version >= 1
            /\ 3 \notin Todo(p)' => version >= 1
            /\ 5 \notin Todo(p)' => version >= 7
            /\ 6 \notin Todo(p)' => version >= 7
        BY <4>1, BaseFacts
      <4> QED
        BY <1>2, <4>2, BaseFacts DEF BaseInv, BaseObjects
    <3>2. CASE i # 1
      <4>1. BaseWalk(p)
        BY <1>2 DEF BaseInv
      <4>2. \A j \in {2, 3, 5, 6} : j \notin Todo(p)
        BY <1>2, LookFacts
      <4> QED
        BY <1>2, <3>2, <4>1, <4>2 DEF BaseWalk
    <3> QED
      BY <3>1, <3>2
  <2>2. /\ 2 \in Todo(p)' => 3 \in Todo(p)'
        /\ 3 \in Todo(p)' => 4 \in Todo(p)'
    BY <1>7, <1>8, BaseFacts
  <2> QED
    BY <1>9, <2>1, <2>2 DEF BaseWalk
<1> QED
  BY <1>1, <1>2, <1>3, <1>9, <1>10, BaseQuiet

(* A process inside one of the two scripts is not refused: it alone        *)
(* creates their tables.                                                   *)
LEMMA NoMidRefusal ==
    ASSUME SchemaTypeOK, PlaceInv, BaseInv, ComparisonInv, NEW p \in Openers,
           NEW k \in Indices, Refused(p, k)
    PROVE  ~ MidBase(p) /\ ~ MidComparison(p)
<1>1. Migrating(p) /\ k \in Todo(p) /\ (\A j \in Todo(p) : k <= j)
  BY DEF Refused, Heads
<1>2. Migrate[k].op = "create" /\ Migrate[k].objs \cap objects # {}
  BY DEF Refused, Fails
<1>3. Todo(p) \subseteq 1..90 /\ k \in 1..90 /\ k \notin Looks
  BY <1>1, <1>2, TodoFacts DEF Looks
<1>4. ASSUME MidBase(p) PROVE FALSE
  <2>1. 4 \in Todo(p) /\ 2 \notin Todo(p) /\ BaseWalk(p)
    BY <1>4 DEF MidBase, BaseInv
  <2>2. k \in {1, 3, 4}
    BY <1>1, <1>3, <2>1
  <2>3. k = 3
    BY <1>2, <1>3, <2>2, BaseFacts, LookFacts
  <2>4. BaseTables \cap objects = {}
    BY <1>1, <1>4, <2>1, <2>3 DEF BaseWalk
  <2> QED
    BY <1>2, <2>3, <2>4, BaseFacts
<1>5. ASSUME MidComparison(p) PROVE FALSE
  <2>1. 33 \in Todo(p) /\ 31 \notin Todo(p) /\ ComparisonWalk(p)
    BY <1>5 DEF MidComparison, ComparisonInv
  <2>2. PICK h \in {0} \cup Looks : At(p, h)
    BY <1>1 DEF PlaceInv, Placed
  <2>3. Todo(p) \subseteq (h + 1)..End(h)
    BY <2>2 DEF At
  <2>4. h = 30
    BY <2>1, <2>3, EndAround
  <2>5. k \in {32, 33}
    BY <1>1, <1>3, <2>1, <2>3, <2>4, EndAround
  <2>6. Migrate[k].objs \cap objects = {}
    BY <1>1, <1>5, <2>1, <2>5, ComparisonFacts DEF ComparisonWalk
  <2> QED
    BY <1>2, <2>6
<1> QED
  BY <1>4, <1>5

(* Connecting, being refused and dying keep the base schema.               *)
LEMMA BaseOther ==
    ASSUME SchemaTypeOK, PlaceInv, BaseInv, ComparisonInv, NEW p \in Openers,
           Connected(p) \/ (\E k \in Indices : Refused(p, k)) \/ Died(p)
    PROVE  BaseInv'
<1>1. FileUntouched(p)
  BY QuietSteps
<1>2. CASE Connected(p)
  <2>1. Todo(p)' = {1} /\ ~ Migrating(p) /\ crashes' = crashes
    BY <1>2 DEF Connected
  <2>2. ~ MidBase(p) /\ ~ MidBase(p)'
    BY <2>1 DEF MidBase
  <2>3. BaseWalk(p)'
    BY <2>1, <2>2 DEF BaseWalk
  <2> QED
    BY <1>1, <2>1, <2>2, <2>3, BaseQuiet
<1>3. CASE \E k \in Indices : Refused(p, k)
  <2>1. ~ Migrating(p)' /\ crashes' = crashes
    BY <1>3 DEF Refused, Migrating
  <2>2. ~ MidBase(p) /\ ~ MidBase(p)'
    BY <1>3, <2>1, NoMidRefusal DEF MidBase
  <2> QED
    BY <1>1, <2>1, <2>2, BaseQuiet
<1>4. CASE Died(p)
  <2>1. ~ Migrating(p)' /\ crashes' # 0
    BY <1>4 DEF Died, Migrating, SchemaTypeOK
  <2>2. ~ MidBase(p)'
    BY <2>1 DEF MidBase
  <2> QED
    BY <1>1, <2>1, <2>2, BaseQuiet
<1> QED
  BY <1>2, <1>3, <1>4

(* The last table of the comparison script, and the one that it looks for. *)
LEMMA Authorizations ==
    "comparison_authorizations" \in ComparisonRunTables /\ "comparison_suites" \in ComparisonPlanTables
  BY DEF ComparisonRunTables, ComparisonPlanTables

(* A step that leaves the file alone keeps the comparison schema.          *)
LEMMA ComparisonQuiet ==
    ASSUME ComparisonInv, NEW p \in Openers, FileUntouched(p), ~ MidComparison(p)',
           Migrating(p)' => ComparisonWalk(p)',
           crashes' = 0 => crashes = 0 /\ ~ MidComparison(p)
    PROVE  ComparisonInv'
<1>1. \A q \in Openers \ {p} : MidComparison(q)' <=> MidComparison(q)
  BY DEF FileUntouched, MidComparison
<1>2. \A q \in Openers \ {p} : Migrating(q)' => ComparisonWalk(q)'
  BY <1>1 DEF ComparisonInv, ComparisonWalk, FileUntouched
<1>3. ComparisonObjects'
  BY DEF ComparisonInv, ComparisonObjects, FileUntouched
<1>4. \A q, r \in Openers : MidComparison(q)' /\ MidComparison(r)' => q = r
  BY <1>1 DEF ComparisonInv
<1>5. HalfComparison' <=> HalfComparison
  BY DEF HalfComparison, FileUntouched
<1>6. crashes' = 0 /\ HalfComparison' => \E q \in Openers : MidComparison(q)'
  BY <1>1, <1>5 DEF ComparisonInv
<1> QED
  BY <1>2, <1>3, <1>4, <1>6 DEF ComparisonInv

(* A look takes the whole comparison script or none of it.                 *)
LEMMA ComparisonLooked ==
    ASSUME SchemaTypeOK, PlaceInv, ComparisonInv, NEW p \in Openers, NEW i \in Looks, Looked(p, i)
    PROVE  ComparisonInv' /\ ~ MidComparison(p)'
<1>1. FileUntouched(p)
  BY QuietSteps
<1>2. Todo(p) = {i} /\ Migrating(p) /\ crashes' = crashes
  BY DEF Looked
<1>3. ~ MidComparison(p)
  BY <1>2, LookFacts DEF MidComparison
<1>4. /\ \A j : j \in Todo(p)' <=> j \in (i + 1)..End(i) /\ Applying(j)
      /\ i \in 1..89 /\ End(i) \in (i + 1)..90
  BY LookedFacts
<1>5. i # 30 => \A j \in 31..33 : j \notin Todo(p)'
  BY <1>4, EndAround
<1>6. i = 30 => \A j \in 31..33 : j \in Todo(p)' <=> "comparison_suites" \notin objects
  BY <1>4, EndAround, ComparisonFacts DEF Applying, SchemaTypeOK, Always, SchemaVersion
<1>7. ~ MidComparison(p)'
  BY <1>5, <1>6 DEF MidComparison
<1>8. ComparisonWalk(p)'
  BY <1>5, <1>6, <1>7 DEF ComparisonWalk
<1> QED
  BY <1>1, <1>2, <1>3, <1>7, <1>8, ComparisonQuiet

(* Connecting, being refused and dying keep the comparison schema.         *)
LEMMA ComparisonOther ==
    ASSUME SchemaTypeOK, PlaceInv, BaseInv, ComparisonInv, NEW p \in Openers,
           Connected(p) \/ (\E k \in Indices : Refused(p, k)) \/ Died(p)
    PROVE  ComparisonInv'
<1>1. FileUntouched(p)
  BY QuietSteps
<1>2. CASE Connected(p)
  <2>1. Todo(p)' = {1} /\ ~ Migrating(p) /\ crashes' = crashes
    BY <1>2 DEF Connected
  <2>2. ~ MidComparison(p) /\ ~ MidComparison(p)'
    BY <2>1 DEF MidComparison
  <2>3. ComparisonWalk(p)'
    BY <2>1, <2>2 DEF ComparisonWalk
  <2> QED
    BY <1>1, <2>1, <2>2, <2>3, ComparisonQuiet
<1>3. CASE \E k \in Indices : Refused(p, k)
  <2>1. ~ Migrating(p)' /\ crashes' = crashes
    BY <1>3 DEF Refused, Migrating
  <2>2. ~ MidComparison(p) /\ ~ MidComparison(p)'
    BY <1>3, <2>1, NoMidRefusal DEF MidComparison
  <2> QED
    BY <1>1, <2>1, <2>2, ComparisonQuiet
<1>4. CASE Died(p)
  <2>1. ~ Migrating(p)' /\ crashes' # 0
    BY <1>4 DEF Died, Migrating, SchemaTypeOK
  <2>2. ~ MidComparison(p)'
    BY <2>1 DEF MidComparison
  <2> QED
    BY <1>1, <2>1, <2>2, ComparisonQuiet
<1> QED
  BY <1>2, <1>3, <1>4

(* Executing a statement keeps the comparison schema: only one process at  *)
(* a time is inside its script.                                            *)
LEMMA ComparisonExecuted ==
    ASSUME SchemaTypeOK, PlaceInv, ComparisonInv, NEW p \in Openers,
           NEW k \in Indices \ Looks, Executed(p, k)
    PROVE  /\ ComparisonInv'
           /\ k = 32 \/ k = 33 => MidComparison(p)
           /\ k = 31 => "comparison_fixtures" \notin objects
<1>1. /\ k \in 2..90 /\ k \in Todo(p)
      /\ \A j \in 1..90 : j < k => j \notin Todo(p)
      /\ Migrating(p)' <=> Todo(p) \ {k} # {}
      /\ Migrating(p) /\ Todo(p)' = Todo(p) \ {k}
  BY ExecutedFacts DEF Heads, Executed
<1>2. \A q \in Openers \ {p} : Todo(q)' = Todo(q) /\ (Migrating(q)' <=> Migrating(q))
  BY ExecutedFacts
<1>3. ComparisonWalk(p)
  BY <1>1 DEF ComparisonInv
<1>4. objects' = objects \cup Migrate[k].objs /\ crashes' = crashes
  BY DEF Executed
<1>5. /\ "comparison_fixtures" \in Migrate[k].objs => k = 31
      /\ Migrate[k].objs \cap ComparisonPlanTables # {} => k = 32
      /\ Migrate[k].objs \cap ComparisonRunTables # {} => k = 33
  BY OwnerFacts
<1>6. k = 32 \/ k = 33 => MidComparison(p)
  BY <1>1, <1>3 DEF ComparisonWalk, MidComparison
<1>7. k = 33 => 32 \notin Todo(p)
  BY <1>1
<1>8. k = 31 => "comparison_fixtures" \notin objects
  BY ComparisonFacts DEF Executed, Fails
<1>9. /\ k = 31 => Migrate[k].objs = {"comparison_fixtures"}
      /\ k = 32 => Migrate[k].objs = ComparisonPlanTables
      /\ k = 33 => Migrate[k].objs = ComparisonRunTables
  BY ComparisonFacts
<1>10. ComparisonObjects'
  <2>1. ("comparison_fixtures" \notin objects =>
           (ComparisonPlanTables \cup ComparisonRunTables) \cap objects = {})'
    BY <1>3, <1>4, <1>5, <1>6 DEF ComparisonInv, ComparisonObjects, ComparisonWalk
  <2>2. (ComparisonPlanTables \cap objects # {} => ComparisonPlanTables \subseteq objects)'
    BY <1>4, <1>5, <1>9 DEF ComparisonInv, ComparisonObjects
  <2>3. (ComparisonRunTables \cap objects # {} =>
           ComparisonPlanTables \cup ComparisonRunTables \subseteq objects)'
    BY <1>3, <1>4, <1>5, <1>6, <1>7, <1>9 DEF ComparisonInv, ComparisonObjects, ComparisonWalk
  <2> QED
    BY <2>1, <2>2, <2>3 DEF ComparisonObjects
<1>11. \A q \in Openers \ {p} : MidComparison(q)' <=> MidComparison(q)
  BY <1>2 DEF MidComparison
<1>12. MidComparison(p)' => MidComparison(p) \/ k = 31
  BY <1>1 DEF MidComparison
<1>13. \A q, r \in Openers : MidComparison(q)' /\ MidComparison(r)' => q = r
  <2>1. \A q \in Openers \ {p} : MidComparison(q) => k # 31
    BY <1>8 DEF ComparisonInv, ComparisonWalk, MidComparison
  <2> QED
    BY <1>11, <1>12, <2>1 DEF ComparisonInv
<1>14. ASSUME NEW q \in Openers \ {p}, Migrating(q)' PROVE ComparisonWalk(q)'
  <2>1. ComparisonWalk(q) /\ Migrating(q) /\ Todo(q)' = Todo(q)
    BY <1>2, <1>14 DEF ComparisonInv
  <2>2. MidComparison(q) => k # 32 /\ k # 33
    BY <1>6 DEF ComparisonInv
  <2> QED
    BY <1>4, <1>5, <1>11, <2>1, <2>2 DEF ComparisonWalk
<1>15. ASSUME Migrating(p)' PROVE ComparisonWalk(p)'
  <2>1. /\ 31 \in Todo(p)' => 32 \in Todo(p)'
        /\ 32 \in Todo(p)' => 33 \in Todo(p)'
    BY <1>1, <1>3 DEF ComparisonWalk
  <2>2. ASSUME MidComparison(p)'
        PROVE  /\ "comparison_fixtures" \in objects' /\ ComparisonRunTables \cap objects' = {}
               /\ 32 \in Todo(p)' => ComparisonPlanTables \cap objects' = {}
               /\ 32 \notin Todo(p)' => ComparisonPlanTables \subseteq objects'
    <3>1. k # 33
      BY <1>1, <2>2 DEF MidComparison
    <3>2. CASE k = 31
      <4>1. (ComparisonPlanTables \cup ComparisonRunTables) \cap objects = {}
        BY <1>8, <3>2 DEF ComparisonInv, ComparisonObjects
      <4>2. 32 \in Todo(p)'
        BY <1>1, <1>3, <3>2 DEF ComparisonWalk
      <4> QED
        BY <1>4, <1>5, <1>9, <3>2, <4>1, <4>2
    <3>3. CASE k = 32
      BY <1>1, <1>3, <1>4, <1>5, <1>6, <1>9, <3>3 DEF ComparisonWalk
    <3>4. CASE k # 31 /\ k # 32
      BY <1>1, <1>3, <1>4, <1>5, <1>12, <2>2, <3>1, <3>4 DEF ComparisonWalk
    <3> QED
      BY <3>2, <3>3, <3>4
  <2> QED
    BY <2>1, <2>2 DEF ComparisonWalk
<1>16. ASSUME crashes' = 0, HalfComparison' PROVE \E q \in Openers : MidComparison(q)'
  <2>0. /\ "comparison_fixtures" \in objects \/ k = 31
        /\ "comparison_authorizations" \notin objects
        /\ k # 33
    BY <1>4, <1>5, <1>9, <1>16, Authorizations DEF HalfComparison
  <2>1. CASE k = 31
    <3>1. 33 \in Todo(p)'
      BY <1>1, <1>3, <2>1 DEF ComparisonWalk
    <3> QED
      BY <1>1, <2>1, <3>1 DEF MidComparison
  <2>2. CASE k # 31
    <3>1. PICK q \in Openers : MidComparison(q)
      BY <1>4, <1>16, <2>0, <2>2 DEF ComparisonInv, HalfComparison
    <3>2. CASE q = p
      BY <1>1, <2>0, <3>1, <3>2 DEF MidComparison
    <3>3. CASE q # p
      BY <1>11, <3>1, <3>3
    <3> QED
      BY <3>2, <3>3
  <2> QED
    BY <2>1, <2>2
<1> QED
  BY <1>6, <1>8, <1>10, <1>13, <1>14, <1>15, <1>16 DEF ComparisonInv

-----------------------------------------------------------------------------
(* The passive scheduler's objects come in one transaction.                *)
LEMMA PassiveExecuted ==
    ASSUME PassiveWhole, NEW p, NEW k \in Indices, Executed(p, k)
    PROVE  PassiveWhole'
<1>1. Migrate[k].objs \cap PassiveObjects # {} => k = 80
  BY OwnerFacts
<1>2. Migrate[80].objs = PassiveObjects
  BY PassiveFacts DEF Statement
<1> QED
  BY <1>1, <1>2 DEF PassiveWhole, Executed

(* While a process migrates no other one is undisturbed.                   *)
LEMMA OthersNotAlone ==
    ASSUME LoneInv, PlaceInv, NEW p \in Openers, Migrating(p), OthersKept(p)
    PROVE  \A q \in Openers \ {p} : ~ Alone(q)' /\ (Migrating(q)' => Placed(q)')
<1> SUFFICES ASSUME NEW q \in Openers \ {p}
             PROVE  ~ Alone(q)' /\ (Migrating(q)' => Placed(q)')
  OBVIOUS
<1>1. ~ Alone(q)
  BY DEF LoneInv, Undisturbed
<1>2. Todo(q)' = Todo(q) /\ (Migrating(q)' <=> Migrating(q)) /\ ~ Alone(q)'
  BY <1>1 DEF OthersKept, Unaltered, Migrating
<1>3. ASSUME Migrating(q) PROVE Placed(q)'
  <2>1. PICK h \in {0} \cup Looks : At(q, h)
    BY <1>3 DEF PlaceInv, Placed
  <2>2. At(q, h)'
    BY <1>2, <2>1 DEF At
  <2> QED
    BY <1>2, <2>2 DEF Placed
<1> QED
  BY <1>2, <1>3

(* A process that connects is at the start, with nothing behind it.        *)
LEMMA ConnectedAlone ==
    ASSUME SchemaTypeOK, LoneInv, PlaceInv, NEW p \in Openers, Connected(p)
    PROVE  LoneInv' /\ PlaceInv'
<1>1. Todo(p)' = {1} /\ opener'[p].state = "migrating"
  BY DEF Connected
<1>2. \A q \in Openers \ {p} : ~ Alone(q)' /\ Todo(q)' = Todo(q) /\ (Migrating(q)' <=> Migrating(q))
  BY DEF Connected, Migrating
<1>3. 1 \in Looks /\ End(0) = 1
  BY LookFacts, EndAround
<1>4. At(p, 0)'
  BY <1>1, <1>3 DEF At
<1>5. Progress(p, 0)'
  <2>1. Behind(p, 0)'
    BY <1>1, <1>3 DEF Behind
  <2>2. Raised(p, 0)'
    BY <1>3 DEF Raised
  <2>3. Lowered(p, 0)'
    BY <1>3 DEF Lowered
  <2> QED
    BY <2>1, <2>2, <2>3 DEF Progress
<1>6. Placed(p)'
  BY <1>4, <1>5 DEF Placed
<1>7. ASSUME NEW q \in Openers \ {p}, Migrating(q)' PROVE Placed(q)'
  <2>1. PICK h \in {0} \cup Looks : At(q, h)
    BY <1>2, <1>7 DEF PlaceInv, Placed
  <2>2. At(q, h)'
    BY <1>2, <2>1 DEF At
  <2> QED
    BY <1>2, <2>2 DEF Placed
<1>8. PlaceInv'
  BY <1>6, <1>7 DEF PlaceInv
<1>9. LoneWalk(p)'
  BY <1>1, <1>3, LookFacts DEF LoneWalk
<1>10. Alone(p)' => \A q \in Openers \ {p} : ~ Migrating(q)'
  BY <1>2 DEF Connected
<1>11. Alone(p)' => Undisturbed(p)'
  BY <1>1, <1>9, <1>10 DEF Undisturbed
<1> QED
  BY <1>2, <1>8, <1>11 DEF LoneInv

(* What a statement asks for was created before the look that decides on   *)
(* it.                                                                     *)
LEMMA NeedsAreThere ==
    ASSUME NEW p, NEW h \in {0} \cup Looks, NEW i \in Looks, End(h) = i, Todo(p) = {i},
           Behind(p, h), NEW j \in (i + 1)..End(i), NeedsMet(j)
    PROVE  Migrate[j].on \subseteq objects
<1> SUFFICES ASSUME NEW o \in Migrate[j].on PROVE o \in objects
  OBVIOUS
<1>1. PICK k \in Indices, l \in Looks : o \in Migrate[k].objs /\ k < l /\ l < j
  BY DEF NeedsMet
<1>2. o \notin Backfilled
  BY DEF NeedsMet
<1>3. k \in 1..90 /\ l \in 1..90 /\ i \in 1..90
  BY LooksAreIndices
<1>4. End(i) \in (i + 1)..90 /\ (l > i => End(i) <= l)
  BY EndFacts
<1>5. k < i
  BY <1>1, <1>3, <1>4
<1>6. Done(k)
  BY <1>3, <1>5 DEF Behind
<1> QED
  BY <1>1, <1>2, <1>6 DEF Done

(* A statement that an undisturbed look skips has its objects in the file, *)
(* unless the comparison script was torn: version 17 is not met there      *)
(* before the passive objects are, because statement 61 has lowered the    *)
(* version.                                                                *)
LEMMA SkippedIsDone ==
    ASSUME SchemaTypeOK, BaseInv, ComparisonInv, PassiveWhole, NEW p,
           NEW h \in {0} \cup Looks, NEW i \in Looks, End(h) = i, Todo(p) = {i},
           Behind(p, h), Lowered(p, h), ~ HalfComparison,
           NEW j \in (i + 1)..End(i), ~ Applying(j)
    PROVE  Done(j)
<1>1. j \in 2..90 /\ j \in Indices /\ i \in 1..89
  BY EndFacts, LooksAreIndices
<1>2. CASE j \in {2, 3, 5, 6}
  <2>1. version >= Migrate[j].below
    BY <1>2, BaseFacts DEF Applying, SchemaTypeOK
  <2>2. (j \in {2, 3} => version >= 1) /\ (j \in {5, 6} => version >= 7)
    BY <2>1, BaseFacts
  <2> QED
    BY <1>2, <2>2, BaseFacts DEF Done, BaseInv, BaseObjects
<1>3. CASE j \in {31, 32, 33}
  <2>1. "comparison_suites" \in objects
    BY <1>3, ComparisonFacts DEF Applying, SchemaTypeOK, Always, SchemaVersion
  <2>2. ComparisonPlanTables \subseteq objects /\ "comparison_fixtures" \in objects
    BY <2>1, Authorizations DEF ComparisonInv, ComparisonObjects
  <2>3. "comparison_authorizations" \in objects
    BY <2>2 DEF HalfComparison
  <2>4. ComparisonRunTables \subseteq objects
    BY <2>3, Authorizations DEF ComparisonInv, ComparisonObjects
  <2> QED
    BY <1>3, <2>2, <2>4, ComparisonFacts DEF Done
<1>4. CASE Migrate[j].objs \ Backfilled = {}
  BY <1>4 DEF Done
<1>5. CASE j \notin {2, 3, 5, 6, 31, 32, 33} /\ Migrate[j].objs \ Backfilled # {}
  <2>1. /\ Migrate[j].unless = {} \/ GuardedCreate(j)
        /\ Migrate[j].below = Always \/ j = 80
        /\ NeedsMet(j)
    BY <1>1, <1>5, SkipFacts
  <2>2. Migrate[j].on \subseteq objects
    BY <2>1, NeedsAreThere
  <2>3. version < Migrate[j].below
    <3>1. CASE j = 80
      <4>1. i = 79
        BY <3>1, EndAround
      <4>2. PICK m \in 61..79 : version <= Migrate[m].stamp
        BY <4>1 DEF Lowered
      <4>5. Migrate[m].stamp <= 16 /\ Migrate[m].stamp \in Nat
        <5>1. Migrate[m].stamp \in Nat
          BY StampIsNatural
        <5>2. Migrate[m].stamp <= 16
          BY StampFacts, Zenon
        <5> QED
          BY <5>1, <5>2
      <4>3. version <= 16
        BY <4>2, <4>5 DEF SchemaTypeOK
      <4>4. Migrate[j].below = 17
        BY <3>1, PassiveFacts DEF Statement
      <4> QED
        BY <4>3, <4>4 DEF SchemaTypeOK
    <3>2. CASE Migrate[j].below = Always
      BY <3>2 DEF SchemaTypeOK, Always, SchemaVersion
    <3> QED
      BY <2>1, <3>1, <3>2
  <2>4. Migrate[j].unless \cap objects # {}
    BY <2>2, <2>3 DEF Applying
  <2>5. GuardedCreate(j) /\ Migrate[j].unless = Migrate[j].objs
    BY <1>1, <2>1, <2>4, GuardedFacts
  <2>6. CASE j = 80
    <3>1. Migrate[80].objs = PassiveObjects
      BY PassiveFacts DEF Statement
    <3> QED
      BY <2>4, <2>5, <2>6, <3>1 DEF PassiveWhole, Done
  <2>7. CASE j # 80
    <3>1. PICK o \in Migrate[j].objs : Migrate[j].objs = {o}
      BY <1>1, <2>5, <2>7, GuardedFacts
    <3> QED
      BY <2>4, <2>5, <3>1 DEF Done
  <2> QED
    BY <2>6, <2>7
<1> QED
  BY <1>2, <1>3, <1>4, <1>5

(* A stamp that an undisturbed look skips is not above the version, or     *)
(* another one of its stretch raises it.                                   *)
LEMMA SkippedIsRaised ==
    ASSUME SchemaTypeOK, PassiveWhole, NEW p \in Openers,
           NEW h \in {0} \cup Looks, NEW i \in Looks, End(h) = i, Looked(p, i),
           Behind(p, h), NEW j \in (i + 1)..End(i), j >= 61
    PROVE  version >= Migrate[j].stamp \/ \E k \in Todo(p)' : Migrate[k].stamp >= Migrate[j].stamp
<1>1. j \in 61..90 /\ j \in Indices /\ Migrate[j].stamp \in Nat /\ version \in Nat
  <2>1. i \in {0} \cup Looks
    OBVIOUS
  <2>2. i \in 0..89 /\ End(i) \in (i + 1)..90
    BY <2>1, EndFacts
  <2>3. j \in 61..90 /\ j \in 1..90
    BY <2>2
  <2>4. j \in Indices /\ Migrate[j].stamp \in Nat
    BY <2>3, StampIsNatural, Zenon
  <2>5. version \in Nat
    BY DEF SchemaTypeOK
  <2> QED
    BY <2>3, <2>4, <2>5, Zenon
<1>2. Todo(p) = {i} /\ \A m : m \in Todo(p)' <=> m \in (i + 1)..End(i) /\ Applying(m)
  BY LookedFacts DEF Looked
<1>3. CASE Migrate[j].stamp = 0
  BY <1>1, <1>3
<1>4. CASE Migrate[j].stamp # 0 /\ j \notin {80, 81}
  <2>1. NeedsMet(j) /\ Migrate[j].unless = {}
        /\ Migrate[j].below = IF j = 61 THEN Always ELSE Migrate[j].stamp
    BY <1>1, <1>4, StampFacts
  <2>2. Migrate[j].on \subseteq objects
    BY <1>2, <2>1, NeedsAreThere
  <2>3. CASE version < Migrate[j].below
    <3>1. j \in Todo(p)'
      BY <1>2, <2>1, <2>2, <2>3 DEF Applying
    <3> QED
      BY <1>1, <3>1
  <2>4. CASE ~(version < Migrate[j].below)
    <3>1. version >= Migrate[j].stamp
      BY <1>1, <2>1, <2>4 DEF Always, SchemaVersion, SchemaTypeOK
    <3> QED
      BY <3>1
  <2> QED
    BY <2>3, <2>4
<1>5. CASE j \in {80, 81} /\ version < 17
  <2>6. i = 79
    BY <1>5, EndAround
  <2>1. i = 79 /\ End(i) = 82
    BY <2>6, EndAround
  <2>2. /\ Migrate[80].on = PassiveRequired /\ Migrate[80].unless = PassiveObjects
        /\ Migrate[80].below = 17 /\ Migrate[80].stamp = 17
        /\ Migrate[81].on = PassiveRequired \cup PassiveObjects /\ Migrate[81].unless = {}
        /\ Migrate[81].below = 17 /\ Migrate[81].stamp = 17
    BY PassiveFacts DEF Statement
  <2>3. PassiveRequired \subseteq objects
    BY <1>2, <2>1, <2>2, PassiveFacts, NeedsAreThere
  <2>4. Applying(80) \/ Applying(81)
    BY <1>5, <2>2, <2>3 DEF Applying, PassiveWhole
  <2>5. 80 \in Todo(p)' \/ 81 \in Todo(p)'
    BY <1>2, <2>1, <2>4
  <2> QED
    BY <1>5, <2>2, <2>5
<1>6. CASE j \in {80, 81} /\ ~(version < 17)
  <2>1. Migrate[80].stamp = 17 /\ Migrate[81].stamp = 17
    BY PassiveFacts DEF Statement
  <2> QED
    BY <1>1, <1>6, <2>1
<1> QED
  BY <1>3, <1>4, <1>5, <1>6

(* When every statement's objects are there the schema is complete.        *)
LEMMA AllCreated ==
    ASSUME NEW objs, \A j \in 1..90 : Migrate[j].objs \ Backfilled \subseteq objs
    PROVE  Created(Migrate) \ Backfilled \subseteq objs
  BY LookFacts DEF Created

(* An undisturbed look leaves nothing behind it undone.                    *)
LEMMA LookedProgress ==
    ASSUME SchemaTypeOK, BaseInv, ComparisonInv, PassiveWhole, NEW p \in Openers,
           NEW h \in {0} \cup Looks, NEW i \in Looks, End(h) = i, Looked(p, i), Progress(p, h)
    PROVE  HalfComparison \/ (Behind(p, i)' /\ Raised(p, i)' /\ Lowered(p, i)')
<1> SUFFICES ASSUME ~ HalfComparison PROVE Behind(p, i)' /\ Raised(p, i)' /\ Lowered(p, i)'
  OBVIOUS
<1>1. Behind(p, h) /\ Raised(p, h) /\ Lowered(p, h)
  BY DEF Progress, HalfBefore
<1>2. Todo(p) = {i} /\ objects' = objects /\ version' = version
  BY DEF Looked
<1>3. /\ \A j : j \in Todo(p)' <=> j \in (i + 1)..End(i) /\ Applying(j)
      /\ i \in 1..89 /\ End(i) \in (i + 1)..90
  BY LookedFacts
<1>4. Behind(p, i)'
  <2> SUFFICES ASSUME NEW j \in 1..End(i), j \notin Todo(p)' PROVE Done(j)'
    BY DEF Behind
  <2>1. Done(j)
    <3>1. CASE j < i
      BY <1>1, <1>2, <1>3, <3>1 DEF Behind
    <3>2. CASE j = i
      BY <3>2, LookFacts DEF Done
    <3>3. CASE j > i
      <4>1. j \in (i + 1)..End(i) /\ ~ Applying(j)
        BY <1>3, <3>3
      <4> QED
        BY <1>1, <1>2, <4>1, SkippedIsDone
    <3> QED
      BY <1>3, <3>1, <3>2, <3>3
  <2> QED
    BY <1>2, <2>1 DEF Done
<1>5. Raised(p, i)'
  <2> SUFFICES ASSUME NEW j \in 61..End(i)
               PROVE  version >= Migrate[j].stamp \/ \E k \in Todo(p)' : Migrate[k].stamp >= Migrate[j].stamp
    BY <1>2 DEF Raised
  <2>1. j \in Indices /\ Migrate[j].stamp \in Nat /\ version \in Nat
    <3>1. j \in 1..90
      BY <1>3
    <3>2. version \in Nat
      BY DEF SchemaTypeOK
    <3> QED
      BY <3>1, <3>2, StampIsNatural, Zenon
  <2>2. CASE j <= i
    <3>1. version >= Migrate[j].stamp \/ Migrate[i].stamp >= Migrate[j].stamp
      BY <1>1, <1>2, <1>3, <2>2 DEF Raised
    <3>2. Migrate[i].stamp = 0
      BY LookFacts
    <3> QED
      BY <2>1, <3>1, <3>2
  <2>3. CASE j > i
    <3>1. j \in (i + 1)..End(i) /\ j >= 61
      BY <1>3, <2>3
    <3> QED
      BY <1>1, <3>1, SkippedIsRaised
  <2> QED
    BY <1>3, <2>2, <2>3
<1>6. Lowered(p, i)'
  <2> SUFFICES ASSUME End(i) >= 61, 61 \notin Todo(p)'
               PROVE  \E j \in 61..End(i) : version <= Migrate[j].stamp
    BY <1>2 DEF Lowered
  <2>1. i >= 61
    <3> SUFFICES ASSUME i < 61 PROVE FALSE
      BY <1>3
    <3>1. 61 \in (i + 1)..End(i)
      BY <1>3
    <3>2. ~ Applying(61)
      BY <1>3, <3>1
    <3>3. NeedsMet(61) /\ Migrate[61].unless = {} /\ Migrate[61].below = Always
      BY StampFacts
    <3>4. Migrate[61].on \subseteq objects
      BY <1>1, <1>2, <3>1, <3>3, NeedsAreThere
    <3> QED
      BY <3>2, <3>3, <3>4 DEF Applying, SchemaTypeOK, Always, SchemaVersion
  <2>2. 61 \notin Todo(p)
    BY <1>2, LookFacts
  <2>3. PICK j \in 61..i : version <= Migrate[j].stamp
    BY <1>1, <2>1, <2>2 DEF Lowered
  <2> QED
    BY <1>3, <2>3
<1> QED
  BY <1>4, <1>5, <1>6

(* A look keeps what an undisturbed process knows; the last one leaves the *)
(* complete schema.                                                        *)
LEMMA LookedAlone ==
    ASSUME SchemaTypeOK, BaseInv, ComparisonInv, PassiveWhole, LoneInv, PlaceInv,
           NEW p \in Openers, NEW i \in Looks, Looked(p, i), SchemaTypeOK'
    PROVE  LoneInv' /\ PlaceInv'
<1>1. \A q \in Openers \ {p} : ~ Alone(q)' /\ (Migrating(q)' => Placed(q)')
  BY OthersNotAlone DEF Looked
<1>2. Todo(p) = {i} /\ Migrating(p) /\ objects' = objects /\ version' = version
      /\ (Alone(p)' <=> Alone(p))
  BY DEF Looked
<1>3. /\ \A j : j \in Todo(p)' <=> j \in (i + 1)..End(i) /\ Applying(j)
      /\ End(i) \in Looks => End(i) \in Todo(p)'
      /\ Todo(p)' \subseteq (i + 1)..End(i)
      /\ i \in 1..89 /\ End(i) \in (i + 1)..90
      /\ Migrating(p)' <=> Todo(p)' # {}
  BY LookedFacts
<1>4. PICK h \in {0} \cup Looks : At(p, h) /\ (Alone(p) => Progress(p, h))
  BY <1>2 DEF PlaceInv, Placed
<1>5. End(h) = i
  BY <1>2, <1>4, LookEnds
<1>6. Alone(p) => HalfComparison \/ (Behind(p, i)' /\ Raised(p, i)' /\ Lowered(p, i)')
  BY <1>4, <1>5, LookedProgress
<1>7. HalfComparison' <=> HalfComparison
  BY <1>2 DEF HalfComparison
<1>8. ~ MidComparison(p)'
  BY ComparisonLooked
<1>9. Alone(p)' => Progress(p, i)'
  BY <1>2, <1>6, <1>7, <1>8 DEF Progress, HalfBefore
<1>10. Migrating(p)' => Placed(p)'
  <2>1. Todo(p)' # {} => At(p, i)'
    BY <1>3 DEF At
  <2> QED
    BY <1>3, <1>9, <2>1 DEF Placed
<1>11. PlaceInv'
  BY <1>1, <1>10 DEF PlaceInv
<1>12. ASSUME Alone(p)' PROVE Undisturbed(p)'
  <2>1. \A q \in Openers \ {p} : ~ Migrating(q)'
    <3>1. Undisturbed(p)
      BY <1>2, <1>12 DEF LoneInv
    <3> QED
      BY <3>1 DEF Undisturbed, Looked, OthersKept, Unaltered, Migrating
  <2>2. LoneWalk(p)'
    <3>1. ASSUME NEW j \in Todo(p)', GuardedCreate(j) PROVE Migrate[j].objs \cap objects' = {}
      <4>1. j \in Indices /\ Applying(j)
        BY <1>3, LooksAreIndices
      <4>2. Migrate[j].unless = Migrate[j].objs
        BY <3>1, <4>1, GuardedFacts
      <4> QED
        BY <1>2, <4>1, <4>2 DEF Applying
    <3>2. 2 \in Todo(p)' => version' = 0
      BY <1>2, <1>3, BaseFacts DEF Applying, SchemaTypeOK
    <3>3. 31 \in Todo(p)' => "comparison_suites" \notin objects'
      BY <1>2, <1>3, ComparisonFacts DEF Applying
    <3> QED
      BY <3>1, <3>2, <3>3 DEF LoneWalk
  <2>3. opener'[p].state = StateAfter(Todo(p)')
    BY DEF Looked
  <2>4. ASSUME opener'[p].state = "open" PROVE HalfComparison' \/ Complete'
    <3>1. Todo(p)' = {}
      BY <2>3, <2>4 DEF StateAfter
    <3>2. End(i) = 90
      BY <1>3, <3>1, EndFacts
    <3> SUFFICES ASSUME ~ HalfComparison' PROVE Complete'
      OBVIOUS
    <3>3. Behind(p, i)' /\ Raised(p, i)'
      BY <1>2, <1>6, <1>7, <1>12
    <3>4. \A j \in 1..90 : Migrate[j].objs \ Backfilled \subseteq objects'
      BY <3>1, <3>2, <3>3 DEF Behind, Done
    <3>5. Created(Migrate) \ Backfilled \subseteq objects'
      BY <3>4, AllCreated
    <3>6. version' >= Migrate[90].stamp
      BY <3>1, <3>2, <3>3 DEF Raised
    <3>7. version' = SchemaVersion
      BY <3>6, StampFacts DEF SchemaTypeOK, SchemaVersion
    <3> QED
      BY <3>5, <3>7 DEF Complete
  <2>5. opener'[p].state # "failed"
    BY <2>3 DEF StateAfter
  <2> QED
    BY <2>1, <2>2, <2>4, <2>5 DEF Undisturbed
<1> QED
  BY <1>1, <1>11, <1>12 DEF LoneInv

(* An undisturbed statement leaves nothing behind it undone, and the       *)
(* version where the stamps behind it put it.                              *)
LEMMA ExecutedProgress ==
    ASSUME SchemaTypeOK, PlaceInv, ComparisonInv, NEW p \in Openers,
           NEW h \in {0} \cup Looks, At(p, h), NEW k \in Indices \ Looks, Executed(p, k),
           Progress(p, h)
    PROVE  Progress(p, h)'
<1>1. /\ k \in 2..90 /\ k \in Todo(p) /\ Migrating(p)
      /\ Todo(p)' = Todo(p) \ {k}
      /\ objects' = objects \cup Migrate[k].objs
      /\ version' = Stamped(Migrate[k], version)
  BY ExecutedFacts DEF Heads, Executed
<1>2. CASE HalfBefore(p)
  <2>1. k \notin {31, 32, 33}
    BY <1>2, ComparisonExecuted DEF HalfBefore, HalfComparison
  <2>2. ~ MidComparison(p)'
    BY <1>1, <1>2, <2>1 DEF HalfBefore, MidComparison
  <2>3. "comparison_authorizations" \notin Migrate[k].objs
    BY <2>1, OwnerFacts, Authorizations
  <2> QED
    BY <1>1, <1>2, <2>2, <2>3 DEF Progress, HalfBefore, HalfComparison
<1>3. CASE Behind(p, h) /\ Raised(p, h) /\ Lowered(p, h)
  <2>1. k \in (h + 1)..End(h) /\ h \in 0..89 /\ End(h) \in (h + 1)..90
    <3>1. k \in (h + 1)..End(h)
      BY <1>1, Zenon DEF At
    <3>2. h \in 0..89 /\ End(h) \in (h + 1)..90
      BY EndFacts, Zenon
    <3> QED
      BY <3>1, <3>2, Zenon
  <2>2. \A l \in Looks : l > h => End(h) <= l
    BY EndFacts
  <2>3. ASSUME Migrate[k].stamp # 0, End(h) >= 61 PROVE k >= 61
    <3> SUFFICES ASSUME k < 61 PROVE FALSE
      BY <1>1
    <3>1. PICK l \in Looks : k < l /\ l < 61
      BY <1>1, <2>3, StampFacts
    <3>2. l \in 1..90
      BY LooksAreIndices
    <3> QED
      BY <2>1, <2>2, <2>3, <3>1, <3>2
  <2>4. /\ Migrate[k].stamp \in Nat /\ version \in Nat
        /\ version' = IF Migrate[k].stamp = 0 THEN version ELSE Migrate[k].stamp
    <3>1. Migrate[k].stamp \in Nat
      <4>1. k \in 1..90
        BY <1>1
      <4> QED
        BY <4>1, StampIsNatural, Zenon
    <3>2. version \in Nat
      BY DEF SchemaTypeOK
    <3> QED
      BY <1>1, <3>1, <3>2 DEF Stamped
  <2>5. Behind(p, h)'
    BY <1>1, <1>3 DEF Behind, Done
  <2>6. Raised(p, h)'
    <3> SUFFICES ASSUME NEW j \in 61..End(h)
                 PROVE  \/ version' >= Migrate[j].stamp
                        \/ \E m \in Todo(p)' : Migrate[m].stamp >= Migrate[j].stamp
      BY DEF Raised
    <3>1. Migrate[j].stamp \in Nat /\ j \in 61..90
      <4>1. j \in 61..90 /\ j \in 1..90
        BY <2>1
      <4> QED
        BY <4>1, StampIsNatural, Zenon
    <3>2. \/ version >= Migrate[j].stamp
          \/ \E m \in Todo(p) : Migrate[m].stamp >= Migrate[j].stamp
      BY <1>3 DEF Raised
    <3>3. CASE Migrate[k].stamp = 0
      <4>1. version' = version
        BY <2>4, <3>3
      <4>2. ASSUME NEW m \in Todo(p), Migrate[m].stamp >= Migrate[j].stamp, m = k
            PROVE  version' >= Migrate[j].stamp
        BY <2>4, <3>1, <3>3, <4>1, <4>2
      <4> QED
        BY <1>1, <3>2, <4>1, <4>2
    <3>4. CASE Migrate[k].stamp # 0
      <4>1. version' = Migrate[k].stamp /\ k \in 61..90
        BY <1>1, <2>1, <2>3, <2>4, <3>4
      <4>2. Migrate[j].stamp <= Migrate[k].stamp
        <5>1. CASE j <= k
          BY <3>1, <3>4, <4>1, <5>1, StampFacts
        <5>2. CASE j > k
          <6> SUFFICES ASSUME Migrate[k].stamp < Migrate[j].stamp PROVE FALSE
            BY <2>4, <3>1
          <6>1. PICK l \in Looks : k < l /\ l < j
            BY <3>1, <3>4, <4>1, <5>2, StampFacts
          <6>2. l \in 1..90
            BY LooksAreIndices
          <6> QED
            BY <2>1, <2>2, <6>1, <6>2
        <5> QED
          BY <3>1, <4>1, <5>1, <5>2
      <4> QED
        BY <2>4, <3>1, <4>1, <4>2
    <3> QED
      BY <3>3, <3>4
  <2>7. Lowered(p, h)'
    <3> SUFFICES ASSUME End(h) >= 61, 61 \notin Todo(p)'
                 PROVE  \E j \in 61..End(h) : version' <= Migrate[j].stamp
      BY DEF Lowered
    <3>1. CASE Migrate[k].stamp = 0
      <4>1. k # 61
        BY <3>1, StampFacts
      <4>2. 61 \notin Todo(p) /\ version' = version
        BY <1>1, <2>4, <3>1, <4>1
      <4> QED
        BY <1>3, <4>2 DEF Lowered
    <3>2. CASE Migrate[k].stamp # 0
      <4>1. k \in 61..End(h) /\ version' <= Migrate[k].stamp
        BY <1>1, <2>1, <2>3, <2>4, <3>2
      <4> QED
        BY <4>1
    <3> QED
      BY <3>1, <3>2
  <2> QED
    BY <2>5, <2>6, <2>7 DEF Progress
<1> QED
  BY <1>2, <1>3 DEF Progress

(* A statement keeps what an undisturbed process knows; the last one       *)
(* leaves the complete schema.                                             *)
LEMMA ExecutedAlone ==
    ASSUME SchemaTypeOK, BaseInv, ComparisonInv, PassiveWhole, LoneInv, PlaceInv,
           NEW p \in Openers, NEW k \in Indices \ Looks, Executed(p, k), SchemaTypeOK'
    PROVE  LoneInv' /\ PlaceInv'
<1>1. \A q \in Openers \ {p} : ~ Alone(q)' /\ (Migrating(q)' => Placed(q)')
  BY OthersNotAlone DEF Executed
<1>2. /\ k \in 2..90 /\ k \in Todo(p) /\ Migrating(p) /\ (Alone(p)' <=> Alone(p))
      /\ \A j \in 1..90 : j < k => j \notin Todo(p)
      /\ Migrating(p)' <=> Todo(p) \ {k} # {}
      /\ Todo(p)' = Todo(p) \ {k}
      /\ objects' = objects \cup Migrate[k].objs
      /\ version' = Stamped(Migrate[k], version)
  BY ExecutedFacts DEF Heads, Executed
<1>3. PICK h \in {0} \cup Looks : At(p, h) /\ (Alone(p) => Progress(p, h))
  BY <1>2 DEF PlaceInv, Placed
<1>4. Alone(p)' => Progress(p, h)'
  BY <1>2, <1>3, ExecutedProgress
<1>5. End(h) \in Looks => End(h) \in Todo(p)'
  BY <1>2, <1>3 DEF At
<1>6. Migrating(p)' => Placed(p)'
  <2>1. Todo(p)' # {} => At(p, h)'
    BY <1>2, <1>3, <1>5 DEF At
  <2> QED
    BY <1>2, <1>4, <2>1 DEF Placed
<1>7. PlaceInv'
  BY <1>1, <1>6 DEF PlaceInv
<1>8. ASSUME Alone(p)' PROVE Undisturbed(p)'
  <2>0. Undisturbed(p)
    BY <1>2, <1>8 DEF LoneInv
  <2>1. \A q \in Openers \ {p} : ~ Migrating(q)'
    BY <2>0, ExecutedFacts DEF Undisturbed
  <2>2. LoneWalk(p)'
    <3>0. LoneWalk(p)
      BY <1>2, <2>0 DEF Undisturbed
    <3>1. ASSUME NEW j \in Todo(p)', GuardedCreate(j) PROVE Migrate[j].objs \cap objects' = {}
      <4>1. j \in Indices /\ j \in Todo(p) /\ j # k
        BY <1>2, TodoFacts, LooksAreIndices
      <4>2. Migrate[k].objs \cap Migrate[j].objs = {}
        BY <3>1, <4>1, GuardedFacts
      <4>3. Migrate[j].objs \cap objects = {}
        BY <3>0, <3>1, <4>1 DEF LoneWalk
      <4> QED
        BY <1>2, <4>2, <4>3
    <3>2. 2 \notin Todo(p)'
      BY <1>2
    <3>3. ASSUME 31 \in Todo(p)' PROVE "comparison_suites" \notin objects'
      <4>1. k < 31
        BY <1>2, <3>3
      <4>2. "comparison_suites" \notin Migrate[k].objs
        BY <4>1, OwnerFacts, Authorizations
      <4> QED
        BY <1>2, <3>0, <3>3, <4>2 DEF LoneWalk
    <3> QED
      BY <3>1, <3>2, <3>3 DEF LoneWalk
  <2>3. opener'[p].state = StateAfter(Todo(p)')
    BY DEF Executed
  <2>4. ASSUME opener'[p].state = "open" PROVE HalfComparison' \/ Complete'
    <3>1. Todo(p)' = {}
      BY <2>3, <2>4 DEF StateAfter
    <3>2. End(h) = 90
      BY <1>5, <3>1, EndFacts
    <3> SUFFICES ASSUME ~ HalfComparison' PROVE Complete'
      OBVIOUS
    <3>3. Behind(p, h)' /\ Raised(p, h)'
      BY <1>4, <1>8 DEF Progress, HalfBefore
    <3>4. \A j \in 1..90 : Migrate[j].objs \ Backfilled \subseteq objects'
      BY <3>1, <3>2, <3>3 DEF Behind, Done
    <3>5. Created(Migrate) \ Backfilled \subseteq objects'
      BY <3>4, AllCreated
    <3>6. version' >= Migrate[90].stamp
      BY <3>1, <3>2, <3>3 DEF Raised
    <3>7. version' = SchemaVersion
      BY <3>6, StampFacts DEF SchemaTypeOK, SchemaVersion
    <3> QED
      BY <3>5, <3>7 DEF Complete
  <2>5. opener'[p].state # "failed"
    BY <2>3 DEF StateAfter
  <2> QED
    BY <2>1, <2>2, <2>4, <2>5 DEF Undisturbed
<1> QED
  BY <1>1, <1>7, <1>8 DEF LoneInv

(* An undisturbed process is refused only by the first statement of a      *)
(* script that was torn before.                                            *)
LEMMA RefusedAlone ==
    ASSUME SchemaTypeOK, BaseInv, ComparisonInv, LoneInv, PlaceInv,
           NEW p \in Openers, NEW k \in Indices, Refused(p, k)
    PROVE  LoneInv' /\ PlaceInv'
<1>1. \A q \in Openers \ {p} : ~ Alone(q)' /\ (Migrating(q)' => Placed(q)')
  BY OthersNotAlone DEF Refused
<1>2. ~ Migrating(p)' /\ opener'[p].state = "failed" /\ (Alone(p)' <=> Alone(p))
      /\ objects' = objects /\ version' = version /\ Migrating(p)
  BY DEF Refused, Migrating
<1>3. PlaceInv'
  BY <1>1, <1>2 DEF PlaceInv
<1>4. ASSUME Alone(p)' PROVE Undisturbed(p)'
  <2>0. Undisturbed(p) /\ LoneWalk(p)
    BY <1>2, <1>4 DEF LoneInv, Undisturbed
  <2>1. \A q \in Openers \ {p} : ~ Migrating(q)'
    BY <2>0 DEF Undisturbed, Refused, OthersKept, Unaltered, Migrating
  <2>2. Migrate[k].op = "create" /\ Migrate[k].objs \cap objects # {} /\ k \in Todo(p)
    BY DEF Refused, Fails, Heads
  <2>3. InScript(k)
    BY <2>0, <2>2 DEF LoneWalk, GuardedCreate
  <2>4. ~ MidBase(p) /\ ~ MidComparison(p)
    BY NoMidRefusal
  <2>5. k \in {2, 31}
    <3>1. \A j \in Todo(p) : k <= j
      BY DEF Refused, Heads
    <3>2. k # 3
      <4>1. k = 3 => 4 \in Todo(p) /\ 2 \notin Todo(p)
        BY <1>2, <2>2, <3>1 DEF BaseInv, BaseWalk
      <4> QED
        BY <1>2, <2>4, <4>1 DEF MidBase
    <3>3. k \notin {32, 33}
      <4>1. k \in {32, 33} => 33 \in Todo(p) /\ 31 \notin Todo(p)
        BY <1>2, <2>2, <3>1 DEF ComparisonInv, ComparisonWalk
      <4> QED
        BY <1>2, <2>4, <4>1 DEF MidComparison
    <3> QED
      BY <2>3, <3>2, <3>3 DEF InScript
  <2>6. Torn
    <3>1. CASE k = 2
      BY <2>0, <2>2, <3>1, BaseFacts DEF Torn, LoneWalk
    <3>2. CASE k = 31
      <4>1. "comparison_fixtures" \in objects /\ "comparison_suites" \notin objects
        BY <2>0, <2>2, <3>2, ComparisonFacts DEF LoneWalk
      <4>2. "comparison_authorizations" \notin objects
        BY <4>1, Authorizations DEF ComparisonInv, ComparisonObjects
      <4> QED
        BY <4>1, <4>2 DEF Torn
    <3> QED
      BY <2>5, <3>1, <3>2
  <2>7. Torn'
    BY <1>2, <2>6 DEF Torn
  <2> QED
    BY <1>2, <2>1, <2>7 DEF Undisturbed
<1> QED
  BY <1>1, <1>3, <1>4 DEF LoneInv

(* A process that died is not undisturbed.                                 *)
LEMMA DiedAlone ==
    ASSUME LoneInv, PlaceInv, NEW p \in Openers, Died(p)
    PROVE  LoneInv' /\ PlaceInv'
<1>1. \A q \in Openers \ {p} : ~ Alone(q)' /\ (Migrating(q)' => Placed(q)')
  BY OthersNotAlone DEF Died
<1>2. ~ Migrating(p)' /\ ~ Alone(p)'
  BY DEF Died, Migrating
<1> QED
  BY <1>1, <1>2 DEF LoneInv, PlaceInv

-----------------------------------------------------------------------------
(* A released file, or none, satisfies the invariant.                      *)
LEMMA SchemaInit == MigrationInit => SchemaInv
<1> SUFFICES ASSUME MigrationInit PROVE SchemaInv
  OBVIOUS
<1>1. \A p \in Openers : opener[p].state = "closed" /\ opener[p].todo = {} /\ opener[p].alone = FALSE
  BY DEF MigrationInit, Closed
<1>2. SchemaTypeOK
  <2>1. Closed \in OpenerRecords
    BY DEF OpenerRecords, Closed, OpenerStates
  <2> QED
    BY <2>1 DEF SchemaTypeOK, MigrationInit, SchemaVersion
<1>3. \A p \in Openers : ~ Migrating(p) /\ ~ Alone(p)
  BY <1>1 DEF Migrating, Alone
<1>4. \A p \in Openers : ~ MidBase(p) /\ ~ MidComparison(p)
  BY <1>3 DEF MidBase, MidComparison
<1>5. objects = Release(version) /\ version \in {0, 7, 10}
  BY DEF MigrationInit
<1>6. BaseInv
  <2>1. BaseObjects /\ ~("runs" \in objects /\ version = 0)
    BY <1>5, ReleaseFacts DEF BaseObjects
  <2> QED
    BY <1>3, <1>4, <2>1 DEF BaseInv
<1>7. ComparisonInv
  <2>1. ComparisonObjects /\ ~ HalfComparison
    <3>1. CASE version = 0
      BY <1>5, <3>1, ReleaseFacts DEF ComparisonObjects, HalfComparison
    <3>2. CASE version = 7
      BY <1>5, <3>2, ReleaseFacts DEF ComparisonObjects, HalfComparison
    <3>3. CASE version = 10
      BY <1>5, <3>3, ReleaseFacts, Authorizations DEF ComparisonObjects, HalfComparison
    <3> QED
      BY <1>5, <3>1, <3>2, <3>3
  <2> QED
    BY <1>3, <1>4, <2>1 DEF ComparisonInv
<1>8. PassiveWhole
  BY <1>5, ReleaseFacts DEF PassiveWhole
<1> QED
  BY <1>2, <1>3, <1>6, <1>7, <1>8 DEF SchemaInv, LoneInv, PlaceInv

(* Every step of every process keeps the invariant.                        *)
LEMMA SchemaNext == SchemaInv /\ [MigrationNext]_migrationVars => SchemaInv'
<1> SUFFICES ASSUME SchemaInv, [MigrationNext]_migrationVars PROVE SchemaInv'
  OBVIOUS
<1> USE DEF SchemaInv
<1>1. CASE UNCHANGED migrationVars
  <2> USE <1>1 DEF migrationVars
  <2>1. \A q : /\ Todo(q)' = Todo(q) /\ (Migrating(q)' <=> Migrating(q)) /\ (Alone(q)' <=> Alone(q))
               /\ (MidBase(q)' <=> MidBase(q)) /\ (MidComparison(q)' <=> MidComparison(q))
    BY DEF Todo, Migrating, Alone, MidBase, MidComparison
  <2>2. SchemaTypeOK'
    BY DEF SchemaTypeOK
  <2>3. BaseInv'
    BY <2>1 DEF BaseInv, BaseObjects, BaseWalk
  <2>4. ComparisonInv'
    BY <2>1 DEF ComparisonInv, ComparisonObjects, ComparisonWalk, HalfComparison
  <2>5. PassiveWhole'
    BY DEF PassiveWhole
  <2>6. LoneInv'
    BY DEF LoneInv, Undisturbed, LoneWalk, Alone, Migrating, Todo, Torn, HalfComparison, Complete
  <2>7. PlaceInv'
    BY DEF PlaceInv, Placed, At, Progress, HalfBefore, HalfComparison, MidComparison, Behind,
           Done, Raised, Lowered, Alone, Migrating, Todo
  <2> QED
    BY <2>2, <2>3, <2>4, <2>5, <2>6, <2>7
<1>2. ASSUME NEW p \in Openers, Connect(p) PROVE SchemaInv'
  <2>1. Connected(p) /\ SchemaTypeOK'
    BY <1>2, ConnectKind
  <2>2. BaseInv' /\ ComparisonInv'
    BY <2>1, BaseOther, ComparisonOther
  <2>3. PassiveWhole'
    BY <2>1 DEF Connected, PassiveWhole
  <2>4. LoneInv' /\ PlaceInv'
    BY <2>1, ConnectedAlone
  <2> QED
    BY <2>1, <2>2, <2>3, <2>4
<1>3. ASSUME NEW p \in Openers, OpenerDies(p) PROVE SchemaInv'
  <2>1. Died(p) /\ SchemaTypeOK'
    BY <1>3, DieKind
  <2>2. BaseInv' /\ ComparisonInv'
    BY <2>1, BaseOther, ComparisonOther
  <2>3. PassiveWhole'
    BY <2>1 DEF Died, PassiveWhole
  <2>4. LoneInv' /\ PlaceInv'
    BY <2>1, DiedAlone
  <2> QED
    BY <2>1, <2>2, <2>3, <2>4
<1>4. ASSUME NEW p \in Openers, Step(p) PROVE SchemaInv'
  <2>1. SchemaTypeOK'
    BY <1>4, StepKind
  <2>2. ASSUME NEW i \in Looks, Looked(p, i) PROVE SchemaInv'
    <3>1. BaseInv' /\ ComparisonInv'
      BY <2>2, BaseLooked, ComparisonLooked
    <3>2. PassiveWhole'
      BY <2>2 DEF Looked, PassiveWhole
    <3>3. LoneInv' /\ PlaceInv'
      BY <2>1, <2>2, LookedAlone
    <3> QED
      BY <2>1, <3>1, <3>2, <3>3
  <2>3. ASSUME NEW k \in Indices \ Looks, Executed(p, k) PROVE SchemaInv'
    <3>1. BaseInv' /\ ComparisonInv'
      BY <2>1, <2>3, BaseExecuted, ComparisonExecuted
    <3>2. PassiveWhole'
      BY <2>3, PassiveExecuted
    <3>3. LoneInv' /\ PlaceInv'
      BY <2>1, <2>3, ExecutedAlone
    <3> QED
      BY <2>1, <3>1, <3>2, <3>3
  <2>4. ASSUME NEW k \in Indices, Refused(p, k) PROVE SchemaInv'
    <3>1. BaseInv' /\ ComparisonInv'
      BY <2>4, BaseOther, ComparisonOther
    <3>2. PassiveWhole'
      BY <2>4 DEF Refused, PassiveWhole
    <3>3. LoneInv' /\ PlaceInv'
      BY <2>4, RefusedAlone
    <3> QED
      BY <2>1, <3>1, <3>2, <3>3
  <2> QED
    BY <1>4, <2>2, <2>3, <2>4, StepKind
<1> QED
  BY <1>1, <1>2, <1>3, <1>4 DEF MigrationNext

(* When nobody migrates and nobody has died inside a script, no script is  *)
(* torn.                                                                   *)
LEMMA SchemaInvCompletes == SchemaInv => NextOpenCompletes
<1> SUFFICES ASSUME SchemaInv, NEW p \in Openers, Alone(p),
                    opener[p].state \in {"open", "failed"}, crashes = 0 \/ ~ Torn
             PROVE  opener[p].state = "open" /\ Complete
  BY DEF NextOpenCompletes, Alone
<1>1. Undisturbed(p)
  BY DEF SchemaInv, LoneInv
<1>2. \A q \in Openers : ~ Migrating(q)
  BY <1>1 DEF Undisturbed, Migrating
<1>3. ~ Torn
  <2> SUFFICES ASSUME crashes = 0, Torn PROVE FALSE
    OBVIOUS
  <2>1. CASE "runs" \in objects /\ version = 0
    BY <1>2, <2>1 DEF SchemaInv, BaseInv, MidBase
  <2>2. CASE HalfComparison
    BY <1>2, <2>2 DEF SchemaInv, ComparisonInv, MidComparison
  <2> QED
    BY <2>1, <2>2 DEF Torn, HalfComparison
<1>4. ~ HalfComparison
  BY <1>3 DEF Torn, HalfComparison
<1> QED
  BY <1>1, <1>3, <1>4 DEF Undisturbed

(* The inductive invariant of opening the workspace database, for any      *)
(* number of processes and of crashes: each of the two scripts that cannot *)
(* be repeated has at most one process inside, and an undisturbed process  *)
(* has the objects of every statement behind it (db.py, migrate).          *)
THEOREM SchemaInvariant == MigrationSpec => []SchemaInv
<1> QED
  BY SchemaInit, SchemaNext, PTL DEF MigrationSpec

(* However earlier opens were interleaved and wherever processes died      *)
(* outside the two scripts, the next undisturbed connect succeeds and      *)
(* leaves the complete schema at the current version (db.py, connect and   *)
(* migrate).                                                               *)
THEOREM NextOpenCompletesTheSchema == MigrationSpec => []NextOpenCompletes
<1> QED
  BY SchemaInvariant, SchemaInvCompletes, PTL

=============================================================================
