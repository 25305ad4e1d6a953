------------------------- MODULE DirectorTurnProofs --------------------------
(***************************************************************************)
(* Machine-checked proofs about DirectorTurn: what is recorded of a turn    *)
(* is its own and is final, for any number of threads, turns, restarts and *)
(* messages, in whatever order and however late they come.                 *)
(***************************************************************************)
EXTENDS DirectorTurn, SequenceTheorems, TLAPS

Statuses == {"in_progress", "failed", "failed_interrupted"} \cup Completed
Lives == {"requested", "started", "in_progress"} \cup TerminalLife
Turns == [status : Statuses, life : Lives, thread : Nat, turn : Nat, usage : Nat, answer : Nat]
MessageKinds == {"item", "usage", "done", "stopped", "error"}
Messages == [kind : MessageKinds, turn : Nat]
ServerTurns == [row : Nat, said : SUBSET MessageKinds]
SessionStates == {"active", "closed", "rolled_over", "interrupted"}

(* The rows and messages.                                                  *)
RowsOK ==
    /\ row \in Seq(Turns) /\ wire \in Seq(Messages) /\ srv \in Seq(ServerTurns)
    /\ known \in Nat /\ answer \in Nat /\ thread \in Nat /\ session \in Seq(SessionStates)

(* The turn under way is the last row: nobody has ended it, and all that    *)
(* the client holds of it comes from the server's turn that it knows.       *)
CurrentTurn ==
    pc \in InTurn =>
        /\ Last \in 1 .. Len(row)
        /\ row[Last].status = "in_progress" /\ row[Last].turn = known
        /\ answer \in {0, known}
        /\ pc \in {"send", "ack"} => known = 0 /\ row[Last].usage = 0 /\ row[Last].life = "requested"
        /\ pc = "listen" => row[Last].life \in {"started", "in_progress"}
        /\ pc = "usage" => row[Last].life = "completed"

IInv == RowsOK /\ CurrentTurn /\ OwnEvidence

-----------------------------------------------------------------------------
(* One row of a table is replaced.                                         *)
LEMMA RowReplaced ==
    ASSUME row \in Seq(Turns), Last \in 1 .. Len(row), NEW new \in Turns,
           row' = [row EXCEPT ![Last] = new]
    PROVE  /\ row' \in Seq(Turns) /\ Last' = Last /\ DOMAIN row' = DOMAIN row
           /\ row'[Last] = new /\ \A i \in DOMAIN row : i # Last => row'[i] = row[i]
BY DEF Last

(* A lifecycle event on the current row.                                   *)
LEMMA EventStep ==
    ASSUME row \in Seq(Turns), Last \in 1 .. Len(row), NEW life \in Lives, RecordTurnEvent(life)
    PROVE  /\ row' \in Seq(Turns) /\ Last' = Last /\ DOMAIN row' = DOMAIN row
           /\ \A i \in DOMAIN row : i # Last => row'[i] = row[i]
           /\ row'[Last].status = row[Last].status /\ row'[Last].turn = row[Last].turn
           /\ row'[Last].usage = row[Last].usage /\ row'[Last].answer = row[Last].answer
           /\ row'[Last].life = Sticky(row[Last].life, life)
<1> DEFINE new == [row[Last] EXCEPT !.life = Sticky(@, life)]
<1>1. row[Last] \in Turns
  OBVIOUS
<1>2. Sticky(row[Last].life, life) \in Lives
  BY <1>1 DEF Sticky, Turns
<1>3. new \in Turns
  BY <1>1, <1>2 DEF Turns
<1>4. row' = [row EXCEPT ![Last] = new]
  BY DEF RecordTurnEvent
<1>5. /\ new.status = row[Last].status /\ new.turn = row[Last].turn
      /\ new.usage = row[Last].usage /\ new.answer = row[Last].answer
      /\ new.life = Sticky(row[Last].life, life)
  BY <1>1 DEF Turns
<1> HIDE DEF new
<1> QED
  BY <1>3, <1>4, <1>5, RowReplaced

(* Usage that is recorded with a lifecycle event.                          *)
LEMMA UsageStep ==
    ASSUME row \in Seq(Turns), Last \in 1 .. Len(row), NEW life \in Lives, NEW k \in Nat,
           RecordUsage(life, k)
    PROVE  /\ row' \in Seq(Turns) /\ Last' = Last /\ DOMAIN row' = DOMAIN row
           /\ \A i \in DOMAIN row : i # Last => row'[i] = row[i]
           /\ row'[Last].status = row[Last].status /\ row'[Last].turn = row[Last].turn
           /\ row'[Last].usage = k /\ row'[Last].answer = row[Last].answer
           /\ row'[Last].life = Sticky(row[Last].life, life)
<1> DEFINE new == [row[Last] EXCEPT !.life = Sticky(@, life), !.usage = k]
<1>1. row[Last] \in Turns
  OBVIOUS
<1>2. Sticky(row[Last].life, life) \in Lives
  BY <1>1 DEF Sticky, Turns
<1>3. new \in Turns
  BY <1>1, <1>2 DEF Turns
<1>4. row' = [row EXCEPT ![Last] = new]
  BY <1>1 DEF RecordUsage, Turns
<1>5. /\ new.status = row[Last].status /\ new.turn = row[Last].turn
      /\ new.usage = k /\ new.answer = row[Last].answer
      /\ new.life = Sticky(row[Last].life, life)
  BY <1>1 DEF Turns
<1> HIDE DEF new
<1> QED
  BY <1>3, <1>4, <1>5, RowReplaced

(* The response to turn/start names the server's turn.                     *)
LEMMA StartedStep ==
    ASSUME row \in Seq(Turns), Last \in 1 .. Len(row), NEW k \in Nat,
           row' = [row EXCEPT ![Last].life = Sticky(@, "started"), ![Last].turn = k]
    PROVE  /\ row' \in Seq(Turns) /\ Last' = Last /\ DOMAIN row' = DOMAIN row
           /\ \A i \in DOMAIN row : i # Last => row'[i] = row[i]
           /\ row'[Last].status = row[Last].status /\ row'[Last].turn = k
           /\ row'[Last].usage = row[Last].usage /\ row'[Last].answer = row[Last].answer
           /\ row'[Last].life = Sticky(row[Last].life, "started")
<1> DEFINE new == [row[Last] EXCEPT !.life = Sticky(@, "started"), !.turn = k]
<1>1. row[Last] \in Turns
  OBVIOUS
<1>2. Sticky(row[Last].life, "started") \in Lives
  BY <1>1 DEF Sticky, Turns, Lives
<1>3. new \in Turns
  BY <1>1, <1>2 DEF Turns
<1>4. row' = [row EXCEPT ![Last] = new]
  BY <1>1 DEF Turns
<1>5. /\ new.status = row[Last].status /\ new.turn = k
      /\ new.usage = row[Last].usage /\ new.answer = row[Last].answer
      /\ new.life = Sticky(row[Last].life, "started")
  BY <1>1 DEF Turns
<1> HIDE DEF new
<1> QED
  BY <1>3, <1>4, <1>5, RowReplaced

(* complete_turn on the current row.                                       *)
LEMMA FinishStep ==
    ASSUME row \in Seq(Turns), Last \in 1 .. Len(row), NEW status \in Statuses, NEW life \in Lives,
           NEW k \in Nat, row' = [row EXCEPT ![Last] = Finished(@, status, life, k)]
    PROVE  /\ row' \in Seq(Turns) /\ Last' = Last /\ DOMAIN row' = DOMAIN row
           /\ \A i \in DOMAIN row : i # Last => row'[i] = row[i]
           /\ row'[Last].status = IF row[Last].status = "in_progress" THEN status ELSE row[Last].status
           /\ row'[Last].turn = row[Last].turn
           /\ row'[Last].usage = row[Last].usage /\ row'[Last].answer = k
           /\ row'[Last].life = Sticky(row[Last].life, life)
<1> DEFINE new == Finished(row[Last], status, life, k)
<1>1. row[Last] \in Turns
  OBVIOUS
<1>2. Sticky(row[Last].life, life) \in Lives
  BY <1>1 DEF Sticky, Turns
<1>3. new \in Turns
  BY <1>1, <1>2 DEF Turns, Finished
<1>4. row' = [row EXCEPT ![Last] = new]
  OBVIOUS
<1>5. /\ new.status = IF row[Last].status = "in_progress" THEN status ELSE row[Last].status
      /\ new.turn = row[Last].turn
      /\ new.usage = row[Last].usage /\ new.answer = k
      /\ new.life = Sticky(row[Last].life, life)
  BY <1>1 DEF Turns, Finished
<1> HIDE DEF new
<1> QED
  BY <1>3, <1>4, <1>5, RowReplaced

(* A turn that is begun is a new last row.                                 *)
LEMMA BeginStep ==
    ASSUME RowsOK, BeginTurn
    PROVE  /\ row' \in Seq(Turns) /\ Last' = Last + 1 /\ DOMAIN row' = DOMAIN row \cup {Last + 1}
           /\ Last \in Nat /\ \A i \in DOMAIN row : i # Last + 1 /\ row'[i] = row[i]
           /\ row'[Last + 1] = [status |-> "in_progress", life |-> "requested", thread |-> thread,
                                turn |-> 0, usage |-> 0, answer |-> 0]
<1> DEFINE new == [status |-> "in_progress", life |-> "requested", thread |-> thread,
                   turn |-> 0, usage |-> 0, answer |-> 0]
<1>1. row \in Seq(Turns) /\ new \in Turns
  BY DEF RowsOK, Turns, Statuses, Lives
<1>2. row' = Append(row, new)
  BY DEF BeginTurn
<1> HIDE DEF new
<1>3. row' \in Seq(Turns) /\ Len(row') = Len(row) + 1 /\ row'[Len(row) + 1] = new
      /\ \A i \in 1 .. Len(row) : row'[i] = row[i]
  BY <1>1, <1>2
<1>4. Len(row) \in Nat /\ DOMAIN row = 1 .. Len(row) /\ DOMAIN row' = 1 .. Len(row')
  BY <1>1, <1>3
<1> QED
  BY <1>3, <1>4 DEF Last, new

(* Recovery replaces rows in their places.                                 *)
LEMMA ResumeStep ==
    ASSUME row \in Seq(Turns), row' = [i \in DOMAIN row |-> RecoveredRow(row[i])]
    PROVE  /\ row' \in Seq(Turns) /\ DOMAIN row' = DOMAIN row /\ Last' = Last
           /\ \A i \in DOMAIN row :
                \/ row'[i] = row[i]
                \/ /\ row[i].status = "in_progress" /\ row[i].life \notin TerminalLife
                   /\ row'[i].status = "failed_interrupted" /\ row'[i].turn = row[i].turn
                   /\ row'[i].usage = row[i].usage
<1>1. ASSUME NEW i \in DOMAIN row
      PROVE  /\ RecoveredRow(row[i]) \in Turns
             /\ \/ RecoveredRow(row[i]) = row[i]
                \/ /\ row[i].status = "in_progress" /\ row[i].life \notin TerminalLife
                   /\ RecoveredRow(row[i]).status = "failed_interrupted"
                   /\ RecoveredRow(row[i]).turn = row[i].turn
                   /\ RecoveredRow(row[i]).usage = row[i].usage
  <2>1. row[i] \in Turns
    OBVIOUS
  <2>2. CASE row[i].status = "in_progress" /\ row[i].life \notin TerminalLife
    BY <2>1, <2>2 DEF RecoveredRow, Turns, Statuses, Lives, TerminalLife
  <2>3. CASE ~(row[i].status = "in_progress" /\ row[i].life \notin TerminalLife)
    BY <2>1, <2>3 DEF RecoveredRow
  <2> QED
    BY <2>2, <2>3
<1>2. row' \in [1 .. Len(row) -> Turns]
  BY <1>1
<1>3. row' \in Seq(Turns) /\ Len(row') = Len(row)
  BY <1>2, SeqDef
<1> QED
  BY <1>1, <1>2, <1>3 DEF Last

-----------------------------------------------------------------------------
(* What one step may not revise (the body of EndedTurnsFinal).             *)
Final ==
    \A i \in DOMAIN row :
       /\ row[i].status # "in_progress" => row'[i].status = row[i].status
       /\ row[i].life \in TerminalLife =>
             \/ row'[i].life = row[i].life
             \/ row[i].life = "timed_out" /\ row'[i].life = "aborted"

(* The messages, the server's turns and the sessions keep their types.     *)
LEMMA MessagesNext ==
    ASSUME IInv, Next
    PROVE  /\ wire' \in Seq(Messages) /\ srv' \in Seq(ServerTurns)
           /\ known' \in Nat /\ answer' \in Nat /\ thread' \in Nat /\ session' \in Seq(SessionStates)
<1> USE DEF IInv, RowsOK, client
<1>0. /\ Len(session) \in Nat /\ <<>> \in Seq(Messages) /\ <<>> \in Seq(ServerTurns) /\ Last \in Nat
      /\ \A k \in DOMAIN srv : k \in Nat /\ srv[k] \in ServerTurns
  BY DEF Last
<1>a. wire # <<>> => Tail(wire) \in Seq(Messages) /\ Head(wire) \in Messages /\ Head(wire).turn \in Nat
  <2>1. wire # <<>> => Tail(wire) \in Seq(Messages) /\ Head(wire) \in Messages
    BY HeadTailProperties
  <2> QED
    BY <2>1 DEF Messages
<1>b. ASSUME NEW t, NEW state \in SessionStates PROVE CloseSession(t, state) \in Seq(SessionStates)
  <2>0. session \in [1 .. Len(session) -> SessionStates]
    OBVIOUS
  <2>1. CloseSession(t, state) \in [1 .. Len(session) -> SessionStates]
    <3>1. CASE t \in 1 .. Len(session)
      BY <2>0, <3>1 DEF CloseSession
    <3>2. CASE t \notin 1 .. Len(session)
      BY <2>0, <3>2 DEF CloseSession
    <3> QED
      BY <3>1, <3>2
  <2> QED
    BY <1>0, <2>1, SeqDef
<1>c. SessionClosed("closed") \in Seq(SessionStates) /\ Append(session, "active") \in Seq(SessionStates)
  BY <1>b DEF SessionClosed, SessionStates
<1>d. \A t : CloseSession(t, "active") \in Seq(SessionStates) /\ CloseSession(t, "rolled_over") \in Seq(SessionStates)
  BY <1>b DEF SessionStates
<1>1. CASE Start
  <2>1. session' \in Seq(SessionStates) /\ thread' \in Nat
    <3>1. \/ session' = CloseSession(Len(session), "active") /\ thread' = Len(session)
          \/ session' = Append(session, "active") /\ thread' = Len(session) + 1
      BY <1>1 DEF Start
    <3>2. Len(session) + 1 \in Nat
      BY <1>0
    <3> QED
      BY <1>0, <1>c, <1>d, <3>1, <3>2
  <2> QED
    BY <2>1, <1>1 DEF Start
<1>2. CASE RecoverDirector \/ Shutdown \/ Crash
  <2>1. NoServer /\ thread' = 0 /\ session' \in {session, SessionClosed("closed")}
    BY <1>2 DEF RecoverDirector, Shutdown, Crash
  <2> QED
    BY <1>0, <1>c, <2>1 DEF NoServer
<1>3. CASE NewThread \/ Rollover
  BY <1>d, <1>3 DEF NewThread, Rollover
<1>4. CASE RecordSession
  BY <1>0, <1>c, <1>4 DEF RecordSession
<1>5. CASE BeginTurn
  BY <1>5 DEF BeginTurn
<1>6. CASE TurnStarted
  BY <1>0, <1>6 DEF TurnStarted
<1>7. CASE Skip \/ TokenUsage \/ TurnCompleted \/ TurnError \/ DrainUsage \/ DrainEvent
  BY <1>a, <1>7 DEF Skip, TokenUsage, TurnCompleted, TurnError, DrainUsage, DrainEvent, Read, Heard
<1>8. CASE AgentMessage
  BY <1>a, <1>8 DEF AgentMessage, Read, Heard
<1>9. CASE DrainEnds
  BY <1>0, <1>9 DEF DrainEnds
<1>10. CASE ServerAccepts
  <2>1. [row |-> Last, said |-> {}] \in ServerTurns
    BY <1>0 DEF ServerTurns
  <2> QED
    BY <1>10, <2>1 DEF ServerAccepts
<1>11. ASSUME NEW k \in DOMAIN srv, NEW kind \in MessageKinds,
              ServerSays(k, kind)
       PROVE  wire' \in Seq(Messages) /\ srv' \in Seq(ServerTurns)
  <2>1. srv[k] \in ServerTurns /\ k \in Nat
    BY <1>0
  <2>2. [srv[k] EXCEPT !.said = @ \cup {kind}] \in ServerTurns
    BY <2>1 DEF ServerTurns
  <2>3. srv' = [srv EXCEPT ![k] = [srv[k] EXCEPT !.said = @ \cup {kind}]]
    BY <1>11 DEF ServerSays
  <2>4. srv' \in Seq(ServerTurns)
    BY <2>2, <2>3
  <2>5. [kind |-> kind, turn |-> k] \in Messages
    BY <2>1 DEF Messages
  <2> QED
    BY <1>11, <2>4, <2>5 DEF ServerSays
<1>12. CASE Resume
  <2>1. session' \in [1 .. Len(session) -> SessionStates]
    BY <1>12 DEF Resume, SessionStates
  <2> QED
    BY <1>0, <1>12, <2>1, SeqDef DEF Resume
<1>13. CASE \/ CompactThread \/ SendTurn \/ AnswerAccepted \/ AnswerRepaired \/ AnswerRejected \/ TimeOut
            \/ FailTurn \/ StartFails \/ StateTooLarge \/ PrepareFails \/ ClientFails \/ RequestDecision \/ Stop
  BY <1>13 DEF CompactThread, SendTurn, AnswerAccepted, AnswerRepaired, AnswerRejected, Answered, TimeOut,
               FailTurn, StartFails, StateTooLarge, PrepareFails, ClientFails, RequestDecision, Stop
<1>14. ASSUME NEW k \in DOMAIN srv, NEW kind \in MessageKinds,
              ServerSays(k, kind)
       PROVE  known' \in Nat /\ answer' \in Nat /\ thread' \in Nat /\ session' \in Seq(SessionStates)
  BY <1>14 DEF ServerSays
<1> QED
  BY <1>1, <1>2, <1>3, <1>4, <1>5, <1>6, <1>7, <1>8, <1>9, <1>10, <1>11, <1>12, <1>13, <1>14
  DEF Next, DirectorStep, ServerStep, MessageKinds

(* The current turn, seen from one of its places.                          *)
LEMMA InTurnFacts ==
    ASSUME IInv, pc \in InTurn
    PROVE  /\ row \in Seq(Turns) /\ Last \in 1 .. Len(row) /\ Last \in DOMAIN row /\ row[Last] \in Turns
           /\ row[Last].status = "in_progress" /\ row[Last].turn = known /\ row[Last].usage \in {0, known}
           /\ answer \in {0, known} /\ known \in Nat /\ answer \in Nat
           /\ pc \in {"send", "ack"} => known = 0 /\ row[Last].usage = 0 /\ row[Last].life = "requested"
           /\ pc = "listen" => row[Last].life \in {"started", "in_progress"}
           /\ pc = "usage" => row[Last].life = "completed"
BY DEF IInv, RowsOK, CurrentTurn, OwnEvidence

(* Steps that leave the rows alone.                                        *)
LEMMA RowsUntouched ==
    ASSUME IInv, UNCHANGED row,
           \/ pc' \notin InTurn
           \/ UNCHANGED <<pc, known, answer>>
           \/ pc \in InTurn /\ pc' = "fail" /\ UNCHANGED <<known, answer>>
    PROVE  row' \in Seq(Turns) /\ CurrentTurn' /\ OwnEvidence' /\ Final
BY DEF IInv, RowsOK, CurrentTurn, OwnEvidence, Final, Last, InTurn

(* A step on the current row that leaves it in progress.                   *)
LEMMA RowTouched ==
    ASSUME IInv, pc \in InTurn, row' \in Seq(Turns), Last' = Last, DOMAIN row' = DOMAIN row,
           \A i \in DOMAIN row : i # Last => row'[i] = row[i],
           row'[Last].status = "in_progress", row'[Last].turn = known',
           row'[Last].usage \in {0, known'}, answer' \in {0, known'},
           NEW life \in Lives, row'[Last].life = Sticky(row[Last].life, life),
           pc' \in {"send", "ack"} => known' = 0 /\ row'[Last].usage = 0 /\ row'[Last].life = "requested",
           pc' = "listen" => row'[Last].life \in {"started", "in_progress"},
           pc' = "usage" => row'[Last].life = "completed"
    PROVE  CurrentTurn' /\ OwnEvidence' /\ Final
<1>1. row[Last].status = "in_progress" /\ Last \in DOMAIN row /\ Last \in 1 .. Len(row)
  BY InTurnFacts
<1>2. Final
  BY <1>1 DEF Final, Sticky
<1>3. OwnEvidence'
  <2>1. ASSUME NEW i \in DOMAIN row
        PROVE  /\ row'[i].status \in Completed =>
                    row'[i].life = "completed" /\ row'[i].answer # 0 /\ row'[i].answer = row'[i].turn
               /\ row'[i].usage \in {0, row'[i].turn}
    <3>1. CASE i = Last
      BY <3>1 DEF Completed
    <3>2. CASE i # Last
      BY <3>2 DEF IInv, OwnEvidence
    <3> QED
      BY <3>1, <3>2
  <2> QED
    BY <2>1 DEF OwnEvidence
<1>4. CurrentTurn'
  <2>1. Last' \in 1 .. Len(row')
    BY <1>1 DEF Last
  <2> QED
    BY <2>1 DEF CurrentTurn
<1> QED
  BY <1>2, <1>3, <1>4

(* A step that ends the current row.                                       *)
LEMMA RowEnded ==
    ASSUME IInv, pc \in InTurn, row' \in Seq(Turns), DOMAIN row' = DOMAIN row,
           \A i \in DOMAIN row : i # Last => row'[i] = row[i],
           row'[Last].turn = row[Last].turn, row'[Last].usage = row[Last].usage,
           NEW life \in Lives, row'[Last].life = Sticky(row[Last].life, life),
           row'[Last].status \in Completed =>
               row'[Last].life = "completed" /\ row'[Last].answer # 0 /\ row'[Last].answer = row[Last].turn,
           pc' \notin InTurn
    PROVE  CurrentTurn' /\ OwnEvidence' /\ Final
<1>1. row[Last].status = "in_progress" /\ Last \in DOMAIN row /\ row[Last].usage \in {0, row[Last].turn}
  BY InTurnFacts
<1>2. Final
  BY <1>1 DEF Final, Sticky
<1>3. OwnEvidence'
  BY <1>1 DEF IInv, OwnEvidence
<1>4. CurrentTurn'
  BY DEF CurrentTurn
<1> QED
  BY <1>2, <1>3, <1>4

-----------------------------------------------------------------------------
(* Every step keeps the evidence of every turn its own, and what has ended  *)
(* as it was.                                                               *)
LEMMA RowsNext ==
    ASSUME IInv, Next
    PROVE  row' \in Seq(Turns) /\ CurrentTurn' /\ OwnEvidence' /\ Final
<1>t. /\ wire # <<>> => Head(wire).turn \in Nat
      /\ row \in Seq(Turns) /\ \A k \in DOMAIN srv : k \in Nat
  <2>1. wire # <<>> => Head(wire) \in Messages
    BY HeadTailProperties DEF IInv, RowsOK
  <2> QED
    BY <2>1 DEF IInv, RowsOK, Messages
<1>l. /\ TerminalLife \subseteq Lives /\ {"requested", "started", "in_progress"} \subseteq Lives
      /\ {"failed", "completed_valid", "completed_invalid"} \subseteq Statuses
      /\ {"failed", "in_progress", "requested", "started"} \cap Completed = {}
  BY DEF Lives, Statuses, Completed
<1>1. CASE \/ Start \/ RecoverDirector \/ CompactThread \/ NewThread \/ RecordSession \/ StateTooLarge
           \/ PrepareFails \/ RequestDecision \/ Rollover \/ Crash \/ StartFails
  <2>1. UNCHANGED row /\ pc' \notin InTurn
    BY <1>1 DEF Start, RecoverDirector, CompactThread, NewThread, RecordSession, StateTooLarge, PrepareFails,
                RequestDecision, AtBoundary, Rollover, Crash, StartFails, InTurn
  <2> QED
    BY <2>1, RowsUntouched
<1>2. CASE Skip \/ ServerStep \/ Stop
  <2>1. UNCHANGED <<row, pc, known, answer>>
    BY <1>2 DEF Skip, ServerStep, ServerAccepts, ServerSays, Stop, client
  <2> QED
    BY <2>1, RowsUntouched
<1>3. CASE ClientFails \/ DrainEnds
  <2>1. /\ UNCHANGED row
        /\ pc' \notin InTurn \/ (pc \in InTurn /\ pc' = "fail" /\ UNCHANGED <<known, answer>>)
    BY <1>3 DEF ClientFails, DrainEnds, client, InTurn, Awaiting
  <2> QED
    BY <2>1, RowsUntouched
<1>4. CASE Resume
  <2>1. pc' \notin InTurn /\ row' = [i \in DOMAIN row |-> RecoveredRow(row[i])]
    BY <1>4 DEF Resume, InTurn
  <2>2. /\ row' \in Seq(Turns) /\ DOMAIN row' = DOMAIN row
        /\ \A i \in DOMAIN row :
                \/ row'[i] = row[i]
                \/ /\ row[i].status = "in_progress" /\ row[i].life \notin TerminalLife
                   /\ row'[i].status = "failed_interrupted" /\ row'[i].turn = row[i].turn
                   /\ row'[i].usage = row[i].usage
    BY <1>t, <2>1, ResumeStep
  <2>3. OwnEvidence'
    BY <2>2 DEF IInv, OwnEvidence, Completed
  <2> QED
    BY <2>1, <2>2, <2>3 DEF CurrentTurn, Final
<1>5. CASE BeginTurn
  <2>1. /\ row' \in Seq(Turns) /\ Last' = Last + 1 /\ DOMAIN row' = DOMAIN row \cup {Last + 1}
        /\ Last \in Nat /\ \A i \in DOMAIN row : i # Last + 1 /\ row'[i] = row[i]
        /\ row'[Last + 1] = [status |-> "in_progress", life |-> "requested", thread |-> thread,
                             turn |-> 0, usage |-> 0, answer |-> 0]
    BY <1>5, BeginStep DEF IInv
  <2>2. known' = 0 /\ answer' = 0 /\ pc' = "send"
    BY <1>5 DEF BeginTurn
  <2>3. CurrentTurn'
    <3>1. Last' \in 1 .. Len(row')
      BY <2>1 DEF Last
    <3> QED
      BY <2>1, <2>2, <3>1 DEF CurrentTurn
  <2>4. OwnEvidence' /\ Final
    BY <2>1 DEF IInv, OwnEvidence, Final, Completed
  <2> QED
    BY <2>1, <2>3, <2>4
<1>6. CASE SendTurn
  <2>1. pc = "send" /\ pc \in InTurn /\ RecordTurnEvent("requested") /\ pc' = "ack" /\ known' = known /\ answer' = answer
    BY <1>6 DEF SendTurn, client, InTurn
  <2>2. Sticky("requested", "requested") = "requested"
    BY DEF Sticky
  <2> QED
    BY <1>l, <2>1, <2>2, InTurnFacts, EventStep, RowTouched
<1>7. CASE TurnStarted
  <2>1. PICK k \in DOMAIN srv : /\ known' = k
             /\ row' = [row EXCEPT ![Last].life = Sticky(@, "started"), ![Last].turn = k]
    BY <1>7 DEF TurnStarted
  <2>2. pc = "ack" /\ pc \in InTurn /\ pc' = "listen" /\ answer' = answer /\ k \in Nat
    BY <1>7, <1>t DEF TurnStarted, InTurn
  <2>3. Sticky("requested", "started") = "started"
    BY DEF Sticky, TerminalLife
  <2>4. /\ row' \in Seq(Turns) /\ Last' = Last /\ DOMAIN row' = DOMAIN row
        /\ \A i \in DOMAIN row : i # Last => row'[i] = row[i]
        /\ row'[Last].status = row[Last].status /\ row'[Last].turn = k
        /\ row'[Last].usage = row[Last].usage
        /\ row'[Last].life = Sticky(row[Last].life, "started")
    BY <2>1, <2>2, InTurnFacts, StartedStep
  <2> QED
    BY <1>l, <2>1, <2>2, <2>3, <2>4, InTurnFacts, RowTouched, ZenonT(30)
<1>8. CASE AgentMessage
  <2>1. /\ pc = "listen" /\ pc \in InTurn /\ RecordTurnEvent("in_progress") /\ pc' = "listen" /\ known' = known
        /\ answer' = known
    BY <1>8 DEF AgentMessage, InTurn, Correlated
  <2>2. \A old \in {"started", "in_progress"} : Sticky(old, "in_progress") = "in_progress"
    BY DEF Sticky, TerminalLife
  <2> QED
    BY <1>l, <2>1, <2>2, InTurnFacts, EventStep, RowTouched
<1>9. CASE TokenUsage
  <2>1. /\ pc \in {"listen", "usage"} /\ pc \in InTurn /\ pc' = pc /\ known' = known /\ answer' = answer
        /\ RecordUsage(IF pc = "listen" THEN "in_progress" ELSE "completed", known)
    BY <1>9 DEF TokenUsage, InTurn, Correlated, client
  <2>2. /\ \A old \in {"started", "in_progress"} : Sticky(old, "in_progress") = "in_progress"
        /\ Sticky("completed", "completed") = "completed"
    BY DEF Sticky, TerminalLife
  <2>3. CASE pc = "listen"
    BY <1>l, <2>1, <2>2, <2>3, InTurnFacts, UsageStep, RowTouched
  <2>4. CASE pc = "usage"
    BY <1>l, <2>1, <2>2, <2>4, InTurnFacts, UsageStep, RowTouched DEF TerminalLife
  <2> QED
    BY <2>1, <2>3, <2>4
<1>10. CASE TurnCompleted
  <2>1. /\ pc = "listen" /\ pc \in InTurn /\ RecordTurnEvent("completed") /\ pc' = "usage" /\ known' = known
        /\ answer' = answer
    BY <1>10 DEF TurnCompleted, InTurn, client
  <2>2. \A old \in {"started", "in_progress"} : Sticky(old, "completed") = "completed"
    BY DEF Sticky, TerminalLife
  <2> QED
    BY <1>l, <2>1, <2>2, InTurnFacts, EventStep, RowTouched DEF TerminalLife
<1>11. CASE TurnError
  <2>1. pc \in InTurn /\ pc' = "fail" /\ known' = known /\ answer' = answer
    BY <1>11 DEF TurnError, InTurn, client
  <2>2. UNCHANGED row \/ \E life \in {"failed", "aborted"} : RecordTurnEvent(life)
    BY <1>11 DEF TurnError
  <2>3. CASE UNCHANGED row
    BY <2>1, <2>3, RowsUntouched
  <2>4. ASSUME NEW life \in {"failed", "aborted"}, RecordTurnEvent(life)
        PROVE  row' \in Seq(Turns) /\ CurrentTurn' /\ OwnEvidence' /\ Final
    BY <1>l, <2>1, <2>4, InTurnFacts, EventStep, RowTouched DEF TerminalLife
  <2> QED
    BY <2>2, <2>3, <2>4
<1>12. CASE TimeOut
  <2>1. pc \in InTurn /\ pc' = "drain" /\ known' = known /\ answer' = answer /\ RecordTurnEvent("timed_out")
    BY <1>12 DEF TimeOut, MayTimeOut, InTurn, client
  <2> QED
    BY <1>l, <2>1, InTurnFacts, EventStep, RowTouched DEF TerminalLife
<1>13. CASE DrainUsage
  <2>1. /\ pc \in InTurn /\ pc' = "drain" /\ known' = known /\ answer' = answer
        /\ RecordUsage("timed_out", known)
    BY <1>13 DEF DrainUsage, Correlated, InTurn, client
  <2> QED
    BY <1>l, <2>1, InTurnFacts, UsageStep, RowTouched DEF TerminalLife
<1>14. CASE DrainEvent
  <2>1. /\ pc \in InTurn /\ pc' = "drain" /\ pc = "drain" /\ known' = known /\ answer' = answer
        /\ UNCHANGED row \/ \E life \in {"timed_out", "aborted"} : RecordTurnEvent(life)
    BY <1>14 DEF DrainEvent, InTurn, client
  <2>2. CASE UNCHANGED row
    BY <2>1, <2>2, RowsUntouched
  <2>3. ASSUME NEW life \in {"timed_out", "aborted"}, RecordTurnEvent(life)
        PROVE  row' \in Seq(Turns) /\ CurrentTurn' /\ OwnEvidence' /\ Final
    BY <1>l, <2>1, <2>3, InTurnFacts, EventStep, RowTouched DEF TerminalLife
  <2> QED
    BY <2>1, <2>2, <2>3
<1>15. CASE Shutdown \/ FailTurn
  <2>1. CASE UNCHANGED row /\ pc' \notin InTurn
    BY <2>1, RowsUntouched
  <2>2. CASE pc \in InTurn /\ pc' \notin InTurn /\ row' = [row EXCEPT ![Last] = Finished(@, "failed", "failed", 0)]
    <3>1. /\ row' \in Seq(Turns) /\ DOMAIN row' = DOMAIN row
          /\ \A i \in DOMAIN row : i # Last => row'[i] = row[i]
          /\ row'[Last].status = "failed" /\ row'[Last].turn = row[Last].turn
          /\ row'[Last].usage = row[Last].usage
          /\ row'[Last].life = Sticky(row[Last].life, "failed")
      BY <1>l, <2>2, InTurnFacts, FinishStep DEF TerminalLife
    <3> QED
      BY <1>l, <2>2, <3>1, RowEnded DEF TerminalLife
  <2> QED
    BY <1>15, <2>1, <2>2 DEF Shutdown, FailTurn, InTurn
<1>16. CASE AnswerAccepted \/ AnswerRepaired \/ AnswerRejected
  <2>1. PICK status \in {"completed_valid", "completed_invalid"} :
          /\ row' = [row EXCEPT ![Last] = Finished(@, status, "completed", answer)]
          /\ pc = "usage" /\ answer # 0 /\ pc' \notin InTurn
    BY <1>16 DEF AnswerAccepted, AnswerRepaired, AnswerRejected, Answered, InTurn
  <2>2. pc \in InTurn /\ answer = row[Last].turn /\ row[Last].life = "completed" /\ Sticky("completed", "completed") = "completed"
    BY <2>1, InTurnFacts DEF InTurn, Sticky
  <2>3. /\ row' \in Seq(Turns) /\ DOMAIN row' = DOMAIN row
        /\ \A i \in DOMAIN row : i # Last => row'[i] = row[i]
        /\ row'[Last].turn = row[Last].turn /\ row'[Last].answer = answer
        /\ row'[Last].usage = row[Last].usage
        /\ row'[Last].life = Sticky(row[Last].life, "completed")
    BY <1>l, <2>1, <2>2, InTurnFacts, FinishStep DEF TerminalLife
  <2> QED
    BY <1>l, <2>1, <2>2, <2>3, RowEnded DEF TerminalLife
<1> QED
  BY <1>1, <1>2, <1>3, <1>4, <1>5, <1>6, <1>7, <1>8, <1>9, <1>10, <1>11, <1>12, <1>13, <1>14, <1>15, <1>16
  DEF Next, DirectorStep

(* The invariant holds in every reachable state.                           *)
THEOREM Invariant == Spec => []IInv
<1>1. Init => IInv
  BY DEF Init, IInv, RowsOK, CurrentTurn, OwnEvidence, InTurn
<1>2. IInv /\ [Next]_vars => IInv'
  <2>1. CASE Next
    BY <2>1, MessagesNext, RowsNext DEF IInv, RowsOK
  <2>2. CASE UNCHANGED vars
    BY <2>2 DEF IInv, RowsOK, CurrentTurn, OwnEvidence, vars, client, Last
  <2> QED
    BY <2>1, <2>2
<1> QED
  BY <1>1, <1>2, PTL DEF Spec

(* A turn counts as completed only with the answer of the server's own turn *)
(* for it, and usage is charged to no other turn: _request, _drain and      *)
(* complete_turn, for any number of threads, repairs, timeouts and restarts.*)
THEOREM EvidenceOwn == Spec => []OwnEvidence
<1>1. IInv => OwnEvidence
  BY DEF IInv
<1> QED
  BY <1>1, Invariant, PTL

(* What is recorded of a turn that has ended is never revised.             *)
THEOREM EndedFinal == Spec => EndedTurnsFinal
<1>1. IInv /\ [Next]_vars => [Final]_vars
  BY RowsNext
<1> QED
  BY <1>1, Invariant, PTL DEF Spec, EndedTurnsFinal, Final
=============================================================================
