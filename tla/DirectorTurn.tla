---------------------------- MODULE DirectorTurn ----------------------------
(* One Director and its app-server: the sessions and turns it records, the  *)
(* requests and notifications it exchanges with the server's process, and   *)
(* what happens to them when a turn times out, the server fails, the        *)
(* operator stops the campaign or the coordinator dies.                     *)
(*                                                                          *)
(* Messages of the server arrive in order, but nothing is assumed of when,  *)
(* or whether, it sends them.  Prompts, answers and token counts are        *)
(* reduced to the server's turn they come from; a validated answer is valid *)
(* or not by a free choice.                                                 *)
EXTENDS Naturals, Sequences, FiniteSets

CONSTANTS
    Modes,          \* context modes: how a thread is kept between decisions
    MaxThreads,     \* bound on the threads of the campaign
    MaxRows,        \* bound on the turns of the campaign
    MaxAttempts,    \* bound on the execution attempts
    MaxTries,       \* provider_recovery_attempts
    RolloverAfter   \* completed turns after which a session is rolled over

ASSUME TurnsAssumption ==
    /\ Modes \subseteq {"stateless_turns", "persistent_thread", "compacted_thread"}
    /\ {MaxThreads, MaxRows, MaxAttempts, MaxTries, RolloverAfter} \subseteq Nat \ {0}

VARIABLES
    mode,      \* the campaign's context mode
    session,   \* app_server_sessions: the state of each recorded thread, oldest first
    row,       \* app_server_turns, oldest first
    pc,        \* where the coordinator's Director is
    thread,    \* its current session, an index of session
    srv,       \* the server's turns since its process was started
    wire,      \* notifications and responses the client has not read
    known,     \* the server's turn that the client knows as active, or 0
    answer,    \* the server's turn of the last agent message read, or 0
    repair,    \* the decision may still be asked again
    tries,     \* starts tried by the recovery under way
    stopping,  \* the coordinator is in its finally block
    attempts   \* execution attempts so far

client == <<known, answer, repair>>
vars == <<mode, session, row, pc, thread, srv, wire, client, tries, stopping, attempts>>

TerminalLife == {"completed", "failed", "aborted", "timed_out"}
Completed    == {"completed_valid", "completed_invalid"}
InTurn       == {"send", "ack", "listen", "usage", "drain", "fail"}
Awaiting     == {"boundary", "ack", "listen", "usage", "drain"}
NoAwait      == {"record", "rolled", "send", "fail"}    \* only a crash can come between
Last == Len(row)

Init ==
    /\ mode \in Modes
    /\ session = << >> /\ row = << >> /\ pc = "start" /\ thread = 0
    /\ srv = << >> /\ wire = << >> /\ known = 0 /\ answer = 0 /\ repair = FALSE
    /\ tries = 0 /\ stopping = FALSE /\ attempts = 1

-----------------------------------------------------------------------------
(* Rows.                                                                    *)

(* A lifecycle that has ended stays as it is, except that a turn that timed *)
(* out may be learned to have been aborted.                                 *)
StickyNever(old, new) == new            \* variant: the last event wins
Sticky(old, new) ==
    IF old \in TerminalLife /\ ~(old = "timed_out" /\ new = "aborted") THEN old ELSE new

(* record_turn_event on the current row.                                    *)
RecordTurnEvent(life) == row' = [row EXCEPT ![Last].life = Sticky(@, life)]
RecordUsage(life, k) ==
    row' = [row EXCEPT ![Last].life = Sticky(@, life), ![Last].usage = k]

(* complete_turn                                                            *)
Finished(r, status, life, k) ==
    [r EXCEPT !.status = IF @ = "in_progress" THEN status ELSE @,
              !.life = Sticky(@, life), !.answer = k]

(* close_session and record_session                                         *)
CloseSession(t, state) == [session EXCEPT ![t] = state]

-----------------------------------------------------------------------------
(* Start, recovery and end of a Director.                                   *)
NoServer == srv' = << >> /\ wire' = << >> /\ known' = 0 /\ answer' = 0

(* start: a thread is resumed only in a mode that keeps threads; otherwise  *)
(* a new one is recorded.                                                   *)
Start ==
    /\ pc = "start" /\ ~stopping
    /\ \/ /\ mode # "stateless_turns" /\ session # << >>
          /\ session' = CloseSession(Len(session), "active")
          /\ thread' = Len(session)
       \/ /\ mode = "stateless_turns" \/ session = << >>
          /\ Len(session) < MaxThreads
          /\ session' = Append(session, "active")
          /\ thread' = Len(session) + 1
    /\ pc' = "ready" /\ tries' = 0
    /\ UNCHANGED <<mode, row, srv, wire, client, stopping, attempts>>

(* _recover_director tries again; the attempt's first start does not.       *)
StartFails ==
    /\ pc = "start" /\ ~stopping
    /\ IF tries \in 1 .. MaxTries - 1
       THEN tries' = tries + 1 /\ UNCHANGED stopping
       ELSE tries' = 0 /\ stopping' = TRUE
    /\ UNCHANGED <<mode, session, row, pc, thread, srv, wire, client, attempts>>

(* director.close: the client, then the session if it is active.            *)
SessionClosed(state) ==
    IF thread # 0 /\ session[thread] = "active" THEN CloseSession(thread, state) ELSE session

RecoverDirector ==
    /\ pc = "recover" /\ ~stopping
    /\ session' = SessionClosed("closed")
    /\ NoServer
    /\ tries' = 1 /\ pc' = "start" /\ thread' = 0
    /\ UNCHANGED <<mode, row, repair, stopping, attempts>>

(* A STOP, a deadline or a fault: the cycle is cancelled, but the task that *)
(* waits for the answer goes on until the event loop is closed.             *)
Stop ==
    /\ pc \notin NoAwait \cup {"off"} /\ ~stopping
    /\ stopping' = TRUE
    /\ UNCHANGED <<mode, session, row, pc, thread, srv, wire, client, tries, attempts>>

(* The finally block closes the Director and then the store.  A server that *)
(* must be killed fails the task that waits for it while the store is still *)
(* open; one that exits does not, and the turn's row stays as it is.        *)
Shutdown ==
    /\ stopping /\ pc \notin NoAwait \cup {"off"}
    /\ session' = SessionClosed("closed")
    /\ \/ UNCHANGED row
       \/ /\ pc \in Awaiting \cap InTurn
          /\ row' = [row EXCEPT ![Last] = Finished(@, "failed", "failed", 0)]
    /\ NoServer
    /\ pc' = "off" /\ thread' = 0 /\ tries' = 0 /\ stopping' = FALSE
    /\ UNCHANGED <<mode, repair, attempts>>

Crash ==
    /\ pc # "off"
    /\ NoServer
    /\ pc' = "off" /\ thread' = 0 /\ tries' = 0 /\ stopping' = FALSE
    /\ UNCHANGED <<mode, session, row, repair, attempts>>

(* recover_interrupted_records: a turn whose lifecycle has ended keeps the  *)
(* status in_progress.                                                      *)
RecoveredRow(r) ==
    IF r.status = "in_progress" /\ r.life \notin TerminalLife
    THEN [r EXCEPT !.status = "failed_interrupted", !.life = "aborted"] ELSE r
Resume ==
    /\ pc = "off" /\ attempts < MaxAttempts
    /\ attempts' = attempts + 1
    /\ row' = [i \in DOMAIN row |-> RecoveredRow(row[i])]
    /\ session' = [t \in DOMAIN session |->
                      IF session[t] = "active" THEN "interrupted" ELSE session[t]]
    /\ pc' = "start"
    /\ UNCHANGED <<mode, thread, srv, wire, client, tries, stopping>>

-----------------------------------------------------------------------------
(* A decision: request_decision and _request.                               *)
CompletedOn(t) == Cardinality({i \in DOMAIN row : row[i].thread = t /\ row[i].status \in Completed})

(* _prepare_context_boundary: a thread that has answered is replaced, or    *)
(* compacted, or kept.                                                      *)
AtBoundary ==
    IF CompletedOn(thread) = 0 \/ mode = "persistent_thread" THEN "begin" ELSE "boundary"

RequestDecision ==
    /\ pc = "ready" /\ ~stopping /\ Last < MaxRows
    /\ pc' = AtBoundary /\ repair' = TRUE
    /\ UNCHANGED <<mode, session, row, thread, srv, wire, known, answer, tries, stopping, attempts>>

(* The state of the snapshot is compacted until it fits; if it cannot, no   *)
(* turn is begun.                                                           *)
StateTooLarge ==
    /\ pc = "ready" /\ ~stopping /\ pc' = "recover"
    /\ UNCHANGED <<mode, session, row, thread, srv, wire, client, tries, stopping, attempts>>

(* The registries and the request could not be written.                     *)
PrepareFails ==
    /\ pc = "begin" /\ pc' = "recover"
    /\ UNCHANGED <<mode, session, row, thread, srv, wire, client, tries, stopping, attempts>>

CompactThread ==
    /\ pc = "boundary" /\ mode = "compacted_thread"
    /\ pc' = "begin"
    /\ UNCHANGED <<mode, session, row, thread, srv, wire, client, tries, stopping, attempts>>

(* A new thread is started; then the old session is closed and, in another  *)
(* transaction, the new one recorded.                                       *)
NewThread ==
    /\ pc = "boundary" /\ mode = "stateless_turns" /\ Len(session) < MaxThreads
    /\ session' = CloseSession(thread, "rolled_over")
    /\ pc' = "record"
    /\ UNCHANGED <<mode, row, thread, srv, wire, client, tries, stopping, attempts>>

RolloverDue == CompletedOn(thread) >= RolloverAfter

Rollover ==
    /\ pc = "ready" /\ ~stopping /\ RolloverDue /\ Len(session) < MaxThreads
    /\ session' = CloseSession(thread, "rolled_over")
    /\ pc' = "rolled"
    /\ UNCHANGED <<mode, row, thread, srv, wire, client, tries, stopping, attempts>>

RecordSession ==
    /\ pc \in {"record", "rolled"}
    /\ session' = Append(session, "active") /\ thread' = Len(session) + 1
    /\ pc' = IF pc = "record" THEN "begin" ELSE "ready"
    /\ UNCHANGED <<mode, row, srv, wire, client, tries, stopping, attempts>>

BeginTurn ==
    /\ pc = "begin" /\ Last < MaxRows
    /\ row' = Append(row, [status |-> "in_progress", life |-> "requested", thread |-> thread,
                           turn |-> 0, usage |-> 0, answer |-> 0])
    /\ pc' = "send" /\ known' = 0 /\ answer' = 0
    /\ UNCHANGED <<mode, session, thread, srv, wire, repair, tries, stopping, attempts>>

SendTurn ==
    /\ pc = "send"
    /\ RecordTurnEvent("requested")
    /\ pc' = "ack"
    /\ UNCHANGED <<mode, session, thread, srv, wire, client, tries, stopping, attempts>>

-----------------------------------------------------------------------------
(* The app-server.  A turn is named by its place in srv.                    *)
Ended(k) == srv[k].said \cap {"done", "stopped", "error"} # {}

ServerAccepts ==
    /\ pc = "ack" /\ \A k \in DOMAIN srv : srv[k].row # Last
    /\ srv' = Append(srv, [row |-> Last, said |-> {}])
    /\ UNCHANGED <<mode, session, row, pc, thread, wire, client, tries, stopping, attempts>>

(* Usage may follow the end of a turn.                                      *)
ServerSays(k, kind) ==
    /\ kind \notin srv[k].said
    /\ kind # "usage" => ~Ended(k)
    /\ srv' = [srv EXCEPT ![k].said = @ \cup {kind}]
    /\ wire' = Append(wire, [kind |-> kind, turn |-> k])
    /\ UNCHANGED <<mode, session, row, pc, thread, client, tries, stopping, attempts>>

-----------------------------------------------------------------------------
(* The client during a turn.                                                *)
Read == wire' = Tail(wire)
Heard(kind) == wire # << >> /\ Head(wire).kind = kind

(* The response to turn/start; notifications wait in their queue for it.    *)
TurnStarted ==
    /\ pc = "ack"
    /\ \E k \in DOMAIN srv :
          /\ srv[k].row = Last
          /\ known' = k
          /\ row' = [row EXCEPT ![Last].life = Sticky(@, "started"), ![Last].turn = k]
    /\ pc' = "listen"
    /\ UNCHANGED <<mode, session, thread, srv, wire, answer, repair, tries, stopping, attempts>>

(* A notification of another turn is dropped.                               *)
CorrelatedAny == TRUE                   \* variant: every notification is taken
Correlated == Head(wire).turn = known

Skip ==
    /\ wire # << >> /\ Read
    /\ \/ pc \in {"listen", "usage", "drain"} /\ ~Correlated
       \/ pc = "usage" /\ Heard("item")
    /\ UNCHANGED <<mode, session, row, pc, thread, srv, client, tries, stopping, attempts>>

AgentMessage ==
    /\ pc = "listen" /\ Heard("item") /\ Correlated /\ Read
    /\ answer' = Head(wire).turn
    /\ RecordTurnEvent("in_progress")
    /\ UNCHANGED <<mode, session, pc, thread, srv, known, repair, tries, stopping, attempts>>

TokenUsage ==
    /\ pc \in {"listen", "usage"} /\ Heard("usage") /\ Correlated /\ Read
    /\ RecordUsage(IF pc = "listen" THEN "in_progress" ELSE "completed", Head(wire).turn)
    /\ UNCHANGED <<mode, session, pc, thread, srv, client, tries, stopping, attempts>>

TurnCompleted ==
    /\ pc = "listen" /\ Heard("done") /\ Correlated /\ Read
    /\ RecordTurnEvent("completed")
    /\ pc' = "usage"
    /\ UNCHANGED <<mode, session, thread, srv, client, tries, stopping, attempts>>

(* A terminal error, or a turn that did not complete; the client stays open.*)
TurnError ==
    /\ pc \in {"listen", "usage"} /\ (Heard("error") \/ Heard("stopped")) /\ Correlated /\ Read
    /\ IF pc = "usage" THEN UNCHANGED row
       ELSE RecordTurnEvent(IF Heard("error") THEN "failed" ELSE "aborted")
    /\ pc' = "fail"
    /\ UNCHANGED <<mode, session, thread, srv, client, tries, stopping, attempts>>

(* The server's output ends or cannot be read, or a request times out.      *)
ClientFails ==
    /\ pc \in Awaiting \ {"drain"}
    /\ pc' = IF pc = "boundary" THEN "recover" ELSE "fail"
    /\ UNCHANGED <<mode, session, row, thread, srv, wire, client, tries, stopping, attempts>>

(* The usage wait is over.  Without a message that can be parsed the turn   *)
(* has failed; an answer that is not accepted is repaired once.             *)
Answered(status) ==
    /\ pc = "usage" /\ answer # 0
    /\ row' = [row EXCEPT ![Last] = Finished(@, status, "completed", answer)]
    /\ UNCHANGED <<mode, session, thread, srv, wire, known, answer, tries, stopping, attempts>>

AnswerAccepted == Answered("completed_valid") /\ pc' = "ready" /\ UNCHANGED repair

AnswerRepaired ==
    /\ Answered("completed_invalid") /\ repair
    /\ repair' = FALSE
    /\ pc' = IF mode = "stateless_turns" THEN "boundary" ELSE "begin"

AnswerRejected == Answered("completed_invalid") /\ ~repair /\ pc' = "recover" /\ UNCHANGED repair

(* The wall timeout of a turn: the turn is interrupted, what still comes is *)
(* recorded, the client is closed.                                          *)
MayTimeOutUnacknowledged == pc = "ack"  \* variant: an accepted turn has no deadline
MayTimeOut == pc \in {"ack", "listen", "usage"}

TimeOut ==
    /\ MayTimeOut
    /\ RecordTurnEvent("timed_out")
    /\ pc' = "drain"
    /\ UNCHANGED <<mode, session, thread, srv, wire, client, tries, stopping, attempts>>

DrainUsage ==
    /\ pc = "drain" /\ Heard("usage") /\ Correlated /\ Read
    /\ RecordUsage("timed_out", Head(wire).turn)
    /\ UNCHANGED <<mode, session, pc, thread, srv, client, tries, stopping, attempts>>

DrainEvent ==
    /\ pc = "drain" /\ wire # << >> /\ Correlated /\ Read
    /\ \/ Heard("stopped") /\ RecordTurnEvent("aborted")
       \/ (Heard("item") \/ Heard("done")) /\ RecordTurnEvent("timed_out")
       \/ Heard("error") /\ UNCHANGED row
    /\ UNCHANGED <<mode, session, pc, thread, srv, client, tries, stopping, attempts>>

(* close(force), after which nothing can arrive.                            *)
DrainEnds ==
    /\ pc = "drain" /\ wire = << >>
    /\ srv' = << >> /\ pc' = "fail"
    /\ UNCHANGED <<mode, session, row, thread, wire, client, tries, stopping, attempts>>

(* The handler of any exception of a turn.                                  *)
FailTurn ==
    /\ pc = "fail"
    /\ row' = [row EXCEPT ![Last] = Finished(@, "failed", "failed", 0)]
    /\ pc' = "recover"
    /\ UNCHANGED <<mode, session, thread, srv, wire, client, tries, stopping, attempts>>

-----------------------------------------------------------------------------
DirectorStep ==
    \/ Start \/ RecoverDirector \/ Shutdown \/ CompactThread \/ NewThread \/ RecordSession
    \/ BeginTurn \/ SendTurn \/ TurnStarted \/ Skip \/ AgentMessage \/ TokenUsage
    \/ TurnCompleted \/ TurnError \/ AnswerAccepted \/ AnswerRepaired \/ AnswerRejected
    \/ TimeOut \/ DrainUsage \/ DrainEvent \/ DrainEnds \/ FailTurn

ServerStep ==
    \/ ServerAccepts
    \/ \E k \in DOMAIN srv, kind \in {"item", "usage", "done", "stopped", "error"} :
          ServerSays(k, kind)

Next ==
    \/ DirectorStep \/ ServerStep
    \/ StartFails \/ StateTooLarge \/ PrepareFails \/ ClientFails \/ RequestDecision \/ Rollover
    \/ Stop \/ Crash \/ Resume

Spec == Init /\ [][Next]_vars

(* The event loop runs and its timers fire; nothing is assumed of the       *)
(* server.                                                                  *)
FairSpec == Spec /\ WF_vars(DirectorStep)

-----------------------------------------------------------------------------
(* Every variable has its type.                                             *)
TypeOK ==
    /\ mode \in Modes
    /\ session \in Seq({"active", "closed", "rolled_over", "interrupted"})
    /\ Len(session) <= MaxThreads /\ Last <= MaxRows
    /\ \A i \in DOMAIN row :
          /\ row[i].status \in {"in_progress", "failed", "failed_interrupted"} \cup Completed
          /\ row[i].life \in {"requested", "started", "in_progress"} \cup TerminalLife
          /\ row[i].thread \in DOMAIN session
    /\ pc \in {"off", "start", "ready", "begin", "recover"} \cup NoAwait \cup InTurn \cup Awaiting
    /\ thread \in 0 .. Len(session) /\ tries \in 0 .. MaxTries
    /\ repair \in BOOLEAN /\ stopping \in BOOLEAN /\ attempts \in 1 .. MaxAttempts

(* A turn counts as completed only with an answer of the server's own turn  *)
(* for it: an answer or usage of an earlier turn of the thread, of a repair *)
(* or of a turn that was given up is never taken for it, and a turn that    *)
(* timed out or failed never counts.                                        *)
OwnEvidence ==
    \A i \in DOMAIN row :
       /\ row[i].status \in Completed =>
             row[i].life = "completed" /\ row[i].answer # 0 /\ row[i].answer = row[i].turn
       /\ row[i].usage \in {0, row[i].turn}

(* What is recorded of a turn that has ended is never revised: not by a     *)
(* late notification, the exception handler or a restart.                   *)
EndedTurnsFinal ==
    [][\A i \in DOMAIN row :
          /\ row[i].status # "in_progress" => row'[i].status = row[i].status
          /\ row[i].life \in TerminalLife =>
                \/ row'[i].life = row[i].life
                \/ row[i].life = "timed_out" /\ row'[i].life = "aborted"]_vars

(* A turn that was begun does not wait for ever, whatever the server does:  *)
(* it is completed or failed, or its coordinator is gone.                   *)
TurnEnds ==
    \A i \in 1 .. MaxRows :
       (i = Last /\ pc \in InTurn) ~> (pc = "off" \/ (i <= Last /\ row[i].status # "in_progress"))
=============================================================================
