-------------------------- MODULE AgentLoop_proofs --------------------------
(***************************************************************************)
(* Proofs about AgentLoop for any number of requests, any plans and any    *)
(* limits: first ControlInv, the facts that steer the handlers, then       *)
(* ThreadInv, what the thread and the histories of its turns contain.      *)
(***************************************************************************)
EXTENDS AgentLoop, Conversation_proofs, TLAPS

(* The places of a loop in which it has used the iteration it is in.       *)
Spent == {"llm", "tools", "park", "parked"}

(* A loop asks the model at most once per iteration: it comes to the head  *)
(* of the for loop with an unused iteration, and whatever it has asked in  *)
(* an iteration below the limit.                                           *)
BudgetOf(r) ==
    /\ pc[r] \in {"unsent", "done"} \cup Arriving => iteration[r] = 0 /\ asked[r] = 0
    /\ pc[r] \in {"top", "reflag"} => asked[r] <= iteration[r]
    /\ pc[r] \in Spent => asked[r] <= iteration[r] + 1 /\ iteration[r] < MaxIterations
    /\ asked[r] <= MaxIterations

Budget == \A r \in Request : BudgetOf(r)

(* The generation of a live loop was once the thread's.                    *)
GenerationBound == \A r \in Request : Live(r) => lgen[r] <= generation

(* r's flag, if registered, has a handler that will remove it.             *)
FlagOwned(r) ==
    r \in flagged =>
        pc[r] \in (Arriving \ {"sent"}) \cup (Running \ {"reflag"}) \/ exiting[r] > 0

(* A step that leaves r's loop alive under its generation.                 *)
Continues(r) ==
    Live(r) /\ lgen'[r] = lgen[r] /\ generation <= generation'

(* What the theorems below prove together.                                 *)
ControlInv ==
    /\ PlaceTypeOK /\ CounterTypeOK
    /\ Budget
    /\ NoFlagLeak
    /\ GenerationBound /\ OneCurrentTurn

USE DEF Goto

-----------------------------------------------------------------------------
(* One lemma for each part of the invariant: what every step does to it.   *)

(* Handlers and peer only go to places that exist.                         *)
LEMMA PlaceStep ==
    ASSUME PlaceTypeOK, [Next]_vars
    PROVE  PlaceTypeOK'
  <1> USE LimitsAssumption DEF PC, Arriving, Running, Held, Outcome, shared,
    control, data, peer, env, PlaceTypeOK
  <1>1. ASSUME NEW r \in Request, Handle(r)  PROVE PlaceTypeOK'
    <2>1. CASE RegisterFlag(r)
      BY <2>1 DEF RegisterFlag
    <2>2. CASE BeginTurn(r)
      BY <2>2 DEF BeginTurn, bump_generation
    <2>3. CASE SelectModel(r)
      BY <2>3 DEF SelectModel, Return, bump_generation, DropState, NoCalls
    <2>4. CASE LoadHistory(r)
      BY <2>4 DEF LoadHistory
    <2>5. CASE StoreQuery(r)
      BY <2>5 DEF StoreQuery, AppendQuery, ReplaceHistory
    <2>6. CASE Exhausted(r)
      BY <2>6 DEF Exhausted, EndWith
    <2>7. CASE DropSuperseded(r)
      BY <2>7 DEF DropSuperseded, Return, DropState, NoCalls
    <2>8. CASE StopCancelled(r)
      BY <2>8 DEF StopCancelled, EndWith
    <2>9. CASE AskModel(r)
      BY <2>9 DEF AskModel
    <2>10. CASE ModelUsesTools(r)
      BY <2>10 DEF ModelUsesTools, EndWith, SendFails
    <2>11. CASE ModelEndsTurn(r)
      BY <2>11 DEF ModelEndsTurn, EndWith
    <2>12. CASE ModelConnectionError(r)
      BY <2>12 DEF ModelConnectionError, NextIteration
    <2>13. CASE ModelError(r)
      BY <2>13 DEF ModelError, EndWith
    <2>14. CASE ToolsCancelled(r)
      BY <2>14 DEF ToolsCancelled, EndWith, ToolsLeft
    <2>15. CASE RunTool(r)
      BY <2>15 DEF RunTool, EndWith, ToolsLeft, SendFails
    <2>16. CASE ToolsDone(r)
      BY <2>16 DEF ToolsDone, NoCalls, NextIteration, ToolsOver
    <2>17. CASE PauseForClient(r)
      BY <2>17 DEF PauseForClient, ToolsOver
    <2>18. CASE Park(r)
      BY <2>18 DEF Park
    <2>19. CASE EndSuperseded(r)
      BY <2>19 DEF EndSuperseded, Return, DropState, NoCalls
    <2>20. CASE EndChecked(r)
      BY <2>20 DEF EndChecked
    <2>21. CASE EndCommit(r)
      BY <2>21 DEF EndCommit, Return, DropState, NoCalls
    <2>22. CASE ResumeLoop(r)
      BY <2>22 DEF ResumeLoop
    <2>23. CASE SweepPending(r)
      BY <2>23 DEF SweepPending, DropState, NoCalls
    <2>24. CASE InterruptSuperseded(r)
      BY <2>24 DEF InterruptSuperseded, DropState, NoCalls
    <2>25. CASE InterruptChecked(r)
      BY <2>25 DEF InterruptChecked
    <2>26. CASE InterruptSettle(r)
      BY <2>26 DEF InterruptSettle, DropState, NoCalls
    <2> QED  BY <1>1, <2>1, <2>2, <2>3, <2>4, <2>5, <2>6, <2>7, <2>8, <2>9,
      <2>10, <2>11, <2>12, <2>13, <2>14, <2>15, <2>16, <2>17, <2>18, <2>19,
      <2>20, <2>21, <2>22, <2>23, <2>24, <2>25, <2>26 DEF Handle
  <1>2. ASSUME NEW r \in Request, HandleFrame(r)  PROVE PlaceTypeOK'
    <2>1. CASE ResultWithoutLoop(r)
      BY <2>1 DEF ResultWithoutLoop, Received
    <2>2. CASE ResultSuperseded(r)
      BY <2>2 DEF ResultSuperseded, DropState, Received, NoCalls
    <2>3. CASE ResultAccepted(r)
      BY <2>3 DEF ResultAccepted, Received
    <2>4. CASE ResultCompletes(r)
      BY <2>4 DEF ResultCompletes, NoCalls, Received
    <2>5. CASE InterruptParked(r)
      BY <2>5 DEF InterruptParked
    <2>6. CASE InterruptNotParked(r)
      BY <2>6 DEF InterruptNotParked
    <2>7. CASE InterruptFlag(r)
      BY <2>7 DEF InterruptFlag
    <2>8. CASE InterruptTooLate(r)
      BY <2>8 DEF InterruptTooLate
    <2> QED  BY <1>2, <2>1, <2>2, <2>3, <2>4, <2>5, <2>6, <2>7, <2>8 DEF HandleFrame
  <1>3. ASSUME NEW r \in Request, Client(r)  PROVE PlaceTypeOK'
    <2>1. CASE SendChat(r)
      BY <2>1 DEF SendChat
    <2>2. CASE SendInterrupt(r)
      BY <2>2 DEF SendInterrupt
    <2>3. CASE SendToolResult(r)
      BY <2>3 DEF SendToolResult
    <2> QED  BY <1>3, <2>1, <2>2, <2>3 DEF Client
  <1>4. ASSUME NEW r \in Request, RemoveFlag(r)  PROVE PlaceTypeOK'
    BY <1>4 DEF RemoveFlag
  <1>5. CASE Disconnect
    BY <1>5 DEF Disconnect, Nothing
  <1>6. CASE Restart
    BY <1>6 DEF Restart, Zero, One, Nothing
  <1>7. CASE UNCHANGED vars
    BY <1>7 DEF vars
  <1> QED  BY <1>1, <1>2, <1>3, <1>4, <1>5, <1>6, <1>7 DEF Next

(* The counters stay within their limits; an iteration that begins was     *)
(* below the limit by Budget.                                              *)
LEMMA CounterStep ==
    ASSUME PlaceTypeOK, CounterTypeOK, Budget, [Next]_vars
    PROVE  CounterTypeOK'
  <1> USE LimitsAssumption DEF CounterTypeOK, shared, control, data, peer, env
  <1>1. ASSUME NEW r \in Request, Handle(r)  PROVE CounterTypeOK'
    <2>1. CASE RegisterFlag(r)
      BY <2>1 DEF RegisterFlag
    <2>2. CASE BeginTurn(r)
      BY <2>2 DEF BeginTurn, bump_generation
    <2>3. CASE SelectModel(r)
      BY <2>3 DEF SelectModel, Return, bump_generation, DropState, NoCalls
    <2>4. CASE LoadHistory(r)
      BY <2>4 DEF LoadHistory
    <2>5. CASE StoreQuery(r)
      BY <2>5 DEF StoreQuery, AppendQuery, ReplaceHistory
    <2>6. CASE Exhausted(r)
      BY <2>6 DEF Exhausted, EndWith
    <2>7. CASE DropSuperseded(r)
      BY <2>7 DEF DropSuperseded, Return, DropState, NoCalls
    <2>8. CASE StopCancelled(r)
      BY <2>8 DEF StopCancelled, EndWith
    <2>9. CASE AskModel(r)
      BY <2>9 DEF AskModel
    <2>10. CASE ModelUsesTools(r)
      BY <2>10 DEF ModelUsesTools, EndWith, SendFails
    <2>11. CASE ModelEndsTurn(r)
      BY <2>11 DEF ModelEndsTurn, EndWith
    <2>12. CASE ModelConnectionError(r)
      <3>1. iteration[r] < MaxIterations
        BY <2>12 DEF ModelConnectionError, Budget, BudgetOf, Spent
      <3> QED  BY <2>12, <3>1 DEF ModelConnectionError, NextIteration
    <2>13. CASE ModelError(r)
      BY <2>13 DEF ModelError, EndWith
    <2>14. CASE ToolsCancelled(r)
      BY <2>14 DEF ToolsCancelled, EndWith, ToolsLeft
    <2>15. CASE RunTool(r)
      BY <2>15 DEF RunTool, EndWith, ToolsLeft, SendFails
    <2>16. CASE ToolsDone(r)
      <3>1. iteration[r] < MaxIterations
        BY <2>16 DEF ToolsDone, ToolsOver, Budget, BudgetOf, Spent
      <3> QED  BY <2>16, <3>1 DEF ToolsDone, NoCalls, NextIteration, ToolsOver
    <2>17. CASE PauseForClient(r)
      BY <2>17 DEF PauseForClient, ToolsOver
    <2>18. CASE Park(r)
      BY <2>18 DEF Park
    <2>19. CASE EndSuperseded(r)
      BY <2>19 DEF EndSuperseded, Return, DropState, NoCalls
    <2>20. CASE EndChecked(r)
      BY <2>20 DEF EndChecked
    <2>21. CASE EndCommit(r)
      BY <2>21 DEF EndCommit, Return, DropState, NoCalls
    <2>22. CASE ResumeLoop(r)
      BY <2>22 DEF ResumeLoop
    <2>23. CASE SweepPending(r)
      BY <2>23 DEF SweepPending, DropState, NoCalls
    <2>24. CASE InterruptSuperseded(r)
      BY <2>24 DEF InterruptSuperseded, DropState, NoCalls
    <2>25. CASE InterruptChecked(r)
      BY <2>25 DEF InterruptChecked
    <2>26. CASE InterruptSettle(r)
      BY <2>26 DEF InterruptSettle, DropState, NoCalls
    <2> QED  BY <1>1, <2>1, <2>2, <2>3, <2>4, <2>5, <2>6, <2>7, <2>8, <2>9,
      <2>10, <2>11, <2>12, <2>13, <2>14, <2>15, <2>16, <2>17, <2>18, <2>19,
      <2>20, <2>21, <2>22, <2>23, <2>24, <2>25, <2>26 DEF Handle
  <1>2. ASSUME NEW r \in Request, HandleFrame(r)  PROVE CounterTypeOK'
    <2>1. CASE ResultWithoutLoop(r)
      BY <2>1 DEF ResultWithoutLoop, Received
    <2>2. CASE ResultSuperseded(r)
      BY <2>2 DEF ResultSuperseded, DropState, Received, NoCalls
    <2>3. CASE ResultAccepted(r)
      BY <2>3 DEF ResultAccepted, Received
    <2>4. CASE ResultCompletes(r)
      <3>1. iteration[r] < MaxIterations
        BY <2>4 DEF ResultCompletes, Budget, BudgetOf, Spent
      <3> QED  BY <2>4, <3>1 DEF ResultCompletes, NoCalls, Received
    <2>5. CASE InterruptParked(r)
      BY <2>5 DEF InterruptParked
    <2>6. CASE InterruptNotParked(r)
      BY <2>6 DEF InterruptNotParked
    <2>7. CASE InterruptFlag(r)
      BY <2>7 DEF InterruptFlag
    <2>8. CASE InterruptTooLate(r)
      BY <2>8 DEF InterruptTooLate
    <2> QED  BY <1>2, <2>1, <2>2, <2>3, <2>4, <2>5, <2>6, <2>7, <2>8 DEF HandleFrame
  <1>3. ASSUME NEW r \in Request, Client(r)  PROVE CounterTypeOK'
    <2>1. CASE SendChat(r)
      BY <2>1 DEF SendChat
    <2>2. CASE SendInterrupt(r)
      BY <2>2 DEF SendInterrupt
    <2>3. CASE SendToolResult(r)
      BY <2>3 DEF SendToolResult
    <2> QED  BY <1>3, <2>1, <2>2, <2>3 DEF Client
  <1>4. ASSUME NEW r \in Request, RemoveFlag(r)  PROVE CounterTypeOK'
    BY <1>4 DEF RemoveFlag
  <1>5. CASE Disconnect
    BY <1>5 DEF Disconnect, Nothing
  <1>6. CASE Restart
    BY <1>6 DEF Restart, Zero, One, Nothing
  <1>7. CASE UNCHANGED vars
    BY <1>7 DEF vars
  <1> QED  BY <1>1, <1>2, <1>3, <1>4, <1>5, <1>6, <1>7 DEF Next

(* The for loop of run_agent_loop, left at a pause and entered again by    *)
(* handle_tool_result, never spends an iteration twice.                    *)
LEMMA BudgetStep ==
    ASSUME PlaceTypeOK, CounterTypeOK, Budget, [Next]_vars
    PROVE  Budget'
  <1> SUFFICES ASSUME NEW s \in Request  PROVE BudgetOf(s)'
    BY DEF Budget
  <1>0. BudgetOf(s)
    BY DEF Budget
  <1> USE <1>0, LimitsAssumption DEF PC, Arriving, Running, Held, Outcome,
    shared, control, data, peer, env, Spent, BudgetOf, PlaceTypeOK,
    CounterTypeOK
  <1>1. ASSUME NEW r \in Request, Handle(r)  PROVE BudgetOf(s)'
    <2>1. CASE RegisterFlag(r)
      BY <2>1 DEF RegisterFlag
    <2>2. CASE BeginTurn(r)
      BY <2>2 DEF BeginTurn, bump_generation
    <2>3. CASE SelectModel(r)
      BY <2>3 DEF SelectModel, Return, bump_generation, DropState, NoCalls
    <2>4. CASE LoadHistory(r)
      BY <2>4 DEF LoadHistory
    <2>5. CASE StoreQuery(r)
      BY <2>5 DEF StoreQuery, AppendQuery, ReplaceHistory
    <2>6. CASE Exhausted(r)
      BY <2>6 DEF Exhausted, EndWith
    <2>7. CASE DropSuperseded(r)
      BY <2>7 DEF DropSuperseded, Return, DropState, NoCalls
    <2>8. CASE StopCancelled(r)
      BY <2>8 DEF StopCancelled, EndWith
    <2>9. CASE AskModel(r)
      BY <2>9 DEF AskModel
    <2>10. CASE ModelUsesTools(r)
      BY <2>10 DEF ModelUsesTools, EndWith, SendFails
    <2>11. CASE ModelEndsTurn(r)
      BY <2>11 DEF ModelEndsTurn, EndWith
    <2>12. CASE ModelConnectionError(r)
      BY <2>12 DEF ModelConnectionError, NextIteration
    <2>13. CASE ModelError(r)
      BY <2>13 DEF ModelError, EndWith
    <2>14. CASE ToolsCancelled(r)
      BY <2>14 DEF ToolsCancelled, EndWith, ToolsLeft
    <2>15. CASE RunTool(r)
      BY <2>15 DEF RunTool, EndWith, ToolsLeft, SendFails
    <2>16. CASE ToolsDone(r)
      BY <2>16 DEF ToolsDone, NoCalls, NextIteration, ToolsOver
    <2>17. CASE PauseForClient(r)
      BY <2>17 DEF PauseForClient, ToolsOver
    <2>18. CASE Park(r)
      BY <2>18 DEF Park
    <2>19. CASE EndSuperseded(r)
      BY <2>19 DEF EndSuperseded, Return, DropState, NoCalls
    <2>20. CASE EndChecked(r)
      BY <2>20 DEF EndChecked
    <2>21. CASE EndCommit(r)
      BY <2>21 DEF EndCommit, Return, DropState, NoCalls
    <2>22. CASE ResumeLoop(r)
      BY <2>22 DEF ResumeLoop
    <2>23. CASE SweepPending(r)
      BY <2>23 DEF SweepPending, DropState, NoCalls
    <2>24. CASE InterruptSuperseded(r)
      BY <2>24 DEF InterruptSuperseded, DropState, NoCalls
    <2>25. CASE InterruptChecked(r)
      BY <2>25 DEF InterruptChecked
    <2>26. CASE InterruptSettle(r)
      BY <2>26 DEF InterruptSettle, DropState, NoCalls
    <2> QED  BY <1>1, <2>1, <2>2, <2>3, <2>4, <2>5, <2>6, <2>7, <2>8, <2>9,
      <2>10, <2>11, <2>12, <2>13, <2>14, <2>15, <2>16, <2>17, <2>18, <2>19,
      <2>20, <2>21, <2>22, <2>23, <2>24, <2>25, <2>26 DEF Handle
  <1>2. ASSUME NEW r \in Request, HandleFrame(r)  PROVE BudgetOf(s)'
    <2>1. CASE ResultWithoutLoop(r)
      BY <2>1 DEF ResultWithoutLoop, Received
    <2>2. CASE ResultSuperseded(r)
      BY <2>2 DEF ResultSuperseded, DropState, Received, NoCalls
    <2>3. CASE ResultAccepted(r)
      BY <2>3 DEF ResultAccepted, Received
    <2>4. CASE ResultCompletes(r)
      BY <2>4 DEF ResultCompletes, NoCalls, Received
    <2>5. CASE InterruptParked(r)
      BY <2>5 DEF InterruptParked
    <2>6. CASE InterruptNotParked(r)
      BY <2>6 DEF InterruptNotParked
    <2>7. CASE InterruptFlag(r)
      BY <2>7 DEF InterruptFlag
    <2>8. CASE InterruptTooLate(r)
      BY <2>8 DEF InterruptTooLate
    <2> QED  BY <1>2, <2>1, <2>2, <2>3, <2>4, <2>5, <2>6, <2>7, <2>8 DEF HandleFrame
  <1>3. ASSUME NEW r \in Request, Client(r)  PROVE BudgetOf(s)'
    <2>1. CASE SendChat(r)
      BY <2>1 DEF SendChat
    <2>2. CASE SendInterrupt(r)
      BY <2>2 DEF SendInterrupt
    <2>3. CASE SendToolResult(r)
      BY <2>3 DEF SendToolResult
    <2> QED  BY <1>3, <2>1, <2>2, <2>3 DEF Client
  <1>4. ASSUME NEW r \in Request, RemoveFlag(r)  PROVE BudgetOf(s)'
    BY <1>4 DEF RemoveFlag
  <1>5. CASE Disconnect
    BY <1>5 DEF Disconnect, Nothing
  <1>6. CASE Restart
    BY <1>6 DEF Restart, Zero, One, Nothing
  <1>7. CASE UNCHANGED vars
    BY <1>7 DEF vars
  <1> QED  BY <1>1, <1>2, <1>3, <1>4, <1>5, <1>6, <1>7 DEF Next

(* A handler that stops owning its flag is one that is about to remove     *)
(* it.                                                                     *)
LEMMA FlagStep ==
    ASSUME PlaceTypeOK, CounterTypeOK, NoFlagLeak, [Next]_vars
    PROVE  NoFlagLeak'
  <1> SUFFICES ASSUME NEW s \in Request  PROVE FlagOwned(s)'
    BY PlaceStep DEF NoFlagLeak, FlagOwned, PlaceTypeOK
  <1>0. FlagOwned(s)
    BY DEF NoFlagLeak, FlagOwned
  <1> USE <1>0, LimitsAssumption DEF PC, Arriving, Running, Held, Outcome,
    shared, control, data, peer, env, FlagOwned, PlaceTypeOK, CounterTypeOK
  <1>1. ASSUME NEW r \in Request, Handle(r)  PROVE FlagOwned(s)'
    <2>1. CASE RegisterFlag(r)
      BY <2>1 DEF RegisterFlag
    <2>2. CASE BeginTurn(r)
      BY <2>2 DEF BeginTurn, bump_generation
    <2>3. CASE SelectModel(r)
      BY <2>3 DEF SelectModel, Return, bump_generation, DropState, NoCalls
    <2>4. CASE LoadHistory(r)
      BY <2>4 DEF LoadHistory
    <2>5. CASE StoreQuery(r)
      BY <2>5 DEF StoreQuery, AppendQuery, ReplaceHistory
    <2>6. CASE Exhausted(r)
      BY <2>6 DEF Exhausted, EndWith
    <2>7. CASE DropSuperseded(r)
      BY <2>7 DEF DropSuperseded, Return, DropState, NoCalls
    <2>8. CASE StopCancelled(r)
      BY <2>8 DEF StopCancelled, EndWith
    <2>9. CASE AskModel(r)
      BY <2>9 DEF AskModel
    <2>10. CASE ModelUsesTools(r)
      BY <2>10 DEF ModelUsesTools, EndWith, SendFails
    <2>11. CASE ModelEndsTurn(r)
      BY <2>11 DEF ModelEndsTurn, EndWith
    <2>12. CASE ModelConnectionError(r)
      BY <2>12 DEF ModelConnectionError, NextIteration
    <2>13. CASE ModelError(r)
      BY <2>13 DEF ModelError, EndWith
    <2>14. CASE ToolsCancelled(r)
      BY <2>14 DEF ToolsCancelled, EndWith, ToolsLeft
    <2>15. CASE RunTool(r)
      BY <2>15 DEF RunTool, EndWith, ToolsLeft, SendFails
    <2>16. CASE ToolsDone(r)
      BY <2>16 DEF ToolsDone, NoCalls, NextIteration, ToolsOver
    <2>17. CASE PauseForClient(r)
      BY <2>17 DEF PauseForClient, ToolsOver
    <2>18. CASE Park(r)
      BY <2>18 DEF Park
    <2>19. CASE EndSuperseded(r)
      BY <2>19 DEF EndSuperseded, Return, DropState, NoCalls
    <2>20. CASE EndChecked(r)
      BY <2>20 DEF EndChecked
    <2>21. CASE EndCommit(r)
      BY <2>21 DEF EndCommit, Return, DropState, NoCalls
    <2>22. CASE ResumeLoop(r)
      BY <2>22 DEF ResumeLoop
    <2>23. CASE SweepPending(r)
      BY <2>23 DEF SweepPending, DropState, NoCalls
    <2>24. CASE InterruptSuperseded(r)
      BY <2>24 DEF InterruptSuperseded, DropState, NoCalls
    <2>25. CASE InterruptChecked(r)
      BY <2>25 DEF InterruptChecked
    <2>26. CASE InterruptSettle(r)
      BY <2>26 DEF InterruptSettle, DropState, NoCalls
    <2> QED  BY <1>1, <2>1, <2>2, <2>3, <2>4, <2>5, <2>6, <2>7, <2>8, <2>9,
      <2>10, <2>11, <2>12, <2>13, <2>14, <2>15, <2>16, <2>17, <2>18, <2>19,
      <2>20, <2>21, <2>22, <2>23, <2>24, <2>25, <2>26 DEF Handle
  <1>2. ASSUME NEW r \in Request, HandleFrame(r)  PROVE FlagOwned(s)'
    <2>1. CASE ResultWithoutLoop(r)
      BY <2>1 DEF ResultWithoutLoop, Received
    <2>2. CASE ResultSuperseded(r)
      BY <2>2 DEF ResultSuperseded, DropState, Received, NoCalls
    <2>3. CASE ResultAccepted(r)
      BY <2>3 DEF ResultAccepted, Received
    <2>4. CASE ResultCompletes(r)
      BY <2>4 DEF ResultCompletes, NoCalls, Received
    <2>5. CASE InterruptParked(r)
      BY <2>5 DEF InterruptParked
    <2>6. CASE InterruptNotParked(r)
      BY <2>6 DEF InterruptNotParked
    <2>7. CASE InterruptFlag(r)
      BY <2>7 DEF InterruptFlag
    <2>8. CASE InterruptTooLate(r)
      BY <2>8 DEF InterruptTooLate
    <2> QED  BY <1>2, <2>1, <2>2, <2>3, <2>4, <2>5, <2>6, <2>7, <2>8 DEF HandleFrame
  <1>3. ASSUME NEW r \in Request, Client(r)  PROVE FlagOwned(s)'
    <2>1. CASE SendChat(r)
      BY <2>1 DEF SendChat
    <2>2. CASE SendInterrupt(r)
      BY <2>2 DEF SendInterrupt
    <2>3. CASE SendToolResult(r)
      BY <2>3 DEF SendToolResult
    <2> QED  BY <1>3, <2>1, <2>2, <2>3 DEF Client
  <1>4. ASSUME NEW r \in Request, RemoveFlag(r)  PROVE FlagOwned(s)'
    BY <1>4 DEF RemoveFlag
  <1>5. CASE Disconnect
    BY <1>5 DEF Disconnect, Nothing
  <1>6. CASE Restart
    BY <1>6 DEF Restart, Zero, One, Nothing
  <1>7. CASE UNCHANGED vars
    BY <1>7 DEF vars
  <1> QED  BY <1>1, <1>2, <1>3, <1>4, <1>5, <1>6, <1>7 DEF Next

(* A loop that is alive after a step was alive before it with the same     *)
(* generation, or has just begun.                                          *)
LEMMA LiveStep ==
    ASSUME PlaceTypeOK, CounterTypeOK, NEW s \in Request, Live(s)', [Next]_vars
    PROVE  Continues(s) \/ BeginTurn(s)
  <1> USE LimitsAssumption DEF PC, Arriving, Running, Held, Outcome, shared,
    control, data, peer, env, Live, Continues, PlaceTypeOK, CounterTypeOK
  <1>1. ASSUME NEW r \in Request, Handle(r)  PROVE Continues(s) \/ BeginTurn(s)
    <2>1. CASE RegisterFlag(r)
      BY <2>1 DEF RegisterFlag
    <2>2. CASE BeginTurn(r)
      <3>1. CASE r = s
        BY <2>2, <3>1
      <3>2. CASE r # s
        BY <2>2, <3>2 DEF BeginTurn, bump_generation
      <3> QED  BY <3>1, <3>2
    <2>3. CASE SelectModel(r)
      BY <2>3 DEF SelectModel, Return, bump_generation, DropState, NoCalls
    <2>4. CASE LoadHistory(r)
      BY <2>4 DEF LoadHistory
    <2>5. CASE StoreQuery(r)
      BY <2>5 DEF StoreQuery, AppendQuery, ReplaceHistory
    <2>6. CASE Exhausted(r)
      BY <2>6 DEF Exhausted, EndWith
    <2>7. CASE DropSuperseded(r)
      BY <2>7 DEF DropSuperseded, Return, DropState, NoCalls
    <2>8. CASE StopCancelled(r)
      BY <2>8 DEF StopCancelled, EndWith
    <2>9. CASE AskModel(r)
      BY <2>9 DEF AskModel
    <2>10. CASE ModelUsesTools(r)
      BY <2>10 DEF ModelUsesTools, EndWith, SendFails
    <2>11. CASE ModelEndsTurn(r)
      BY <2>11 DEF ModelEndsTurn, EndWith
    <2>12. CASE ModelConnectionError(r)
      BY <2>12 DEF ModelConnectionError, NextIteration
    <2>13. CASE ModelError(r)
      BY <2>13 DEF ModelError, EndWith
    <2>14. CASE ToolsCancelled(r)
      BY <2>14 DEF ToolsCancelled, EndWith, ToolsLeft
    <2>15. CASE RunTool(r)
      BY <2>15 DEF RunTool, EndWith, ToolsLeft, SendFails
    <2>16. CASE ToolsDone(r)
      BY <2>16 DEF ToolsDone, NoCalls, NextIteration, ToolsOver
    <2>17. CASE PauseForClient(r)
      BY <2>17 DEF PauseForClient, ToolsOver
    <2>18. CASE Park(r)
      BY <2>18 DEF Park
    <2>19. CASE EndSuperseded(r)
      BY <2>19 DEF EndSuperseded, Return, DropState, NoCalls
    <2>20. CASE EndChecked(r)
      BY <2>20 DEF EndChecked
    <2>21. CASE EndCommit(r)
      BY <2>21 DEF EndCommit, Return, DropState, NoCalls
    <2>22. CASE ResumeLoop(r)
      BY <2>22 DEF ResumeLoop
    <2>23. CASE SweepPending(r)
      BY <2>23 DEF SweepPending, DropState, NoCalls
    <2>24. CASE InterruptSuperseded(r)
      BY <2>24 DEF InterruptSuperseded, DropState, NoCalls
    <2>25. CASE InterruptChecked(r)
      BY <2>25 DEF InterruptChecked
    <2>26. CASE InterruptSettle(r)
      BY <2>26 DEF InterruptSettle, DropState, NoCalls
    <2> QED  BY <1>1, <2>1, <2>2, <2>3, <2>4, <2>5, <2>6, <2>7, <2>8, <2>9,
      <2>10, <2>11, <2>12, <2>13, <2>14, <2>15, <2>16, <2>17, <2>18, <2>19,
      <2>20, <2>21, <2>22, <2>23, <2>24, <2>25, <2>26 DEF Handle
  <1>2. ASSUME NEW r \in Request, HandleFrame(r)  PROVE Continues(s) \/ BeginTurn(s)
    <2>1. CASE ResultWithoutLoop(r)
      BY <2>1 DEF ResultWithoutLoop, Received
    <2>2. CASE ResultSuperseded(r)
      BY <2>2 DEF ResultSuperseded, DropState, Received, NoCalls
    <2>3. CASE ResultAccepted(r)
      BY <2>3 DEF ResultAccepted, Received
    <2>4. CASE ResultCompletes(r)
      BY <2>4 DEF ResultCompletes, NoCalls, Received
    <2>5. CASE InterruptParked(r)
      BY <2>5 DEF InterruptParked
    <2>6. CASE InterruptNotParked(r)
      BY <2>6 DEF InterruptNotParked
    <2>7. CASE InterruptFlag(r)
      BY <2>7 DEF InterruptFlag
    <2>8. CASE InterruptTooLate(r)
      BY <2>8 DEF InterruptTooLate
    <2> QED  BY <1>2, <2>1, <2>2, <2>3, <2>4, <2>5, <2>6, <2>7, <2>8 DEF HandleFrame
  <1>3. ASSUME NEW r \in Request, Client(r)  PROVE Continues(s) \/ BeginTurn(s)
    <2>1. CASE SendChat(r)
      BY <2>1 DEF SendChat
    <2>2. CASE SendInterrupt(r)
      BY <2>2 DEF SendInterrupt
    <2>3. CASE SendToolResult(r)
      BY <2>3 DEF SendToolResult
    <2> QED  BY <1>3, <2>1, <2>2, <2>3 DEF Client
  <1>4. ASSUME NEW r \in Request, RemoveFlag(r)  PROVE Continues(s) \/ BeginTurn(s)
    BY <1>4 DEF RemoveFlag
  <1>5. CASE Disconnect
    BY <1>5 DEF Disconnect, Nothing
  <1>6. CASE Restart
    BY <1>6 DEF Restart, Zero, One, Nothing
  <1>7. CASE UNCHANGED vars
    BY <1>7 DEF vars
  <1> QED  BY <1>1, <1>2, <1>3, <1>4, <1>5, <1>6, <1>7 DEF Next

(* A turn that begins gets a generation above all earlier ones.            *)
LEMMA TurnStep ==
    ASSUME PlaceTypeOK, CounterTypeOK, Budget, GenerationBound, OneCurrentTurn,
           [Next]_vars
    PROVE  GenerationBound' /\ OneCurrentTurn'
  <1>1. \A s \in Request : Live(s)' => Continues(s) \/ BeginTurn(s)
    BY LiveStep
  <1>2. ASSUME NEW s \in Request, BeginTurn(s)
        PROVE  lgen'[s] = generation' /\ generation' = generation + 1
    BY <1>2 DEF BeginTurn, bump_generation, CounterTypeOK
  <1>3. ASSUME NEW s \in Request, NEW t \in Request, BeginTurn(s), BeginTurn(t)
        PROVE  s = t
    BY <1>3 DEF BeginTurn, PlaceTypeOK
  <1>4. CounterTypeOK'
    BY CounterStep
  <1>5. GenerationBound'
    <2> SUFFICES ASSUME NEW s \in Request, Live(s)'
                 PROVE  lgen'[s] <= generation'
      BY DEF GenerationBound
    <2>1. CASE Continues(s)
      BY <1>4, <2>1 DEF Continues, GenerationBound, CounterTypeOK
    <2>2. CASE BeginTurn(s)
      BY <2>2, <1>2 DEF CounterTypeOK
    <2> QED  BY <1>1, <2>1, <2>2
  <1>6. OneCurrentTurn'
    <2> SUFFICES ASSUME NEW s \in Request, NEW t \in Request,
                        Live(s)', Live(t)', lgen'[s] = lgen'[t]
                 PROVE  s = t
      BY DEF OneCurrentTurn
    <2>1. CASE Continues(s) /\ Continues(t)
      BY <2>1 DEF Continues, OneCurrentTurn
    <2>2. ASSUME NEW u \in Request, NEW v \in Request,
                 BeginTurn(u), Continues(v), lgen'[u] = lgen'[v]
          PROVE  FALSE
      BY <2>2, <1>2 DEF Continues, GenerationBound, CounterTypeOK
    <2>3. CASE BeginTurn(s) /\ BeginTurn(t)
      BY <2>3, <1>3
    <2> QED  BY <1>1, <2>1, <2>2, <2>3
  <1> QED  BY <1>5, <1>6

-----------------------------------------------------------------------------
(* The initial states satisfy the invariant.                               *)
LEMMA InitInv == Init => ControlInv
  <1> SUFFICES ASSUME Init  PROVE ControlInv
    OBVIOUS
  <1> USE LimitsAssumption DEF Init, Zero
  <1>1. PlaceTypeOK
    BY DEF PlaceTypeOK, PC, Outcome
  <1>2. CounterTypeOK
    BY DEF CounterTypeOK
  <1>3. Budget
    BY DEF Budget, BudgetOf, Spent
  <1>4. NoFlagLeak
    BY DEF NoFlagLeak
  <1>5. \A r \in Request : ~Live(r)
    BY DEF Live, Arriving, Running, Held
  <1>6. GenerationBound /\ OneCurrentTurn
    BY <1>5 DEF GenerationBound, OneCurrentTurn
  <1> QED  BY <1>1, <1>2, <1>3, <1>4, <1>6 DEF ControlInv

(* Every step keeps it.                                                    *)
LEMMA NextInv == ControlInv /\ [Next]_vars => ControlInv'
  BY PlaceStep, CounterStep, BudgetStep, FlagStep, TurnStep DEF ControlInv

(* Every reachable state satisfies the invariant the step lemmas preserve. *)
THEOREM ControlInvHolds == Spec => []ControlInv
  BY InitInv, NextInv, PTL DEF Spec

(* The control part of TypeOK, for every number of requests: handlers are  *)
(* at places of the code, and the counters of a turn within the limits of  *)
(* run_agent_loop.                                                         *)
THEOREM ControlTypeCorrect == Spec => [](PlaceTypeOK /\ CounterTypeOK)
  <1>1. ControlInv => PlaceTypeOK /\ CounterTypeOK
    BY DEF ControlInv
  <1> QED  BY <1>1, ControlInvHolds, PTL

(* A turn asks the model at most max_iterations times, however often it is *)
(* paused for client tools, resumed by handle_tool_result or retried after *)
(* a connection error.                                                     *)
THEOREM ModelCallsAreBounded == Spec => []ModelCallsBounded
  <1>1. ControlInv => ModelCallsBounded
    BY DEF ControlInv, Budget, BudgetOf, ModelCallsBounded
  <1> QED  BY <1>1, ControlInvHolds, PTL

(* cancel_flags holds no flag that no handler will remove, over pauses,    *)
(* resumptions, interrupts, sweeps and lost connections.                   *)
THEOREM FlagsDoNotLeak == Spec => []NoFlagLeak
  <1>1. ControlInv => NoFlagLeak
    BY DEF ControlInv
  <1> QED  BY <1>1, ControlInvHolds, PTL

(* No two live loops of a thread share a generation, so bump_generation    *)
(* really supersedes every earlier turn.                                   *)
THEOREM TurnsAreDistinct == Spec => []OneCurrentTurn
  <1>1. ControlInv => OneCurrentTurn
    BY DEF ControlInv
  <1> QED  BY <1>1, ControlInvHolds, PTL

-----------------------------------------------------------------------------
(* What the thread contains.                                               *)

(* Who runs a tool.                                                        *)
Kinds == {"client", "daemon"}

(* The ids of tool calls, and the messages that are written about them.    *)
CallIds == Request \X Nat \X Nat
Msgs == Proper(CallIds, Texts)

(* The tool calls of each request, ...                                     *)
CallShape ==
    /\ plan \in [Request -> Seq(Kinds)] /\ at \in [Request -> Nat]
    /\ done \in [Request -> SUBSET CallIds]
    /\ todo \in [Request -> SUBSET CallIds] /\ inflight \in [Request -> SUBSET CallIds]

(* ... and the messages of the thread and of each history.                 *)
ThreadShape ==
    /\ conv \in Seq(Msgs) /\ hist \in [Request -> Seq(Msgs)] /\ saved \in [Request -> Nat]

(* Where a loop has no tool call under way, where its history ends in the  *)
(* user's query, and where in a reply that calls tools.                    *)
Idling == {"unsent", "done", "top", "llm", "reflag"} \cup Arriving
Loaded == {"append", "replace", "top", "llm", "reflag"}
Calling == {"tools", "park", "parked", "taken"}

(* The calls of the daemon's own tools in front of index n of the reply.   *)
DaemonCalls(r, n) == {CallId(r, i) : i \in {j \in DOMAIN plan[r] : j < n /\ plan[r][j] = "daemon"}}

(* The results a loop holds are of calls of its reply: while it goes       *)
(* through the reply, of the daemon's tools it has passed; while it is     *)
(* parked, of calls the client neither has to run (todo) nor has sent the  *)
(* result of (inflight).                                                   *)
CallsOf(r) ==
    /\ pc[r] \in Idling => plan[r] = <<>> /\ done[r] = {}
    /\ done[r] \subseteq Calls(r)
    /\ pc[r] = "tools" => at[r] \in 1 .. Len(plan[r]) + 1 /\ done[r] = DaemonCalls(r, at[r])
    /\ pc[r] = "park" => done[r] \cap ClientCalls(r) = {}
    /\ pc[r] \in {"unsent"} \cup Arriving \cup Running => todo[r] = {} /\ inflight[r] = {}
    /\ pc[r] = "parked" => /\ todo[r] \cup inflight[r] \subseteq Calls(r) \ done[r]
                           /\ todo[r] \cap inflight[r] = {}

(* The history ends in a user message, ...                                 *)
EndsInQuery(h) == h # <<>> /\ is_user_message(Last(h))

(* ... or in the reply whose tools are being called.                       *)
Called(r) == hist[r] # <<>> /\ Last(hist[r]) = AssistantUses(Calls(r))

(* A history is answered up to its end at any time, stale writes or not,   *)
(* and its end fits the place the loop is at: what is appended next        *)
(* belongs there.                                                          *)
HistoryOf(r) ==
    /\ AnsweredWithin(hist[r])
    /\ pc[r] \in Loaded => EndsInQuery(hist[r])
    /\ pc[r] \in Calling => Called(r)
    /\ pc[r] = "check" => /\ outcome[r] # "none"
                          /\ outcome[r] \in {"answer", "truncated"} => EndsInQuery(hist[r])
                          /\ outcome[r] = "cancelled" => Called(r)
                          /\ outcome[r] = "sanitized" => EndsInQuery(hist[r]) \/ Called(r)

(* Where a turn that is not superseded knows the stored thread: it is the  *)
(* saved part of its history.                                              *)
Owning == Running \cup Held \cup {"parked"}

(* Before the query is stored the thread is still the one that was loaded. *)
Owns(r) ==
    /\ pc[r] \in Owning /\ ~superseded(r) =>
          saved[r] <= Len(hist[r]) /\ conv = SubSeq(hist[r], 1, saved[r])
    /\ pc[r] \in {"append", "replace"} /\ ~superseded(r) =>
          hist[r] = AddQuery(Repaired(conv), QueryText[r])
    /\ pc[r] = "append" /\ ~superseded(r) => conv = Front(hist[r])

(* As long as no superseded turn has written, the thread and every history *)
(* are orderly and the current turn knows the thread.                      *)
OwnInv == ~stale => Orderly(conv) /\ \A r \in Request : Orderly(hist[r]) /\ Owns(r)

(* The calls of every request, ...                                         *)
CallInv == \A r \in Request : CallsOf(r)

(* ... and every history.                                                  *)
HistInv == \A r \in Request : HistoryOf(r)

(* A step that leaves the loop of s alone.                                 *)
Stays(s) ==
    /\ pc'[s] = pc[s] /\ outcome'[s] = outcome[s] /\ iteration'[s] = iteration[s]
    /\ plan'[s] = plan[s] /\ at'[s] = at[s] /\ done'[s] = done[s]
    /\ todo'[s] = todo[s] /\ inflight'[s] = inflight[s]
    /\ hist'[s] = hist[s] /\ saved'[s] = saved[s] /\ lgen'[s] = lgen[s]

-----------------------------------------------------------------------------
(* Tool calls.                                                             *)

(* A handler, a frame or the client of one request leaves the loops of the *)
(* others alone.                                                           *)
LEMMA OthersStay ==
    ASSUME PlaceTypeOK, CounterTypeOK, CallShape, ThreadShape, NEW s \in Request, NEW r \in Request, r # s,
           Handle(r) \/ HandleFrame(r) \/ Client(r) \/ RemoveFlag(r)
    PROVE  Stays(s)
  <1> USE DEF PlaceTypeOK, CounterTypeOK, CallShape, ThreadShape, Stays, shared,
    control, data, peer, env
  <1>1. CASE Handle(r)
    <2>1. CASE RegisterFlag(r)
      BY <2>1 DEF RegisterFlag
    <2>2. CASE BeginTurn(r)
      BY <2>2 DEF BeginTurn, bump_generation
    <2>3. CASE SelectModel(r)
      BY <2>3 DEF SelectModel, Return, bump_generation, DropState, NoCalls
    <2>4. CASE LoadHistory(r)
      BY <2>4 DEF LoadHistory
    <2>5. CASE StoreQuery(r)
      BY <2>5 DEF StoreQuery, AppendQuery, ReplaceHistory
    <2>6. CASE Exhausted(r)
      BY <2>6 DEF Exhausted, EndWith
    <2>7. CASE DropSuperseded(r)
      BY <2>7 DEF DropSuperseded, Return, DropState, NoCalls
    <2>8. CASE StopCancelled(r)
      BY <2>8 DEF StopCancelled, EndWith
    <2>9. CASE AskModel(r)
      BY <2>9 DEF AskModel
    <2>10. CASE ModelUsesTools(r)
      <3>1. \E p, h : plan' = [plan EXCEPT ![r] = p] /\ hist' = [hist EXCEPT ![r] = h]
        BY <2>10 DEF ModelUsesTools
      <3>4. \/ pc' = [pc EXCEPT ![r] = "tools"] /\ outcome' = outcome
            \/ pc' = [pc EXCEPT ![r] = "check"] /\ outcome' = [outcome EXCEPT ![r] = "sanitized"]
        BY <2>10, Zenon DEF ModelUsesTools, EndWith
      <3>2. pc'[s] = pc[s] /\ outcome'[s] = outcome[s]
        BY ONLY <3>4, r # s, s \in Request, r \in Request, pc \in [Request -> PC],
            outcome \in [Request -> Outcome]
      <3>3. /\ at' = [at EXCEPT ![r] = 1] /\ done' = [done EXCEPT ![r] = {}]
            /\ UNCHANGED <<iteration, todo, inflight, saved, lgen>>
        BY <2>10 DEF ModelUsesTools
      <3> QED  BY <3>1, <3>2, <3>3
    <2>11. CASE ModelEndsTurn(r)
      BY <2>11 DEF ModelEndsTurn, EndWith
    <2>12. CASE ModelConnectionError(r)
      BY <2>12 DEF ModelConnectionError, NextIteration
    <2>13. CASE ModelError(r)
      BY <2>13 DEF ModelError, EndWith
    <2>14. CASE ToolsCancelled(r)
      BY <2>14 DEF ToolsCancelled, EndWith, ToolsLeft
    <2>15. CASE RunTool(r)
      BY <2>15 DEF RunTool, EndWith, ToolsLeft, SendFails
    <2>16. CASE ToolsDone(r)
      BY <2>16 DEF ToolsDone, NoCalls, NextIteration, ToolsOver
    <2>17. CASE PauseForClient(r)
      BY <2>17 DEF PauseForClient, ToolsOver
    <2>18. CASE Park(r)
      BY <2>18 DEF Park
    <2>19. CASE EndSuperseded(r)
      BY <2>19 DEF EndSuperseded, Return, DropState, NoCalls
    <2>20. CASE EndChecked(r)
      BY <2>20 DEF EndChecked
    <2>21. CASE EndCommit(r)
      BY <2>21 DEF EndCommit, Return, DropState, NoCalls
    <2>22. CASE ResumeLoop(r)
      BY <2>22 DEF ResumeLoop
    <2>23. CASE SweepPending(r)
      BY <2>23 DEF SweepPending, DropState, NoCalls
    <2>24. CASE InterruptSuperseded(r)
      BY <2>24 DEF InterruptSuperseded, DropState, NoCalls
    <2>25. CASE InterruptChecked(r)
      BY <2>25 DEF InterruptChecked
    <2>26. CASE InterruptSettle(r)
      BY <2>26 DEF InterruptSettle, DropState, NoCalls
    <2> QED  BY <1>1, <2>1, <2>2, <2>3, <2>4, <2>5, <2>6, <2>7, <2>8, <2>9,
      <2>10, <2>11, <2>12, <2>13, <2>14, <2>15, <2>16, <2>17, <2>18, <2>19,
      <2>20, <2>21, <2>22, <2>23, <2>24, <2>25, <2>26 DEF Handle
  <1>2. CASE HandleFrame(r)
    <2>1. CASE ResultWithoutLoop(r)
      BY <2>1 DEF ResultWithoutLoop, Received
    <2>2. CASE ResultSuperseded(r)
      BY <2>2 DEF ResultSuperseded, DropState, Received, NoCalls
    <2>3. CASE ResultAccepted(r)
      BY <2>3 DEF ResultAccepted, Received
    <2>4. CASE ResultCompletes(r)
      BY <2>4 DEF ResultCompletes, NoCalls, Received
    <2>5. CASE InterruptParked(r)
      BY <2>5 DEF InterruptParked
    <2>6. CASE InterruptNotParked(r)
      BY <2>6 DEF InterruptNotParked
    <2>7. CASE InterruptFlag(r)
      BY <2>7 DEF InterruptFlag
    <2>8. CASE InterruptTooLate(r)
      BY <2>8 DEF InterruptTooLate
    <2> QED  BY <1>2, <2>1, <2>2, <2>3, <2>4, <2>5, <2>6, <2>7,
      <2>8 DEF HandleFrame
  <1>3. CASE Client(r)
    <2>1. CASE SendChat(r)
      BY <2>1 DEF SendChat
    <2>2. CASE SendInterrupt(r)
      BY <2>2 DEF SendInterrupt
    <2>3. CASE SendToolResult(r)
      BY <2>3 DEF SendToolResult
    <2> QED  BY <1>3, <2>1, <2>2, <2>3 DEF Client
  <1>4. CASE RemoveFlag(r)
    BY <1>4 DEF RemoveFlag
  <1> QED  BY <1>1, <1>2, <1>3, <1>4

(* A call has an id.                                                       *)
LEMMA CallIdsAre ==
    ASSUME CounterTypeOK, NEW r \in Request, NEW i \in Nat
    PROVE  CallId(r, i) \in CallIds
  BY LimitsAssumption DEF CounterTypeOK, CallId, CallIds

(* The calls of a reply, the client's among them, have ids.                *)
LEMMA CallsAre ==
    ASSUME CounterTypeOK, CallShape, NEW r \in Request
    PROVE  Calls(r) \subseteq CallIds /\ ClientCalls(r) \subseteq Calls(r)
  <1>1. plan[r] \in Seq(Kinds)  BY DEF CallShape
  <1>2. DOMAIN plan[r] \subseteq Nat  BY <1>1
  <1>3. \A i \in DOMAIN plan[r] : CallId(r, i) \in CallIds  BY <1>2, CallIdsAre
  <1> QED  BY <1>3 DEF Calls, ClientCalls

(* The calls depend only on the reply and the iteration.                   *)
LEMMA CallsStay ==
    ASSUME NEW s, plan'[s] = plan[s], iteration'[s] = iteration[s]
    PROVE  /\ Calls(s)' = Calls(s) /\ ClientCalls(s)' = ClientCalls(s)
           /\ \A n \in Nat : DaemonCalls(s, n)' = DaemonCalls(s, n)
  BY DEF Calls, ClientCalls, DaemonCalls, CallId

(* A loop that is left alone keeps its calls.                              *)
LEMMA StaysCalls ==
    ASSUME NEW s \in Request, CallShape, CallsOf(s), Stays(s)
    PROVE  CallsOf(s)'
  <1>1. /\ Calls(s)' = Calls(s) /\ ClientCalls(s)' = ClientCalls(s)
        /\ \A n \in Nat : DaemonCalls(s, n)' = DaemonCalls(s, n)
    BY CallsStay DEF Stays
  <1>2. at[s] \in Nat  BY DEF CallShape
  <1>3. at'[s] = at[s]  BY DEF Stays
  <1>4. DaemonCalls(s, at[s])' = DaemonCalls(s, at[s])
    <2>1. DaemonCalls(s, at[s])' = {CallId(s, i)' : i \in {j \in DOMAIN plan'[s] : j < at'[s] /\ plan'[s][j] = "daemon"}}
      BY DEF DaemonCalls
    <2> QED  BY <1>3, <2>1 DEF Stays, DaemonCalls, CallId
  <1> QED  BY <1>1, <1>4 DEF CallsOf, Stays

(* Every step keeps the shape of the calls.                                *)
LEMMA CallShapeStep ==
    ASSUME PlaceTypeOK, CounterTypeOK, CallShape, [Next]_vars
    PROVE  CallShape'
  <1> USE LimitsAssumption DEF PlaceTypeOK, CounterTypeOK, CallShape, shared,
    control, data, peer, env
  <1>1. ASSUME NEW r \in Request, Handle(r)  PROVE CallShape'
    <2>1. CASE RegisterFlag(r)
      BY <2>1 DEF RegisterFlag
    <2>2. CASE BeginTurn(r)
      BY <2>2 DEF BeginTurn, bump_generation
    <2>3. CASE SelectModel(r)
      BY <2>3 DEF SelectModel, Return, bump_generation, DropState, NoCalls
    <2>4. CASE LoadHistory(r)
      BY <2>4 DEF LoadHistory
    <2>5. CASE StoreQuery(r)
      BY <2>5 DEF StoreQuery, AppendQuery, ReplaceHistory
    <2>6. CASE Exhausted(r)
      BY <2>6 DEF Exhausted, EndWith
    <2>7. CASE DropSuperseded(r)
      BY <2>7 DEF DropSuperseded, Return, DropState, NoCalls
    <2>8. CASE StopCancelled(r)
      BY <2>8 DEF StopCancelled, EndWith
    <2>9. CASE AskModel(r)
      BY <2>9 DEF AskModel
    <2>10. CASE ModelUsesTools(r)
      <3>1. PICK p \in Plans : plan' = [plan EXCEPT ![r] = p]
        BY <2>10 DEF ModelUsesTools
      <3>2. p \in Seq(Kinds)  BY PlansAssumption DEF Kinds
      <3>3. /\ at' = [at EXCEPT ![r] = 1] /\ done' = [done EXCEPT ![r] = {}]
            /\ UNCHANGED <<todo, inflight>>
        BY <2>10 DEF ModelUsesTools
      <3> QED  BY <3>1, <3>2, <3>3
    <2>11. CASE ModelEndsTurn(r)
      BY <2>11 DEF ModelEndsTurn, EndWith
    <2>12. CASE ModelConnectionError(r)
      BY <2>12 DEF ModelConnectionError, NextIteration
    <2>13. CASE ModelError(r)
      BY <2>13 DEF ModelError, EndWith
    <2>14. CASE ToolsCancelled(r)
      BY <2>14 DEF ToolsCancelled, EndWith, ToolsLeft
    <2>15. CASE RunTool(r)
      <3>1. CallId(r, at[r]) \in CallIds  BY CallIdsAre
      <3>2. at[r] + 1 \in Nat  OBVIOUS
      <3>4. \/ at' = [at EXCEPT ![r] = @ + 1] /\ \E d \in {done[r] \cup {CallId(r, at[r])}, done[r]} :
                   done' = [done EXCEPT ![r] = d]
            \/ at' = at /\ done' = done
        BY <2>15 DEF RunTool
      <3>5. done[r] \cup {CallId(r, at[r])} \in SUBSET CallIds /\ done[r] \in SUBSET CallIds
        BY <3>1
      <3>3. done' \in [Request -> SUBSET CallIds] /\ at' \in [Request -> Nat]
        <4>1. CASE at' = at /\ done' = done  BY <4>1
        <4>2. ASSUME at' = [at EXCEPT ![r] = @ + 1],
                     NEW d \in SUBSET CallIds, done' = [done EXCEPT ![r] = d]
              PROVE  done' \in [Request -> SUBSET CallIds] /\ at' \in [Request -> Nat]
          BY <3>2, <4>2
        <4> QED  BY ONLY <3>4, <3>5, <4>1, <4>2
      <3> QED  BY <2>15, <3>3 DEF RunTool
    <2>16. CASE ToolsDone(r)
      BY <2>16 DEF ToolsDone, NoCalls, NextIteration, ToolsOver
    <2>17. CASE PauseForClient(r)
      BY <2>17 DEF PauseForClient, ToolsOver
    <2>18. CASE Park(r)
      <3>1. ClientCalls(r) \subseteq CallIds  BY CallsAre
      <3> QED  BY <2>18, <3>1 DEF Park
    <2>19. CASE EndSuperseded(r)
      BY <2>19 DEF EndSuperseded, Return, DropState, NoCalls
    <2>20. CASE EndChecked(r)
      BY <2>20 DEF EndChecked
    <2>21. CASE EndCommit(r)
      BY <2>21 DEF EndCommit, Return, DropState, NoCalls
    <2>22. CASE ResumeLoop(r)
      BY <2>22 DEF ResumeLoop
    <2>23. CASE SweepPending(r)
      BY <2>23 DEF SweepPending, DropState, NoCalls
    <2>24. CASE InterruptSuperseded(r)
      BY <2>24 DEF InterruptSuperseded, DropState, NoCalls
    <2>25. CASE InterruptChecked(r)
      BY <2>25 DEF InterruptChecked
    <2>26. CASE InterruptSettle(r)
      BY <2>26 DEF InterruptSettle, DropState, NoCalls
    <2> QED  BY <1>1, <2>1, <2>2, <2>3, <2>4, <2>5, <2>6, <2>7, <2>8, <2>9,
      <2>10, <2>11, <2>12, <2>13, <2>14, <2>15, <2>16, <2>17, <2>18, <2>19,
      <2>20, <2>21, <2>22, <2>23, <2>24, <2>25, <2>26 DEF Handle
  <1>2. ASSUME NEW r \in Request, HandleFrame(r)  PROVE CallShape'
    <2>1. CASE ResultWithoutLoop(r)
      BY <2>1 DEF ResultWithoutLoop, Received
    <2>2. CASE ResultSuperseded(r)
      BY <2>2 DEF ResultSuperseded, DropState, Received, NoCalls
    <2>3. CASE ResultAccepted(r)
      BY <2>3 DEF ResultAccepted, Received
    <2>4. CASE ResultCompletes(r)
      BY <2>4 DEF ResultCompletes, NoCalls, Received
    <2>5. CASE InterruptParked(r)
      BY <2>5 DEF InterruptParked
    <2>6. CASE InterruptNotParked(r)
      BY <2>6 DEF InterruptNotParked
    <2>7. CASE InterruptFlag(r)
      BY <2>7 DEF InterruptFlag
    <2>8. CASE InterruptTooLate(r)
      BY <2>8 DEF InterruptTooLate
    <2> QED  BY <1>2, <2>1, <2>2, <2>3, <2>4, <2>5, <2>6, <2>7,
      <2>8 DEF HandleFrame
  <1>3. ASSUME NEW r \in Request, Client(r)  PROVE CallShape'
    <2>1. CASE SendChat(r)
      BY <2>1 DEF SendChat
    <2>2. CASE SendInterrupt(r)
      BY <2>2 DEF SendInterrupt
    <2>3. CASE SendToolResult(r)
      <3>1. PICK t \in todo[r] : /\ inflight' = [inflight EXCEPT ![r] = {t}]
                                 /\ todo' = [todo EXCEPT ![r] = @ \ {t}]
        BY <2>3 DEF SendToolResult
      <3> QED  BY <2>3, <3>1 DEF SendToolResult
    <2> QED  BY <1>3, <2>1, <2>2, <2>3 DEF Client
  <1>4. ASSUME NEW r \in Request, RemoveFlag(r)  PROVE CallShape'
    BY <1>4 DEF RemoveFlag
  <1>5. CASE Disconnect
    BY <1>5 DEF Disconnect, Nothing
  <1>6. CASE Restart
    BY <1>6 DEF Restart, Zero, One, Nothing
  <1>7. CASE UNCHANGED vars
    BY <1>7 DEF vars
  <1> QED  BY <1>1, <1>2, <1>3, <1>4, <1>5, <1>6, <1>7 DEF Next

(* A loop without calls has nothing to do for them.                        *)
LEMMA NoCallsLeft ==
    ASSUME NEW r \in Request, plan'[r] = <<>>, done'[r] = {}, pc'[r] \in {"done", "top", "reflag"},
           pc'[r] # "done" => todo'[r] = {} /\ inflight'[r] = {}
    PROVE  CallsOf(r)'
  BY DEF CallsOf, Idling, Arriving, Running

(* Every step of r keeps the results of r's loop in line with its calls.   *)
LEMMA CallStep ==
    ASSUME PlaceTypeOK, CounterTypeOK, CallShape, NEW r \in Request, CallsOf(r),
           Handle(r) \/ HandleFrame(r) \/ Client(r) \/ RemoveFlag(r)
    PROVE  CallsOf(r)'
  <1> USE DEF PlaceTypeOK, CounterTypeOK, CallShape, CallsOf, Idling, Arriving,
    Running, Held, PC,
    shared, control, data, peer, env
  <1>1. CASE Handle(r)
    <2>1. CASE RegisterFlag(r)
      <3>1. plan'[r] = plan[r] /\ iteration'[r] = iteration[r]
        BY <2>1 DEF RegisterFlag
      <3>2. /\ Calls(r)' = Calls(r) /\ ClientCalls(r)' = ClientCalls(r)
        BY ONLY <3>1, CallsStay
      <3> QED  BY <2>1, <3>1, <3>2 DEF RegisterFlag
    <2>2. CASE BeginTurn(r)
      <3>1. plan'[r] = plan[r] /\ iteration'[r] = iteration[r]
        BY <2>2 DEF BeginTurn, bump_generation
      <3>2. /\ Calls(r)' = Calls(r) /\ ClientCalls(r)' = ClientCalls(r)
        BY ONLY <3>1, CallsStay
      <3> QED  BY <2>2, <3>1, <3>2 DEF BeginTurn, bump_generation
    <2>3. CASE SelectModel(r)
      BY <2>3, NoCallsLeft DEF SelectModel, Return, bump_generation, DropState,
          NoCalls
    <2>4. CASE LoadHistory(r)
      <3>1. plan'[r] = plan[r] /\ iteration'[r] = iteration[r]
        BY <2>4 DEF LoadHistory
      <3>2. /\ Calls(r)' = Calls(r) /\ ClientCalls(r)' = ClientCalls(r)
        BY ONLY <3>1, CallsStay
      <3> QED  BY <2>4, <3>1, <3>2 DEF LoadHistory
    <2>5. CASE StoreQuery(r)
      <3>1. plan'[r] = plan[r] /\ iteration'[r] = iteration[r]
        BY <2>5 DEF StoreQuery, AppendQuery, ReplaceHistory
      <3>2. /\ Calls(r)' = Calls(r) /\ ClientCalls(r)' = ClientCalls(r)
        BY ONLY <3>1, CallsStay
      <3> QED  BY <2>5, <3>1, <3>2 DEF StoreQuery, AppendQuery, ReplaceHistory
    <2>6. CASE Exhausted(r)
      <3>1. plan'[r] = plan[r] /\ iteration'[r] = iteration[r]
        BY <2>6 DEF Exhausted, EndWith
      <3>2. /\ Calls(r)' = Calls(r) /\ ClientCalls(r)' = ClientCalls(r)
        BY ONLY <3>1, CallsStay
      <3> QED  BY <2>6, <3>1, <3>2 DEF Exhausted, EndWith
    <2>7. CASE DropSuperseded(r)
      BY <2>7, NoCallsLeft DEF DropSuperseded, Return, DropState, NoCalls
    <2>8. CASE StopCancelled(r)
      <3>1. plan'[r] = plan[r] /\ iteration'[r] = iteration[r]
        BY <2>8 DEF StopCancelled, EndWith
      <3>2. /\ Calls(r)' = Calls(r) /\ ClientCalls(r)' = ClientCalls(r)
        BY ONLY <3>1, CallsStay
      <3> QED  BY <2>8, <3>1, <3>2 DEF StopCancelled, EndWith
    <2>9. CASE AskModel(r)
      <3>1. plan'[r] = plan[r] /\ iteration'[r] = iteration[r]  BY <2>9 DEF AskModel
      <3>2. /\ Calls(r)' = Calls(r) /\ ClientCalls(r)' = ClientCalls(r)
        BY ONLY <3>1, CallsStay
      <3> QED  BY <2>9, <3>1, <3>2 DEF AskModel
    <2>10. CASE ModelUsesTools(r)
      <3>1. PICK p \in Plans : plan' = [plan EXCEPT ![r] = p]
        BY <2>10 DEF ModelUsesTools
      <3>2. p \in Seq(Kinds)  BY PlansAssumption DEF Kinds
      <3>3. /\ at'[r] = 1 /\ done'[r] = {} /\ todo'[r] = {} /\ inflight'[r] = {}
            /\ plan'[r] = p /\ iteration'[r] = iteration[r]
        BY <2>10, <3>1 DEF ModelUsesTools
      <3>4. \/ pc' = [pc EXCEPT ![r] = "tools"]
            \/ pc' = [pc EXCEPT ![r] = "check"]
        BY <2>10, Zenon DEF ModelUsesTools, EndWith
      <3>5. pc'[r] \in {"tools", "check"}
        BY ONLY <3>4, r \in Request, pc \in [Request -> PC]
      <3>6. 1 \in 1 .. Len(p) + 1 /\ {j \in DOMAIN p : j < 1 /\ p[j] = "daemon"} = {}
        BY <3>2
      <3>7. DaemonCalls(r, at[r])' = {}  BY <3>3, <3>6 DEF DaemonCalls
      <3> QED  BY <3>3, <3>5, <3>6, <3>7
    <2>11. CASE ModelEndsTurn(r)
      <3>1. plan'[r] = plan[r] /\ iteration'[r] = iteration[r]
        BY <2>11 DEF ModelEndsTurn, EndWith
      <3>2. /\ Calls(r)' = Calls(r) /\ ClientCalls(r)' = ClientCalls(r)
        BY ONLY <3>1, CallsStay
      <3> QED  BY <2>11, <3>1, <3>2 DEF ModelEndsTurn, EndWith
    <2>12. CASE ModelConnectionError(r)
      BY <2>12, NoCallsLeft DEF ModelConnectionError, NextIteration
    <2>13. CASE ModelError(r)
      <3>1. plan'[r] = plan[r] /\ iteration'[r] = iteration[r]
        BY <2>13 DEF ModelError, EndWith
      <3>2. /\ Calls(r)' = Calls(r) /\ ClientCalls(r)' = ClientCalls(r)
        BY ONLY <3>1, CallsStay
      <3> QED  BY <2>13, <3>1, <3>2 DEF ModelError, EndWith
    <2>14. CASE ToolsCancelled(r)
      <3>1. plan'[r] = plan[r] /\ iteration'[r] = iteration[r]
        BY <2>14 DEF ToolsCancelled, EndWith, ToolsLeft
      <3>2. /\ Calls(r)' = Calls(r) /\ ClientCalls(r)' = ClientCalls(r)
        BY ONLY <3>1, CallsStay
      <3> QED  BY <2>14, <3>1, <3>2 DEF ToolsCancelled, EndWith, ToolsLeft
    <2>15. CASE RunTool(r)
      <3>1. plan'[r] = plan[r] /\ iteration'[r] = iteration[r] /\ todo'[r] = todo[r] /\ inflight'[r] = inflight[r]
        BY <2>15 DEF RunTool
      <3>2. Calls(r)' = Calls(r)  BY ONLY <3>1, CallsStay
      <3>3. /\ at[r] \in 1 .. Len(plan[r]) /\ done[r] = DaemonCalls(r, at[r]) /\ pc[r] = "tools" /\ plan[r] \in Seq(Kinds)
            /\ DOMAIN plan[r] = 1 .. Len(plan[r])
        BY <2>15 DEF RunTool, ToolsLeft
      <3>4. PICK a : a = at[r]  OBVIOUS
      <3>5. CASE at' = [at EXCEPT ![r] = @ + 1]
        <4>1. at'[r] = a + 1 /\ pc' = pc /\ a \in Nat
          BY <2>15, <3>4, <3>5 DEF RunTool
        <4>2. done'[r] = IF plan[r][a] = "daemon" THEN done[r] \cup {CallId(r, a)} ELSE done[r]
          <5>1. at' # at  BY <3>4, <3>5, <4>1
          <5> QED  BY <2>15, <3>4, <5>1 DEF RunTool
        <4>3. {j \in DOMAIN plan[r] : j < a + 1 /\ plan[r][j] = "daemon"} =
                IF plan[r][a] = "daemon" THEN {j \in DOMAIN plan[r] : j < a /\ plan[r][j] = "daemon"} \cup {a}
                ELSE {j \in DOMAIN plan[r] : j < a /\ plan[r][j] = "daemon"}
          BY <3>3, <3>4
        <4>4. DaemonCalls(r, a + 1) = IF plan[r][a] = "daemon" THEN DaemonCalls(r, a) \cup {CallId(r, a)}
                                      ELSE DaemonCalls(r, a)
          BY <4>3 DEF DaemonCalls
        <4>5. done'[r] = DaemonCalls(r, a + 1)  BY <3>3, <3>4, <4>2, <4>4
        <4>6. DaemonCalls(r, at[r])' = DaemonCalls(r, a + 1)
          BY <3>1, <4>1 DEF DaemonCalls, CallId
        <4>7. CallId(r, a) \in Calls(r)  BY <3>3, <3>4 DEF Calls
        <4> QED  BY <3>1, <3>2, <3>3, <3>4, <4>1, <4>2, <4>5, <4>6, <4>7
      <3>6. CASE at' = at
        <4>1. done' = done /\ pc' = [pc EXCEPT ![r] = "check"]
          BY <2>15, <3>3, <3>6 DEF RunTool, EndWith
        <4> QED  BY <3>1, <3>2, <3>3, <4>1
      <3> QED  BY <2>15, <3>5, <3>6 DEF RunTool
    <2>16. CASE ToolsDone(r)
      BY <2>16, NoCallsLeft DEF ToolsDone, NoCalls, NextIteration, ToolsOver
    <2>17. CASE PauseForClient(r)
      <3>1. /\ plan'[r] = plan[r] /\ iteration'[r] = iteration[r] /\ done'[r] = done[r]
            /\ todo'[r] = todo[r] /\ inflight'[r] = inflight[r] /\ pc'[r] = "park" /\ pc[r] = "tools"
        BY <2>17 DEF PauseForClient, ToolsOver
      <3>2. /\ Calls(r)' = Calls(r) /\ ClientCalls(r)' = ClientCalls(r)
        BY ONLY <3>1, CallsStay
      <3>3. DaemonCalls(r, at[r]) \cap ClientCalls(r) = {}
        BY DEF DaemonCalls, ClientCalls, CallId
      <3> QED  BY <3>1, <3>2, <3>3
    <2>18. CASE Park(r)
      <3>1. /\ plan'[r] = plan[r] /\ iteration'[r] = iteration[r] /\ done'[r] = done[r]
            /\ inflight'[r] = {} /\ pc'[r] = "parked" /\ done[r] \cap ClientCalls(r) = {}
            /\ todo'[r] \in {ClientCalls(r), {}}
        BY <2>18 DEF Park
      <3>2. /\ Calls(r)' = Calls(r) /\ ClientCalls(r) \subseteq Calls(r)
        BY <3>1, CallsStay, CallsAre
      <3> QED  BY <3>1, <3>2
    <2>19. CASE EndSuperseded(r)
      BY <2>19, NoCallsLeft DEF EndSuperseded, Return, DropState, NoCalls
    <2>20. CASE EndChecked(r)
      <3>1. plan'[r] = plan[r] /\ iteration'[r] = iteration[r]
        BY <2>20 DEF EndChecked
      <3>2. /\ Calls(r)' = Calls(r) /\ ClientCalls(r)' = ClientCalls(r)
        BY ONLY <3>1, CallsStay
      <3> QED  BY <2>20, <3>1, <3>2 DEF EndChecked
    <2>21. CASE EndCommit(r)
      BY <2>21, NoCallsLeft DEF EndCommit, Return, DropState, NoCalls
    <2>22. CASE ResumeLoop(r)
      <3>1. plan'[r] = plan[r] /\ iteration'[r] = iteration[r]
        BY <2>22 DEF ResumeLoop
      <3>2. /\ Calls(r)' = Calls(r) /\ ClientCalls(r)' = ClientCalls(r)
        BY ONLY <3>1, CallsStay
      <3> QED  BY <2>22, <3>1, <3>2 DEF ResumeLoop
    <2>23. CASE SweepPending(r)
      BY <2>23, NoCallsLeft DEF SweepPending, DropState, NoCalls
    <2>24. CASE InterruptSuperseded(r)
      BY <2>24, NoCallsLeft DEF InterruptSuperseded, DropState, NoCalls
    <2>25. CASE InterruptChecked(r)
      <3>1. plan'[r] = plan[r] /\ iteration'[r] = iteration[r]
        BY <2>25 DEF InterruptChecked
      <3>2. /\ Calls(r)' = Calls(r) /\ ClientCalls(r)' = ClientCalls(r)
        BY ONLY <3>1, CallsStay
      <3> QED  BY <2>25, <3>1, <3>2 DEF InterruptChecked
    <2>26. CASE InterruptSettle(r)
      BY <2>26, NoCallsLeft DEF InterruptSettle, DropState, NoCalls
    <2> QED  BY <1>1, <2>1, <2>2, <2>3, <2>4, <2>5, <2>6, <2>7, <2>8, <2>9,
      <2>10, <2>11, <2>12, <2>13, <2>14, <2>15, <2>16, <2>17, <2>18, <2>19,
      <2>20, <2>21, <2>22, <2>23, <2>24, <2>25, <2>26 DEF Handle
  <1>2. CASE HandleFrame(r)
    <2>1. CASE ResultWithoutLoop(r)
      <3>1. plan'[r] = plan[r] /\ iteration'[r] = iteration[r]
        BY <2>1 DEF ResultWithoutLoop, Received
      <3>2. /\ Calls(r)' = Calls(r) /\ ClientCalls(r)' = ClientCalls(r)
        BY ONLY <3>1, CallsStay
      <3> QED  BY <2>1, <3>1, <3>2 DEF ResultWithoutLoop, Received
    <2>2. CASE ResultSuperseded(r)
      BY <2>2, NoCallsLeft DEF ResultSuperseded, DropState, Received, NoCalls
    <2>3. CASE ResultAccepted(r)
      <3>1. plan'[r] = plan[r] /\ iteration'[r] = iteration[r]
        BY <2>3 DEF ResultAccepted, Received
      <3>2. /\ Calls(r)' = Calls(r) /\ ClientCalls(r)' = ClientCalls(r)
        BY ONLY <3>1, CallsStay
      <3> QED  BY <2>3, <3>1, <3>2 DEF ResultAccepted, Received
    <2>4. CASE ResultCompletes(r)
      <3>1. pc[r] = "parked" /\ Calls(r) \subseteq done[r] \cup inflight[r]
        BY <2>4 DEF ResultCompletes
      <3>2. todo[r] = {}  BY <3>1
      <3> QED  BY <2>4, <3>2, NoCallsLeft DEF ResultCompletes, NoCalls, Received
    <2>5. CASE InterruptParked(r)
      <3>1. plan'[r] = plan[r] /\ iteration'[r] = iteration[r]
        BY <2>5 DEF InterruptParked
      <3>2. /\ Calls(r)' = Calls(r) /\ ClientCalls(r)' = ClientCalls(r)
        BY ONLY <3>1, CallsStay
      <3> QED  BY <2>5, <3>1, <3>2 DEF InterruptParked
    <2>6. CASE InterruptNotParked(r)
      <3>1. Stays(r)  BY <2>6 DEF Stays, InterruptNotParked
      <3> QED  BY <3>1, StaysCalls
    <2>7. CASE InterruptFlag(r)
      <3>1. Stays(r)  BY <2>7 DEF Stays, InterruptFlag
      <3> QED  BY <3>1, StaysCalls
    <2>8. CASE InterruptTooLate(r)
      <3>1. Stays(r)  BY <2>8 DEF Stays, InterruptTooLate
      <3> QED  BY <3>1, StaysCalls
    <2> QED  BY <1>2, <2>1, <2>2, <2>3, <2>4, <2>5, <2>6, <2>7,
      <2>8 DEF HandleFrame
  <1>3. CASE Client(r)
    <2>1. CASE SendChat(r)
      <3>1. plan'[r] = plan[r] /\ iteration'[r] = iteration[r]  BY <2>1 DEF SendChat
      <3>2. /\ Calls(r)' = Calls(r) /\ ClientCalls(r)' = ClientCalls(r)
        BY ONLY <3>1, CallsStay
      <3> QED  BY <2>1, <3>1, <3>2 DEF SendChat
    <2>2. CASE SendInterrupt(r)
      <3>1. /\ plan'[r] = plan[r] /\ iteration'[r] = iteration[r] /\ at'[r] = at[r] /\ pc'[r] = pc[r]
            /\ done'[r] = done[r] /\ todo'[r] = {} /\ inflight'[r] = inflight[r]
        BY <2>2 DEF SendInterrupt
      <3>2. /\ Calls(r)' = Calls(r) /\ ClientCalls(r)' = ClientCalls(r)
        BY ONLY <3>1, CallsStay
      <3>3. DaemonCalls(r, at[r])' = DaemonCalls(r, at[r])
        BY <3>1 DEF DaemonCalls, CallId
      <3> QED  BY <3>1, <3>2, <3>3
    <2>3. CASE SendToolResult(r)
      <3>1. plan'[r] = plan[r] /\ iteration'[r] = iteration[r]
        BY <2>3 DEF SendToolResult
      <3>2. /\ Calls(r)' = Calls(r) /\ ClientCalls(r)' = ClientCalls(r)
        BY ONLY <3>1, CallsStay
      <3> QED  BY <2>3, <3>1, <3>2 DEF SendToolResult
    <2> QED  BY <1>3, <2>1, <2>2, <2>3 DEF Client
  <1>4. CASE RemoveFlag(r)
      <2>1. Stays(r)  BY <1>4 DEF Stays, RemoveFlag
      <2> QED  BY <2>1, StaysCalls
  <1> QED  BY <1>1, <1>2, <1>3, <1>4

(* So every step keeps CallInv; a lost connection may lose the frames of a *)
(* result.                                                                 *)
LEMMA CallInvStep ==
    ASSUME PlaceTypeOK, CounterTypeOK, CallShape, ThreadShape, CallInv, [Next]_vars
    PROVE  CallInv'
  <1> SUFFICES ASSUME NEW s \in Request  PROVE CallsOf(s)'
    BY DEF CallInv
  <1>0. CallsOf(s)  BY DEF CallInv
  <1>1. ASSUME NEW r \in Request, Handle(r) \/ HandleFrame(r) \/ Client(r) \/ RemoveFlag(r)
        PROVE  CallsOf(s)'
    <2>1. CASE r = s  BY <1>0, <1>1, <2>1, CallStep
    <2>2. CASE r # s
      <3>2. Stays(s)  BY <1>1, <2>2, OthersStay
      <3> QED  BY <1>0, <3>2, StaysCalls
    <2> QED  BY <2>1, <2>2
  <1>2. CASE Disconnect
    <2>1. /\ plan'[s] = plan[s] /\ iteration'[s] = iteration[s] /\ at'[s] = at[s] /\ done'[s] = done[s]
          /\ todo'[s] = {} /\ inflight'[s] \in {inflight[s], {}}
          /\ pc'[s] = pc[s] \/ (pc[s] = "sent" /\ pc'[s] = "done")
      BY <1>2 DEF Disconnect, Nothing, control, data
    <2>2. /\ Calls(s)' = Calls(s) /\ ClientCalls(s)' = ClientCalls(s)
      BY ONLY <2>1, CallsStay
    <2>3. DaemonCalls(s, at[s])' = DaemonCalls(s, at[s])
      BY <2>1 DEF DaemonCalls, CallId
    <2> QED  BY <1>0, <2>1, <2>2, <2>3 DEF CallsOf, Idling, Arriving, Running
  <1>3. CASE Restart
    BY <1>3 DEF Restart, Nothing, CallsOf, Idling, Arriving, Running
  <1>4. CASE UNCHANGED vars
    <2>1. Stays(s)  BY <1>4 DEF vars, Stays, shared, control, data, peer, env
    <2> QED  BY <1>0, <2>1, StaysCalls
  <1> QED  BY <1>1, <1>2, <1>3, <1>4 DEF Next

-----------------------------------------------------------------------------
(* Histories.                                                              *)

(* What continues a history as its end demands keeps it answered and       *)
(* orderly.                                                                *)
LEMMA AppendMessage ==
    ASSUME NEW h \in Seq(Msgs), AnsweredWithin(h), h # <<>>, NEW m \in Msgs,
           m.results = Last(h).uses, m.role # Last(h).role, ~is_interrupt_event_marker(m)
    PROVE  /\ Append(h, m) \in Seq(Msgs) /\ AnsweredWithin(Append(h, m)) /\ Append(h, m) # <<>>
           /\ Last(Append(h, m)) = m
           /\ Orderly(h) => Orderly(Append(h, m))
  <1>1. Follows(h, m)  BY DEF Follows
  <1> QED  BY <1>1, AnsweredAppend, OrderlyAppend DEF Msgs

(* The messages the loop writes.                                           *)
LEMMA ProperMessages ==
    ASSUME NEW ids \in SUBSET CallIds, NEW t \in Texts
    PROVE  /\ UserResults(ids) \in Msgs /\ UserResults(ids).results = ids /\ UserResults(ids).uses = {}
           /\ UserResults(ids).role = "user"
           /\ AssistantUses(ids) \in Msgs /\ AssistantUses(ids).results = {} /\ AssistantUses(ids).uses = ids
           /\ AssistantUses(ids).role = "assistant"
           /\ AssistantText(t) \in Msgs /\ AssistantText(t).results = {} /\ AssistantText(t).uses = {}
           /\ AssistantText(t).role = "assistant" /\ AssistantText(t).texts = {t}
  BY DEF Msgs, Proper, Message, UserResults, AssistantUses, AssistantText

(* A history that ends in a query has an answered end.                     *)
LEMMA EndOfQuery ==
    ASSUME NEW h \in Seq(Msgs), EndsInQuery(h)
    PROVE  h # <<>> /\ Last(h).uses = {} /\ Last(h).role = "user"
  <1>1. Last(h) \in Msgs  BY DEF EndsInQuery, Last
  <1> QED  BY <1>1 DEF EndsInQuery, is_user_message, Msgs, Proper

(* r's history stays, or is continued as its end demands.                  *)
Grows(r) ==
    \/ hist'[r] = hist[r]
    \/ \E m \in Msgs : /\ hist' = [hist EXCEPT ![r] = Append(hist[r], m)] /\ hist[r] # <<>>
                       /\ m.results = Last(hist[r]).uses /\ m.role # Last(hist[r]).role
                       /\ ~is_interrupt_event_marker(m)

(* Then it stays answered and orderly.                                     *)
LEMMA GrowsKeeps ==
    ASSUME NEW r \in Request, ThreadShape, AnsweredWithin(hist[r]), Grows(r)
    PROVE  hist'[r] \in Seq(Msgs) /\ AnsweredWithin(hist'[r])
           /\ (Orderly(hist[r]) => Orderly(hist'[r]))
  <1>1. hist[r] \in Seq(Msgs)  BY DEF ThreadShape
  <1>2. ASSUME NEW m \in Msgs, hist' = [hist EXCEPT ![r] = Append(hist[r], m)], hist[r] # <<>>,
               m.results = Last(hist[r]).uses, m.role # Last(hist[r]).role,
               ~is_interrupt_event_marker(m)
        PROVE  hist'[r] \in Seq(Msgs) /\ AnsweredWithin(hist'[r])
               /\ (Orderly(hist[r]) => Orderly(hist'[r]))
    <2>1. hist'[r] = Append(hist[r], m)  BY <1>2 DEF ThreadShape
    <2>2. /\ Append(hist[r], m) \in Seq(Msgs) /\ AnsweredWithin(Append(hist[r], m))
          /\ Orderly(hist[r]) => Orderly(Append(hist[r], m))
      BY ONLY <1>1, <1>2, AnsweredWithin(hist[r]), AppendMessage
    <2> QED  BY ONLY <2>1, <2>2
  <1>3. CASE hist'[r] = hist[r]
    <2>1. PICK h : h = hist[r]  OBVIOUS
    <2>2. hist'[r] = h  BY <1>3, <2>1
    <2> QED  BY ONLY <1>1, <2>1, <2>2, AnsweredWithin(hist[r])
  <1> QED  BY <1>2, <1>3 DEF Grows

(* A reply without client calls is fully executed at its end.              *)
LEMMA AllDaemonCalls ==
    ASSUME NEW r \in Request, CallShape, CallsOf(r), ToolsOver(r), ClientCalls(r) = {}
    PROVE  done[r] = Calls(r)
  <1>1. plan[r] \in Seq(Kinds) /\ at[r] \in 1 .. Len(plan[r]) + 1 /\ at[r] > Len(plan[r])
        /\ done[r] = DaemonCalls(r, at[r])
    BY DEF CallShape, CallsOf, ToolsOver
  <1>2. \A j \in DOMAIN plan[r] : plan[r][j] # "client"  BY DEF ClientCalls
  <1>3. \A j \in DOMAIN plan[r] : plan[r][j] = "daemon"  BY <1>1, <1>2 DEF Kinds
  <1>4. \A j \in DOMAIN plan[r] : j < at[r]  BY <1>1
  <1>5. {j \in DOMAIN plan[r] : j < at[r] /\ plan[r][j] = "daemon"} = DOMAIN plan[r]
    BY <1>3, <1>4
  <1> QED  BY <1>1, <1>5 DEF DaemonCalls, Calls

(* The results of all calls of the last reply continue a history.          *)
LEMMA GrowsByResults ==
    ASSUME NEW r \in Request, ThreadShape, Called(r), Calls(r) \subseteq CallIds,
           hist' = [hist EXCEPT ![r] = Append(hist[r], UserResults(Calls(r)))]
    PROVE  Grows(r) /\ EndsInQuery(hist'[r])
  <1>1. PICK ids \in SUBSET CallIds : ids = Calls(r)  OBVIOUS
  <1>2. PICK m : m = UserResults(ids)  OBVIOUS
  <1>3. m \in Msgs /\ m.results = ids /\ m.role = "user"
    BY <1>2, ProperMessages DEF Texts
  <1>4. Last(hist[r]).uses = ids /\ Last(hist[r]).role = "assistant" /\ hist[r] # <<>>
    BY <1>1, ProperMessages DEF Called, Texts
  <1>5. hist' = [hist EXCEPT ![r] = Append(hist[r], m)]  BY <1>1, <1>2
  <1>6. Grows(r)  BY <1>3, <1>4, <1>5 DEF Grows, is_interrupt_event_marker
  <1>7. hist[r] \in Seq(Msgs) /\ hist'[r] = Append(hist[r], m)
    BY <1>5 DEF ThreadShape
  <1>8. Append(hist[r], m) # <<>> /\ Last(Append(hist[r], m)) = m
    BY <1>3, <1>7, LastOfAppend
  <1> QED  BY <1>3, <1>6, <1>7, <1>8 DEF EndsInQuery, is_user_message

(* So does a reply that calls tools, behind a query.                       *)
LEMMA GrowsByCalls ==
    ASSUME NEW r \in Request, ThreadShape, EndsInQuery(hist[r]), NEW ids \in SUBSET CallIds,
           ids # {}, hist' = [hist EXCEPT ![r] = Append(hist[r], AssistantUses(ids))]
    PROVE  Grows(r) /\ hist'[r] # <<>> /\ Last(hist'[r]) = AssistantUses(ids)
  <1>2. PICK m : m = AssistantUses(ids)  OBVIOUS
  <1>3. m \in Msgs /\ m.results = {} /\ m.uses = ids /\ m.role = "assistant"
    BY <1>2, ProperMessages DEF Texts
  <1>7. hist[r] \in Seq(Msgs) /\ hist'[r] = Append(hist[r], m)
    BY <1>2 DEF ThreadShape
  <1>4. Last(hist[r]).uses = {} /\ Last(hist[r]).role = "user" /\ hist[r] # <<>>
    BY <1>7, EndOfQuery
  <1>6. Grows(r)  BY <1>2, <1>3, <1>4 DEF Grows, is_interrupt_event_marker
  <1>8. Append(hist[r], m) # <<>> /\ Last(Append(hist[r], m)) = m
    BY <1>3, <1>7, LastOfAppend
  <1> QED  BY <1>2, <1>6, <1>7, <1>8

(* So do the closing messages, whichever way the turn ends.                *)
LEMMA GrowsByClosing ==
    ASSUME NEW r \in Request, CounterTypeOK, CallShape, ThreadShape, HistoryOf(r), pc[r] = "check",
           outcome[r] \in Outcome, hist' = [hist EXCEPT ![r] = @ \o ClosingMessages(r)]
    PROVE  Grows(r)
  <1>0. hist[r] \in Seq(Msgs) /\ hist'[r] = hist[r] \o ClosingMessages(r)
    BY DEF ThreadShape
  <1>1. ASSUME NEW m \in Msgs, ClosingMessages(r) = <<m>>
        PROVE  hist' = [hist EXCEPT ![r] = Append(hist[r], m)]
    <2>1. hist[r] \o <<m>> = Append(hist[r], m)  BY <1>0, AppendIsConcat
    <2> QED  BY <1>1, <2>1
  <1>2. CASE outcome[r] = "answer"
    <2>1. PICK m : m = AssistantText("answer")  OBVIOUS
    <2>2. m \in Msgs /\ m.results = {} /\ m.role = "assistant" /\ m.texts = {"answer"}
      <3>1. "answer" \in Texts /\ {} \in SUBSET CallIds  BY DEF Texts
      <3> QED  BY <2>1, <3>1, ProperMessages
    <2>3. hist' = [hist EXCEPT ![r] = Append(hist[r], m)]
      BY <1>1, <1>2, <2>1, <2>2 DEF ClosingMessages
    <2>4. hist[r] # <<>> /\ Last(hist[r]).uses = {} /\ Last(hist[r]).role = "user"
      BY <1>0, <1>2, EndOfQuery DEF HistoryOf
    <2>5. ~is_interrupt_event_marker(m)
      BY <2>2 DEF is_interrupt_event_marker, LegacyEvent
    <2> QED  BY <2>2, <2>3, <2>4, <2>5 DEF Grows
  <1>3. CASE outcome[r] = "truncated"
    <2>1. PICK m : m = AssistantUses({CallId(r, 1)})  OBVIOUS
    <2>2. m \in Msgs /\ m.results = {} /\ m.role = "assistant" /\ m.uses # {}
      <3>1. "answer" \in Texts /\ {CallId(r, 1)} \in SUBSET CallIds
        BY CallIdsAre DEF Texts
      <3> QED  BY <2>1, <3>1, ProperMessages
    <2>3. hist' = [hist EXCEPT ![r] = Append(hist[r], m)]
      BY <1>1, <1>3, <2>1, <2>2 DEF ClosingMessages
    <2>4. hist[r] # <<>> /\ Last(hist[r]).uses = {} /\ Last(hist[r]).role = "user"
      BY <1>0, <1>3, EndOfQuery DEF HistoryOf
    <2> QED  BY <2>2, <2>3, <2>4 DEF Grows, is_interrupt_event_marker
  <1>4. CASE outcome[r] = "cancelled"
    <2>1. Called(r)  BY <1>4 DEF HistoryOf
    <2>2. PICK m : m = UserResults(Calls(r))  OBVIOUS
    <2>3. m \in Msgs
      <3>1. "answer" \in Texts /\ Calls(r) \in SUBSET CallIds  BY CallsAre DEF Texts
      <3> QED  BY <2>2, <3>1, ProperMessages
    <2>4. hist' = [hist EXCEPT ![r] = Append(hist[r], m)]
      BY <1>1, <1>4, <2>2, <2>3 DEF ClosingMessages
    <2> QED  BY <2>1, <2>2, <2>4, CallsAre, GrowsByResults
  <1>5. CASE outcome[r] = "sanitized"
    <2>0. hist[r] # <<>>  BY <1>5 DEF HistoryOf, EndsInQuery, Called
    <2>1. Last(hist[r]) \in Msgs  BY <1>0, <2>0 DEF Last
    <2>2. CASE Last(hist[r]).uses # {}
      <3>1. PICK m : m = UserResults(Last(hist[r]).uses)  OBVIOUS
      <3>2. m \in Msgs /\ m.results = Last(hist[r]).uses /\ m.role = "user"
        <4>1. "answer" \in Texts /\ Last(hist[r]).uses \in SUBSET CallIds
          BY <2>1 DEF Msgs, Proper, Message, Texts
        <4> QED  BY <3>1, <4>1, ProperMessages
      <3>3. hist' = [hist EXCEPT ![r] = Append(hist[r], m)]
        BY <1>1, <1>5, <2>2, <3>1, <3>2 DEF ClosingMessages
      <3>4. Last(hist[r]).role # "user"  BY <2>1, <2>2 DEF Msgs, Proper
      <3> QED  BY <2>0, <3>2, <3>3, <3>4 DEF Grows, is_interrupt_event_marker
    <2>3. CASE Last(hist[r]).uses = {}
      <3>1. ClosingMessages(r) = <<>>  BY <1>5, <2>3 DEF ClosingMessages
      <3>2. hist[r] \o <<>> = hist[r]  BY <1>0, ConcatEmptySeq
      <3> QED  BY <1>0, <3>1, <3>2 DEF Grows
    <2> QED  BY <2>2, <2>3
  <1>6. outcome[r] # "none"  BY DEF HistoryOf
  <1> QED  BY <1>2, <1>3, <1>4, <1>5, <1>6 DEF Outcome

(* The history handle_chat_message begins with: the repaired thread and    *)
(* the query.                                                              *)
LEMMA QueryLoaded ==
    ASSUME ThreadShape, NEW r \in Request
    PROVE  /\ Repaired(conv) \in Seq(Msgs) /\ NoOrphanedToolUse(Repaired(conv))
           /\ AddQuery(Repaired(conv), QueryText[r]) \in Seq(Msgs)
           /\ AnsweredWithin(AddQuery(Repaired(conv), QueryText[r]))
           /\ EndsInQuery(AddQuery(Repaired(conv), QueryText[r]))
           /\ Orderly(conv) => /\ Repaired(conv) = AnswerTail(conv) /\ Orderly(Repaired(conv))
                               /\ Orderly(AddQuery(Repaired(conv), QueryText[r]))
  <1>1. InterruptMarker \in Texts /\ QueryText[r] \in Texts  BY DEF Texts
  <1>2. conv \in Seq(Proper(CallIds, Texts))  BY DEF ThreadShape, Msgs
  <1>3. PICK k : k = Repaired(conv)  OBVIOUS
  <1>4. k \in Seq(Proper(CallIds, Texts)) /\ NoOrphanedToolUse(k)
    BY ONLY <1>1, <1>2, <1>3, RepairedNoOrphan
  <1>5. PICK n : n = AddQuery(k, QueryText[r])  OBVIOUS
  <1>6. n \in Seq(Proper(CallIds, Texts)) /\ NoOrphanedToolUse(n) /\ n # <<>> /\ is_user_message(Last(n))
    BY ONLY <1>1, <1>4, <1>5, AddQueryNoOrphan
  <1>7. AnsweredWithin(n)  BY <1>6, AnsweredMeansNoOrphan
  <1>8. ASSUME Orderly(conv)  PROVE k = AnswerTail(conv) /\ Orderly(k) /\ Orderly(n)
    <2>1. k = AnswerTail(conv) /\ Orderly(k)
      BY ONLY <1>2, <1>3, <1>8, RepairedOrderly
    <2>2. Orderly(n)  BY ONLY <1>1, <1>4, <1>5, <2>1, AddQueryOrderly
    <2> QED  BY <2>1, <2>2
  <1> QED  BY <1>3, <1>4, <1>5, <1>6, <1>7, <1>8 DEF Msgs, EndsInQuery

(* Every step of r continues r's history, drops it, or loads it.           *)
LEMMA HistStep ==
    ASSUME PlaceTypeOK, CounterTypeOK, CallShape, ThreadShape, NEW r \in Request,
           CallsOf(r), HistoryOf(r),
           Handle(r) \/ HandleFrame(r) \/ Client(r) \/ RemoveFlag(r)
    PROVE  /\ hist' \in [Request -> Seq(Msgs)] /\ saved' \in [Request -> Nat]
           /\ HistoryOf(r)' /\ (Grows(r) \/ (hist'[r] = <<>> /\ pc'[r] = "done") \/ LoadHistory(r))
  <1> USE DEF PlaceTypeOK, CounterTypeOK, ThreadShape, HistoryOf, Loaded, Calling,
    shared, control, data, peer, env
  <1>1. CASE Handle(r)
    <2>1. CASE RegisterFlag(r)
      <3>1. /\ plan'[r] = plan[r] /\ iteration'[r] = iteration[r] /\ hist' = hist
            /\ saved' \in [Request -> Nat]
        BY <2>1 DEF RegisterFlag
      <3>2. Called(r)' = Called(r)  BY <3>1, CallsStay DEF Called
      <3> QED  BY <2>1, <3>1, <3>2 DEF Grows, RegisterFlag
    <2>2. CASE BeginTurn(r)
      <3>1. /\ plan'[r] = plan[r] /\ iteration'[r] = iteration[r] /\ hist' = hist
            /\ saved' \in [Request -> Nat]
        BY <2>2 DEF BeginTurn, bump_generation
      <3>2. Called(r)' = Called(r)  BY <3>1, CallsStay DEF Called
      <3> QED  BY <2>2, <3>1, <3>2 DEF Grows, BeginTurn, bump_generation
    <2>3. CASE SelectModel(r)
      <3>1. /\ hist' = [hist EXCEPT ![r] = <<>>] /\ saved' = [saved EXCEPT ![r] = 0]
            /\ pc'[r] = "done"
        BY <2>3 DEF SelectModel, Return, bump_generation, DropState, NoCalls
      <3>2. hist'[r] = <<>> /\ hist' \in [Request -> Seq(Msgs)] /\ saved' \in [Request -> Nat]
        BY <3>1
      <3> QED  BY <3>1, <3>2, EmptyAnswered
    <2>4. CASE LoadHistory(r)
      <3>1. PICK h : h = AddQuery(Repaired(conv), QueryText[r])  OBVIOUS
      <3>2. h \in Seq(Msgs) /\ AnsweredWithin(h) /\ EndsInQuery(h)
        BY <3>1, QueryLoaded
      <3>3. hist' = [hist EXCEPT ![r] = h] /\ saved' = saved
        BY <2>4, <3>1 DEF LoadHistory, Repaired
      <3>4. pc'[r] \in {"append", "replace"}  BY <2>4 DEF LoadHistory
      <3>5. hist'[r] = h  BY <3>3
      <3> QED  BY <2>4, <3>2, <3>3, <3>4, <3>5
    <2>5. CASE StoreQuery(r)
      <3>1. /\ plan'[r] = plan[r] /\ iteration'[r] = iteration[r] /\ hist' = hist
            /\ saved' \in [Request -> Nat]
        BY <2>5 DEF StoreQuery, AppendQuery, ReplaceHistory
      <3>2. Called(r)' = Called(r)  BY <3>1, CallsStay DEF Called
      <3> QED
        BY <2>5, <3>1, <3>2 DEF Grows, StoreQuery, AppendQuery, ReplaceHistory
    <2>6. CASE Exhausted(r)
      <3>1. /\ plan'[r] = plan[r] /\ iteration'[r] = iteration[r] /\ hist' = hist
            /\ saved' \in [Request -> Nat]
        BY <2>6 DEF Exhausted, EndWith
      <3>2. Called(r)' = Called(r)  BY <3>1, CallsStay DEF Called
      <3> QED  BY <2>6, <3>1, <3>2 DEF Grows, Exhausted, EndWith
    <2>7. CASE DropSuperseded(r)
      <3>1. /\ hist' = [hist EXCEPT ![r] = <<>>] /\ saved' = [saved EXCEPT ![r] = 0]
            /\ pc'[r] = "done"
        BY <2>7 DEF DropSuperseded, Return, DropState, NoCalls
      <3>2. hist'[r] = <<>> /\ hist' \in [Request -> Seq(Msgs)] /\ saved' \in [Request -> Nat]
        BY <3>1
      <3> QED  BY <3>1, <3>2, EmptyAnswered
    <2>8. CASE StopCancelled(r)
      <3>1. /\ plan'[r] = plan[r] /\ iteration'[r] = iteration[r] /\ hist' = hist
            /\ saved' \in [Request -> Nat]
        BY <2>8 DEF StopCancelled, EndWith
      <3>2. Called(r)' = Called(r)  BY <3>1, CallsStay DEF Called
      <3> QED  BY <2>8, <3>1, <3>2 DEF Grows, StopCancelled, EndWith
    <2>9. CASE AskModel(r)
      <3>1. /\ plan'[r] = plan[r] /\ iteration'[r] = iteration[r] /\ hist' = hist
            /\ saved' \in [Request -> Nat]
        BY <2>9 DEF AskModel
      <3>2. Called(r)' = Called(r)  BY <3>1, CallsStay DEF Called
      <3> QED  BY <2>9, <3>1, <3>2 DEF Grows, AskModel
    <2>10. CASE ModelUsesTools(r)
      <3>1. PICK p \in Plans \ {<<>>} :
                /\ plan' = [plan EXCEPT ![r] = p]
                /\ hist' = [hist EXCEPT ![r] = Append(@, AssistantUses({CallId(r, i) : i \in DOMAIN p}))]
        BY <2>10 DEF ModelUsesTools
      <3>2. p \in Seq(Kinds)  BY PlansAssumption DEF Kinds
      <3>3. PICK ids : ids = {CallId(r, i) : i \in DOMAIN p}  OBVIOUS
      <3>4. ids \in SUBSET CallIds /\ ids # {}
        <4>1. DOMAIN p \subseteq Nat /\ 1 \in DOMAIN p  BY <3>2
        <4>2. \A i \in DOMAIN p : CallId(r, i) \in CallIds  BY <4>1, CallIdsAre
        <4> QED  BY <3>3, <4>1, <4>2
      <3>5. hist' = [hist EXCEPT ![r] = Append(hist[r], AssistantUses(ids))]
        BY <3>1, <3>3
      <3>6. EndsInQuery(hist[r])  BY <2>10 DEF ModelUsesTools
      <3>7. Grows(r) /\ hist'[r] # <<>> /\ Last(hist'[r]) = AssistantUses(ids)
        BY <3>4, <3>5, <3>6, GrowsByCalls
      <3>8. hist' \in [Request -> Seq(Msgs)] /\ AnsweredWithin(hist'[r])
        <4>1. hist'[r] \in Seq(Msgs) /\ AnsweredWithin(hist'[r])
          BY <3>7, GrowsKeeps
        <4>2. \E h : hist' = [hist EXCEPT ![r] = h]  BY <2>10 DEF ModelUsesTools
        <4> QED  BY <4>1, <4>2
      <3>9. Calls(r)' = ids
        <4>1. plan'[r] = p /\ iteration'[r] = iteration[r]
          BY <2>10, <3>1 DEF ModelUsesTools, CallShape
        <4> QED  BY <3>3, <4>1 DEF Calls, CallId
      <3>10. Called(r)'  BY <3>7, <3>9 DEF Called
      <3>11. \/ pc' = [pc EXCEPT ![r] = "tools"]
             \/ pc' = [pc EXCEPT ![r] = "check"] /\ outcome' = [outcome EXCEPT ![r] = "sanitized"]
        BY <2>10, Zenon DEF ModelUsesTools, EndWith
      <3>12. pc'[r] = "tools" \/ (pc'[r] = "check" /\ outcome'[r] = "sanitized")
        <4>1. pc \in [Request -> PC] /\ outcome \in [Request -> Outcome]  OBVIOUS
        <4>2. CASE pc' = [pc EXCEPT ![r] = "tools"]  BY <4>1, <4>2
        <4>3. CASE pc' = [pc EXCEPT ![r] = "check"] /\ outcome' = [outcome EXCEPT ![r] = "sanitized"]
          BY <4>1, <4>3
        <4> QED  BY ONLY <3>11, <4>2, <4>3
      <3>13. saved' \in [Request -> Nat]  BY <2>10 DEF ModelUsesTools
      <3> QED  BY <3>7, <3>8, <3>10, <3>12, <3>13
    <2>11. CASE ModelEndsTurn(r)
      <3>1. /\ plan'[r] = plan[r] /\ iteration'[r] = iteration[r] /\ hist' = hist
            /\ saved' \in [Request -> Nat]
        BY <2>11 DEF ModelEndsTurn, EndWith
      <3>2. Called(r)' = Called(r)  BY <3>1, CallsStay DEF Called
      <3> QED  BY <2>11, <3>1, <3>2 DEF Grows, ModelEndsTurn, EndWith
    <2>12. CASE ModelConnectionError(r)
      BY <2>12 DEF Grows, ModelConnectionError, NextIteration
    <2>13. CASE ModelError(r)
      <3>1. /\ plan'[r] = plan[r] /\ iteration'[r] = iteration[r] /\ hist' = hist
            /\ saved' \in [Request -> Nat]
        BY <2>13 DEF ModelError, EndWith
      <3>2. Called(r)' = Called(r)  BY <3>1, CallsStay DEF Called
      <3> QED  BY <2>13, <3>1, <3>2 DEF Grows, ModelError, EndWith
    <2>14. CASE ToolsCancelled(r)
      <3>1. /\ plan'[r] = plan[r] /\ iteration'[r] = iteration[r] /\ hist' = hist
            /\ saved' \in [Request -> Nat]
        BY <2>14 DEF ToolsCancelled, EndWith, ToolsLeft
      <3>2. Called(r)' = Called(r)  BY <3>1, CallsStay DEF Called
      <3> QED  BY <2>14, <3>1, <3>2 DEF Grows, ToolsCancelled, EndWith, ToolsLeft
    <2>15. CASE RunTool(r)
      <3>1. /\ plan'[r] = plan[r] /\ iteration'[r] = iteration[r] /\ hist' = hist
            /\ saved' \in [Request -> Nat]
        BY <2>15 DEF RunTool, EndWith, ToolsLeft, SendFails
      <3>2. Called(r)' = Called(r)  BY <3>1, CallsStay DEF Called
      <3> QED
        BY <2>15, <3>1, <3>2 DEF Grows, RunTool, EndWith, ToolsLeft, SendFails
    <2>16. CASE ToolsDone(r)
      <3>1. Called(r) /\ Calls(r) \subseteq CallIds
        BY <2>16, CallsAre DEF ToolsDone, NextIteration, ToolsOver
      <3>2. done[r] = Calls(r)  BY <2>16, AllDaemonCalls DEF ToolsDone
      <3>3. hist' = [hist EXCEPT ![r] = Append(hist[r], UserResults(Calls(r)))]
        BY <2>16, <3>2 DEF ToolsDone, NextIteration, ToolsOver
      <3>4. Grows(r) /\ EndsInQuery(hist'[r])  BY <3>1, <3>3, GrowsByResults
      <3>8. hist' \in [Request -> Seq(Msgs)] /\ AnsweredWithin(hist'[r])
        <4>1. hist'[r] \in Seq(Msgs) /\ AnsweredWithin(hist'[r])
          BY <3>4, GrowsKeeps
        <4>2. \E h : hist' = [hist EXCEPT ![r] = h]
          BY <2>16 DEF ToolsDone, NextIteration, ToolsOver
        <4> QED  BY <4>1, <4>2
      <3>9. pc'[r] = "top" /\ saved' = saved
        BY <2>16 DEF ToolsDone, NextIteration, ToolsOver
      <3> QED  BY <3>4, <3>8, <3>9
    <2>17. CASE PauseForClient(r)
      <3>1. /\ plan'[r] = plan[r] /\ iteration'[r] = iteration[r] /\ hist' = hist
            /\ saved' \in [Request -> Nat]
        BY <2>17 DEF PauseForClient, ToolsOver
      <3>2. Called(r)' = Called(r)  BY <3>1, CallsStay DEF Called
      <3> QED  BY <2>17, <3>1, <3>2 DEF Grows, PauseForClient, ToolsOver
    <2>18. CASE Park(r)
      <3>1. /\ plan'[r] = plan[r] /\ iteration'[r] = iteration[r] /\ hist' = hist
            /\ saved' \in [Request -> Nat]
        BY <2>18 DEF Park
      <3>2. Called(r)' = Called(r)  BY <3>1, CallsStay DEF Called
      <3> QED  BY <2>18, <3>1, <3>2 DEF Grows, Park
    <2>19. CASE EndSuperseded(r)
      <3>1. /\ hist' = [hist EXCEPT ![r] = <<>>] /\ saved' = [saved EXCEPT ![r] = 0]
            /\ pc'[r] = "done"
        BY <2>19 DEF EndSuperseded, Return, DropState, NoCalls
      <3>2. hist'[r] = <<>> /\ hist' \in [Request -> Seq(Msgs)] /\ saved' \in [Request -> Nat]
        BY <3>1
      <3> QED  BY <3>1, <3>2, EmptyAnswered
    <2>20. CASE EndChecked(r)
      <3>1. Grows(r)  BY <2>20, GrowsByClosing DEF EndChecked
      <3>8. hist' \in [Request -> Seq(Msgs)] /\ AnsweredWithin(hist'[r])
        <4>1. hist'[r] \in Seq(Msgs) /\ AnsweredWithin(hist'[r])
          BY <3>1, GrowsKeeps
        <4>2. \E h : hist' = [hist EXCEPT ![r] = h]  BY <2>20 DEF EndChecked
        <4> QED  BY <4>1, <4>2
      <3>9. pc'[r] = "commit" /\ saved' = saved  BY <2>20 DEF EndChecked
      <3> QED  BY <3>1, <3>8, <3>9
    <2>21. CASE EndCommit(r)
      <3>1. /\ hist' = [hist EXCEPT ![r] = <<>>] /\ saved' = [saved EXCEPT ![r] = 0]
            /\ pc'[r] = "done"
        BY <2>21 DEF EndCommit, Return, DropState, NoCalls
      <3>2. hist'[r] = <<>> /\ hist' \in [Request -> Seq(Msgs)] /\ saved' \in [Request -> Nat]
        BY <3>1
      <3> QED  BY <3>1, <3>2, EmptyAnswered
    <2>22. CASE ResumeLoop(r)
      <3>1. /\ plan'[r] = plan[r] /\ iteration'[r] = iteration[r] /\ hist' = hist
            /\ saved' \in [Request -> Nat]
        BY <2>22 DEF ResumeLoop
      <3>2. Called(r)' = Called(r)  BY <3>1, CallsStay DEF Called
      <3> QED  BY <2>22, <3>1, <3>2 DEF Grows, ResumeLoop
    <2>23. CASE SweepPending(r)
      <3>1. /\ hist' = [hist EXCEPT ![r] = <<>>] /\ saved' = [saved EXCEPT ![r] = 0]
            /\ pc'[r] = "done"
        BY <2>23 DEF SweepPending, DropState, NoCalls
      <3>2. hist'[r] = <<>> /\ hist' \in [Request -> Seq(Msgs)] /\ saved' \in [Request -> Nat]
        BY <3>1
      <3> QED  BY <3>1, <3>2, EmptyAnswered
    <2>24. CASE InterruptSuperseded(r)
      <3>1. /\ hist' = [hist EXCEPT ![r] = <<>>] /\ saved' = [saved EXCEPT ![r] = 0]
            /\ pc'[r] = "done"
        BY <2>24 DEF InterruptSuperseded, DropState, NoCalls
      <3>2. hist'[r] = <<>> /\ hist' \in [Request -> Seq(Msgs)] /\ saved' \in [Request -> Nat]
        BY <3>1
      <3> QED  BY <3>1, <3>2, EmptyAnswered
    <2>25. CASE InterruptChecked(r)
      <3>1. Called(r) /\ Calls(r) \subseteq CallIds
        BY <2>25, CallsAre DEF InterruptChecked
      <3>2. done[r] \cup Calls(r) = Calls(r)  BY <2>25 DEF CallsOf
      <3>3. hist' = [hist EXCEPT ![r] = Append(hist[r], UserResults(Calls(r)))]
        BY <2>25, <3>2 DEF InterruptChecked
      <3>4. Grows(r) /\ EndsInQuery(hist'[r])  BY <3>1, <3>3, GrowsByResults
      <3>8. hist' \in [Request -> Seq(Msgs)] /\ AnsweredWithin(hist'[r])
        <4>1. hist'[r] \in Seq(Msgs) /\ AnsweredWithin(hist'[r])
          BY <3>4, GrowsKeeps
        <4>2. \E h : hist' = [hist EXCEPT ![r] = h]  BY <2>25 DEF InterruptChecked
        <4> QED  BY <4>1, <4>2
      <3>9. pc'[r] = "settle" /\ saved' = saved  BY <2>25 DEF InterruptChecked
      <3> QED  BY <3>4, <3>8, <3>9
    <2>26. CASE InterruptSettle(r)
      <3>1. /\ hist' = [hist EXCEPT ![r] = <<>>] /\ saved' = [saved EXCEPT ![r] = 0]
            /\ pc'[r] = "done"
        BY <2>26 DEF InterruptSettle, DropState, NoCalls
      <3>2. hist'[r] = <<>> /\ hist' \in [Request -> Seq(Msgs)] /\ saved' \in [Request -> Nat]
        BY <3>1
      <3> QED  BY <3>1, <3>2, EmptyAnswered
    <2> QED  BY <1>1, <2>1, <2>2, <2>3, <2>4, <2>5, <2>6, <2>7, <2>8, <2>9,
      <2>10, <2>11, <2>12, <2>13, <2>14, <2>15, <2>16, <2>17, <2>18, <2>19,
      <2>20, <2>21, <2>22, <2>23, <2>24, <2>25, <2>26 DEF Handle
  <1>2. CASE HandleFrame(r)
    <2>1. CASE ResultWithoutLoop(r)
      <3>1. /\ plan'[r] = plan[r] /\ iteration'[r] = iteration[r] /\ hist' = hist
            /\ saved' \in [Request -> Nat]
        BY <2>1 DEF ResultWithoutLoop, Received
      <3>2. Called(r)' = Called(r)  BY <3>1, CallsStay DEF Called
      <3> QED  BY <2>1, <3>1, <3>2 DEF Grows, ResultWithoutLoop, Received
    <2>2. CASE ResultSuperseded(r)
      <3>1. /\ hist' = [hist EXCEPT ![r] = <<>>] /\ saved' = [saved EXCEPT ![r] = 0]
            /\ pc'[r] = "done"
        BY <2>2 DEF ResultSuperseded, DropState, Received, NoCalls
      <3>2. hist'[r] = <<>> /\ hist' \in [Request -> Seq(Msgs)] /\ saved' \in [Request -> Nat]
        BY <3>1
      <3> QED  BY <3>1, <3>2, EmptyAnswered
    <2>3. CASE ResultAccepted(r)
      <3>1. /\ plan'[r] = plan[r] /\ iteration'[r] = iteration[r] /\ hist' = hist
            /\ saved' \in [Request -> Nat]
        BY <2>3 DEF ResultAccepted, Received
      <3>2. Called(r)' = Called(r)  BY <3>1, CallsStay DEF Called
      <3> QED  BY <2>3, <3>1, <3>2 DEF Grows, ResultAccepted, Received
    <2>4. CASE ResultCompletes(r)
      <3>1. Called(r) /\ Calls(r) \subseteq CallIds
        BY <2>4, CallsAre DEF ResultCompletes
      <3>2. done[r] \cup inflight[r] = Calls(r)
        BY <2>4 DEF ResultCompletes, CallsOf
      <3>3. hist' = [hist EXCEPT ![r] = Append(hist[r], UserResults(Calls(r)))]
        BY <2>4, <3>2 DEF ResultCompletes
      <3>4. Grows(r) /\ EndsInQuery(hist'[r])  BY <3>1, <3>3, GrowsByResults
      <3>8. hist' \in [Request -> Seq(Msgs)] /\ AnsweredWithin(hist'[r])
        <4>1. hist'[r] \in Seq(Msgs) /\ AnsweredWithin(hist'[r])
          BY <3>4, GrowsKeeps
        <4>2. \E h : hist' = [hist EXCEPT ![r] = h]  BY <2>4 DEF ResultCompletes
        <4> QED  BY <4>1, <4>2
      <3>9. pc'[r] = "reflag" /\ saved' = saved  BY <2>4 DEF ResultCompletes
      <3> QED  BY <3>4, <3>8, <3>9
    <2>5. CASE InterruptParked(r)
      <3>1. /\ plan'[r] = plan[r] /\ iteration'[r] = iteration[r] /\ hist' = hist
            /\ saved' \in [Request -> Nat]
        BY <2>5 DEF InterruptParked
      <3>2. Called(r)' = Called(r)  BY <3>1, CallsStay DEF Called
      <3> QED  BY <2>5, <3>1, <3>2 DEF Grows, InterruptParked
    <2>6. CASE InterruptNotParked(r)
      <3>1. /\ plan'[r] = plan[r] /\ iteration'[r] = iteration[r] /\ hist' = hist
            /\ saved' \in [Request -> Nat]
        BY <2>6 DEF InterruptNotParked
      <3>2. Called(r)' = Called(r)  BY <3>1, CallsStay DEF Called
      <3> QED  BY <2>6, <3>1, <3>2 DEF Grows, InterruptNotParked
    <2>7. CASE InterruptFlag(r)
      <3>1. /\ plan'[r] = plan[r] /\ iteration'[r] = iteration[r] /\ hist' = hist
            /\ saved' \in [Request -> Nat]
        BY <2>7 DEF InterruptFlag
      <3>2. Called(r)' = Called(r)  BY <3>1, CallsStay DEF Called
      <3> QED  BY <2>7, <3>1, <3>2 DEF Grows, InterruptFlag
    <2>8. CASE InterruptTooLate(r)
      <3>1. /\ plan'[r] = plan[r] /\ iteration'[r] = iteration[r] /\ hist' = hist
            /\ saved' \in [Request -> Nat]
        BY <2>8 DEF InterruptTooLate
      <3>2. Called(r)' = Called(r)  BY <3>1, CallsStay DEF Called
      <3> QED  BY <2>8, <3>1, <3>2 DEF Grows, InterruptTooLate
    <2> QED  BY <1>2, <2>1, <2>2, <2>3, <2>4, <2>5, <2>6, <2>7,
      <2>8 DEF HandleFrame
  <1>3. CASE Client(r)
    <2>1. CASE SendChat(r)
      <3>1. /\ plan'[r] = plan[r] /\ iteration'[r] = iteration[r] /\ hist' = hist
            /\ saved' \in [Request -> Nat]
        BY <2>1 DEF SendChat
      <3>2. Called(r)' = Called(r)  BY <3>1, CallsStay DEF Called
      <3> QED  BY <2>1, <3>1, <3>2 DEF Grows, SendChat
    <2>2. CASE SendInterrupt(r)
      <3>1. /\ plan'[r] = plan[r] /\ iteration'[r] = iteration[r] /\ hist' = hist
            /\ saved' \in [Request -> Nat]
        BY <2>2 DEF SendInterrupt
      <3>2. Called(r)' = Called(r)  BY <3>1, CallsStay DEF Called
      <3> QED  BY <2>2, <3>1, <3>2 DEF Grows, SendInterrupt
    <2>3. CASE SendToolResult(r)
      <3>1. /\ plan'[r] = plan[r] /\ iteration'[r] = iteration[r] /\ hist' = hist
            /\ saved' \in [Request -> Nat]
        BY <2>3 DEF SendToolResult
      <3>2. Called(r)' = Called(r)  BY <3>1, CallsStay DEF Called
      <3> QED  BY <2>3, <3>1, <3>2 DEF Grows, SendToolResult
    <2> QED  BY <1>3, <2>1, <2>2, <2>3 DEF Client
  <1>4. CASE RemoveFlag(r)
      <2>1. /\ plan'[r] = plan[r] /\ iteration'[r] = iteration[r] /\ hist' = hist
            /\ saved' \in [Request -> Nat]
        BY <1>4 DEF RemoveFlag
      <2>2. Called(r)' = Called(r)  BY <2>1, CallsStay DEF Called
      <2> QED  BY <1>4, <2>1, <2>2 DEF Grows, RemoveFlag
  <1> QED  BY <1>1, <1>2, <1>3, <1>4

(* A loop that is left alone keeps its history.                            *)
LEMMA StaysHist ==
    ASSUME NEW s \in Request, HistoryOf(s), Stays(s)
    PROVE  HistoryOf(s)'
  <1>1. Calls(s)' = Calls(s)  BY CallsStay DEF Stays
  <1>2. hist'[s] = hist[s] /\ pc'[s] = pc[s] /\ outcome'[s] = outcome[s]
    BY DEF Stays
  <1>3. Called(s)' = Called(s)  BY <1>1, <1>2 DEF Called
  <1> QED  BY <1>2, <1>3 DEF HistoryOf

(* What persist_unsaved appends: behind the saved part of a history, its   *)
(* rest completes the thread.                                              *)
LEMMA RestOfThread ==
    ASSUME NEW h \in Seq(Msgs), NEW n \in Nat, NEW c \in Seq(Msgs)
    PROVE  /\ c \o SubSeq(h, n + 1, Len(h)) \in Seq(Msgs)
           /\ n <= Len(h) /\ c = SubSeq(h, 1, n) => c \o SubSeq(h, n + 1, Len(h)) = h
  <1>1. Len(h) \in Nat /\ n + 1 \in Int /\ Len(h) \in Int  OBVIOUS
  <1>2. \A i \in n + 1 .. Len(h) : h[i] \in Msgs
    <2>1. \A i \in n + 1 .. Len(h) : i \in 1 .. Len(h)  BY <1>1
    <2> QED  BY <2>1
  <1>3. SubSeq(h, n + 1, Len(h)) \in Seq(Msgs)  BY ONLY <1>1, <1>2, SubSeqProperties
  <1>4. c \o SubSeq(h, n + 1, Len(h)) \in Seq(Msgs)
    BY ONLY <1>3, c \in Seq(Msgs), ConcatProperties
  <1>5. ASSUME n <= Len(h), c = SubSeq(h, 1, n)
        PROVE  c \o SubSeq(h, n + 1, Len(h)) = h
    <2>1. 1 \in 1 .. Len(h) + 1 /\ n \in 1 - 1 .. Len(h) /\ Len(h) \in n .. Len(h)
      BY <1>1, <1>5
    <2>2. SubSeq(h, 1, n) \o SubSeq(h, n + 1, Len(h)) = SubSeq(h, 1, Len(h))
      BY ONLY <2>1, h \in Seq(Msgs), ConcatAdjacentSubSeq
    <2>3. SubSeq(h, 1, Len(h)) = h  BY SubSeqFull
    <2> QED  BY ONLY <1>5, <2>2, <2>3
  <1> QED  BY <1>4, <1>5

(* Only four steps of a request write to the thread.                       *)
LEMMA OnlyWritersWrite ==
    ASSUME NEW r \in Request, Handle(r) \/ HandleFrame(r) \/ Client(r) \/ RemoveFlag(r)
    PROVE  conv' = conv \/ StoreQuery(r) \/ PauseForClient(r) \/ EndCommit(r) \/ InterruptSettle(r)
  <1> USE DEF shared
  <1>1. CASE Handle(r)
    BY <1>1 DEF Handle, RegisterFlag, BeginTurn, SelectModel, LoadHistory,
        Exhausted,
      DropSuperseded, StopCancelled, AskModel, ModelUsesTools, ModelEndsTurn,
      ModelConnectionError, ModelError, ToolsCancelled, RunTool, ToolsDone, Park,
      EndSuperseded, EndChecked, ResumeLoop, SweepPending, InterruptSuperseded,
      InterruptChecked
  <1>2. CASE HandleFrame(r)
    BY <1>2 DEF HandleFrame, ResultWithoutLoop, ResultSuperseded, ResultAccepted,
      ResultCompletes, InterruptParked, InterruptNotParked, InterruptFlag,
      InterruptTooLate
  <1>3. CASE Client(r) \/ RemoveFlag(r)
    BY <1>3 DEF Client, SendChat, SendInterrupt, SendToolResult, RemoveFlag
  <1> QED  BY <1>1, <1>2, <1>3

(* Every step keeps the shape of the threads and HistInv.                  *)
LEMMA ThreadStep ==
    ASSUME PlaceTypeOK, CounterTypeOK, CallShape, ThreadShape, CallInv, HistInv, [Next]_vars
    PROVE  ThreadShape' /\ HistInv'
  <1> USE DEF shared, control, data, peer, env
  <1>1. ASSUME NEW r \in Request, Handle(r) \/ HandleFrame(r) \/ Client(r) \/ RemoveFlag(r)
        PROVE  ThreadShape' /\ HistInv'
    <2>0. CallsOf(r) /\ HistoryOf(r)  BY DEF CallInv, HistInv
    <2>1. hist' \in [Request -> Seq(Msgs)] /\ saved' \in [Request -> Nat] /\ HistoryOf(r)'
      BY <1>1, <2>0, HistStep
    <2>2. ASSUME NEW s \in Request  PROVE HistoryOf(s)'
      <3>1. CASE s = r  BY <2>1, <3>1
      <3>2. CASE s # r
        <4>1. Stays(s)  BY <1>1, <3>2, OthersStay
        <4> QED  BY <4>1, StaysHist DEF HistInv
      <3> QED  BY <3>1, <3>2
    <2>3. conv \in Seq(Msgs) /\ hist[r] \in Seq(Msgs) /\ saved[r] \in Nat
      BY DEF ThreadShape
    <2>4. \/ conv' = conv
          \/ pc[r] \in {"append", "replace"} /\ conv' \in {Append(conv, Last(hist[r])), hist[r]}
          \/ conv' = conv \o SubSeq(hist[r], saved[r] + 1, Len(hist[r]))
      <3>1. conv' = conv \/ StoreQuery(r) \/ PauseForClient(r) \/ EndCommit(r) \/ InterruptSettle(r)
        BY <1>1, OnlyWritersWrite
      <3>4. StoreQuery(r) => pc[r] \in {"append", "replace"} /\ conv' \in {Append(conv, Last(hist[r])), hist[r]}
        BY DEF StoreQuery, AppendQuery, ReplaceHistory
      <3>5. PauseForClient(r) \/ EndCommit(r) \/ InterruptSettle(r) =>
              conv' = conv \o SubSeq(hist[r], saved[r] + 1, Len(hist[r]))
        BY DEF PauseForClient, EndCommit, InterruptSettle, PersistUnsaved
      <3> QED  BY <3>1, <3>4, <3>5
    <2>5. pc[r] \in {"append", "replace"} => Append(conv, Last(hist[r])) \in Seq(Msgs)
      <3> SUFFICES ASSUME pc[r] \in {"append", "replace"}
                   PROVE Append(conv, Last(hist[r])) \in Seq(Msgs)
        OBVIOUS
      <3>1. hist[r] # <<>>  BY <2>0 DEF HistoryOf, Loaded, EndsInQuery
      <3>2. Last(hist[r]) \in Msgs  BY <2>3, <3>1 DEF Last
      <3> QED  BY <2>3, <3>2
    <2>6. conv \o SubSeq(hist[r], saved[r] + 1, Len(hist[r])) \in Seq(Msgs)
      BY <2>3, RestOfThread
    <2>7. conv' \in Seq(Msgs)  BY <2>3, <2>4, <2>5, <2>6
    <2> QED  BY <2>1, <2>2, <2>7 DEF ThreadShape, HistInv
  <1>2. CASE Disconnect
    <2>1. /\ conv' = conv /\ hist' = hist /\ saved' = saved /\ plan' = plan /\ iteration' = iteration
          /\ outcome' = outcome
          /\ \A s \in Request : pc'[s] = pc[s] \/ (pc[s] = "sent" /\ pc'[s] = "done")
      BY <1>2 DEF Disconnect
    <2>2. ASSUME NEW s \in Request  PROVE HistoryOf(s)'
      <3>1. Called(s)' = Called(s)  BY <2>1, CallsStay DEF Called
      <3>2. HistoryOf(s)  BY DEF HistInv
      <3> QED  BY <2>1, <3>1, <3>2 DEF HistoryOf, Loaded, Calling
    <2> QED  BY <2>1, <2>2 DEF ThreadShape, HistInv
  <1>3. CASE Restart
    <2>1. conv' \in Seq(Msgs)
      <3>1. InterruptMarker \in Texts /\ conv \in Seq(Proper(CallIds, Texts))
        BY DEF Texts, ThreadShape, Msgs
      <3>2. Repaired(conv) \in Seq(Proper(CallIds, Texts))
        BY ONLY <3>1, RepairedNoOrphan
      <3> QED  BY <1>3, <3>2 DEF Restart, Msgs
    <2>2. ASSUME NEW s \in Request  PROVE HistoryOf(s)'
      <3>1. hist'[s] = <<>> /\ pc'[s] \in {"unsent", "done"}  BY <1>3 DEF Restart
      <3> QED  BY <3>1, EmptyAnswered DEF HistoryOf, Loaded, Calling
    <2>3. hist' \in [Request -> Seq(Msgs)] /\ saved' \in [Request -> Nat]
      BY <1>3, EmptyAnswered DEF Restart, Zero
    <2> QED  BY <2>1, <2>2, <2>3 DEF ThreadShape, HistInv
  <1>4. CASE UNCHANGED vars
    <2>1. \A s \in Request : Stays(s)  BY <1>4 DEF vars, Stays
    <2>2. HistInv'  BY <2>1, StaysHist DEF HistInv
    <2> QED  BY <1>4, <2>2 DEF vars, ThreadShape
  <1> QED  BY <1>1, <1>2, <1>3, <1>4 DEF Next

-----------------------------------------------------------------------------
(* The owner of the thread.                                                *)

(* A step that neither writes nor begins a turn.                           *)
Quiet(r) ==
    /\ conv' = conv /\ generation' = generation /\ stale' = stale
    /\ \/ pc'[r] = "done"
       \/ /\ lgen'[r] = lgen[r] /\ saved'[r] = saved[r]
          /\ pc'[r] \in Owning => pc[r] \in Owning
          /\ pc'[r] \in {"append", "replace"} => pc'[r] = pc[r] /\ hist'[r] = hist[r]

(* Every step is quiet, begins a turn, loads the thread or writes.         *)
LEMMA QuietSteps ==
    ASSUME PlaceTypeOK, CounterTypeOK, ThreadShape, NEW r \in Request,
           Handle(r) \/ HandleFrame(r) \/ Client(r) \/ RemoveFlag(r)
    PROVE  \/ Quiet(r) \/ BeginTurn(r) \/ SelectModel(r) \/ LoadHistory(r)
           \/ StoreQuery(r) \/ PauseForClient(r) \/ EndCommit(r) \/ InterruptSettle(r)
  <1> USE DEF PlaceTypeOK, CounterTypeOK, ThreadShape, Quiet, Owning, Running, Held,
    shared, control, data, peer, env
  <1>1. CASE Handle(r)
    <2>1. CASE RegisterFlag(r)
      BY <2>1 DEF RegisterFlag
    <2>2. CASE BeginTurn(r)
      BY <2>2
    <2>3. CASE SelectModel(r)
      BY <2>3
    <2>4. CASE LoadHistory(r)
      BY <2>4
    <2>5. CASE StoreQuery(r)
      BY <2>5
    <2>6. CASE Exhausted(r)
      BY <2>6 DEF Exhausted, EndWith
    <2>7. CASE DropSuperseded(r)
      BY <2>7 DEF DropSuperseded, Return, DropState, NoCalls
    <2>8. CASE StopCancelled(r)
      BY <2>8 DEF StopCancelled, EndWith
    <2>9. CASE AskModel(r)
      BY <2>9 DEF AskModel
    <2>10. CASE ModelUsesTools(r)
      <3>1. pc' = [pc EXCEPT ![r] = "tools"] \/ pc' = [pc EXCEPT ![r] = "check"]
        BY <2>10, Zenon DEF ModelUsesTools, EndWith
      <3>2. pc'[r] \in {"tools", "check"}  BY <3>1
      <3>3. pc[r] = "llm" /\ UNCHANGED <<shared, lgen, saved, stale>>
        BY <2>10 DEF ModelUsesTools
      <3> QED  BY <3>2, <3>3
    <2>11. CASE ModelEndsTurn(r)
      BY <2>11 DEF ModelEndsTurn, EndWith
    <2>12. CASE ModelConnectionError(r)
      BY <2>12 DEF ModelConnectionError, NextIteration
    <2>13. CASE ModelError(r)
      BY <2>13 DEF ModelError, EndWith
    <2>14. CASE ToolsCancelled(r)
      BY <2>14 DEF ToolsCancelled, EndWith, ToolsLeft
    <2>15. CASE RunTool(r)
      BY <2>15 DEF RunTool, EndWith, ToolsLeft, SendFails
    <2>16. CASE ToolsDone(r)
      BY <2>16 DEF ToolsDone, NoCalls, NextIteration, ToolsOver
    <2>17. CASE PauseForClient(r)
      BY <2>17
    <2>18. CASE Park(r)
      BY <2>18 DEF Park
    <2>19. CASE EndSuperseded(r)
      BY <2>19 DEF EndSuperseded, Return, DropState, NoCalls
    <2>20. CASE EndChecked(r)
      BY <2>20 DEF EndChecked
    <2>21. CASE EndCommit(r)
      BY <2>21
    <2>22. CASE ResumeLoop(r)
      BY <2>22 DEF ResumeLoop
    <2>23. CASE SweepPending(r)
      BY <2>23 DEF SweepPending, DropState, NoCalls
    <2>24. CASE InterruptSuperseded(r)
      BY <2>24 DEF InterruptSuperseded, DropState, NoCalls
    <2>25. CASE InterruptChecked(r)
      BY <2>25 DEF InterruptChecked
    <2>26. CASE InterruptSettle(r)
      BY <2>26
    <2> QED  BY <1>1, <2>1, <2>2, <2>3, <2>4, <2>5, <2>6, <2>7, <2>8, <2>9,
      <2>10, <2>11, <2>12, <2>13, <2>14, <2>15, <2>16, <2>17, <2>18, <2>19,
      <2>20, <2>21, <2>22, <2>23, <2>24, <2>25, <2>26 DEF Handle
  <1>2. CASE HandleFrame(r)
    <2>1. CASE ResultWithoutLoop(r)
      BY <2>1 DEF ResultWithoutLoop, Received
    <2>2. CASE ResultSuperseded(r)
      BY <2>2 DEF ResultSuperseded, DropState, Received, NoCalls
    <2>3. CASE ResultAccepted(r)
      BY <2>3 DEF ResultAccepted, Received
    <2>4. CASE ResultCompletes(r)
      BY <2>4 DEF ResultCompletes, NoCalls, Received
    <2>5. CASE InterruptParked(r)
      BY <2>5 DEF InterruptParked
    <2>6. CASE InterruptNotParked(r)
      BY <2>6 DEF InterruptNotParked
    <2>7. CASE InterruptFlag(r)
      BY <2>7 DEF InterruptFlag
    <2>8. CASE InterruptTooLate(r)
      BY <2>8 DEF InterruptTooLate
    <2> QED  BY <1>2, <2>1, <2>2, <2>3, <2>4, <2>5, <2>6, <2>7,
      <2>8 DEF HandleFrame
  <1>3. CASE Client(r)
    <2>1. CASE SendChat(r)
      BY <2>1 DEF SendChat
    <2>2. CASE SendInterrupt(r)
      BY <2>2 DEF SendInterrupt
    <2>3. CASE SendToolResult(r)
      BY <2>3 DEF SendToolResult
    <2> QED  BY <1>3, <2>1, <2>2, <2>3 DEF Client
  <1>4. CASE RemoveFlag(r)
    BY <1>4 DEF RemoveFlag
  <1> QED  BY <1>1, <1>2, <1>3, <1>4

(* The saved part of a history stays when it is continued.                 *)
LEMMA GrowsPrefix ==
    ASSUME NEW r \in Request, ThreadShape, Grows(r), saved[r] <= Len(hist[r])
    PROVE  /\ saved[r] <= Len(hist'[r])
           /\ SubSeq(hist'[r], 1, saved[r]) = SubSeq(hist[r], 1, saved[r])
  <1>0. hist[r] \in Seq(Msgs) /\ saved[r] \in Nat  BY DEF ThreadShape
  <1>1. PICK h \in Seq(Msgs) : h = hist[r]  BY <1>0
  <1>2. PICK n \in Nat : n = saved[r]  BY <1>0
  <1>3. n <= Len(h)  BY <1>1, <1>2
  <1>4. ASSUME NEW m \in Msgs, hist'[r] = Append(h, m)
        PROVE  n <= Len(hist'[r]) /\ SubSeq(hist'[r], 1, n) = SubSeq(h, 1, n)
    <2>1. PICK k : k = Append(h, m)  OBVIOUS
    <2>2. Len(h) \in Nat /\ k \in Seq(Msgs) /\ Len(k) = Len(h) + 1 /\ \A i \in 1 .. Len(h) : k[i] = h[i]
      BY <2>1
    <2>3. \A i \in 1 .. n : h[i] \in Msgs /\ k[i] = h[i] /\ k[i] \in Msgs
      BY <1>3, <2>2
    <2>4. PICK p : p = SubSeq(h, 1, n)  OBVIOUS
    <2>5. PICK q : q = SubSeq(k, 1, n)  OBVIOUS
    <2>6. 1 \in Int /\ n \in Int /\ n - 1 + 1 = n  OBVIOUS
    <2>7. /\ p \in Seq(Msgs) /\ Len(p) = IF 1 <= n THEN n - 1 + 1 ELSE 0
          /\ \A i \in 1 .. n - 1 + 1 : p[i] = h[1 + i - 1]
      BY ONLY <2>3, <2>4, <2>6, SubSeqProperties
    <2>8. /\ q \in Seq(Msgs) /\ Len(q) = IF 1 <= n THEN n - 1 + 1 ELSE 0
          /\ \A i \in 1 .. n - 1 + 1 : q[i] = k[1 + i - 1]
      BY ONLY <2>3, <2>5, <2>6, SubSeqProperties
    <2>9. Len(p) = n /\ Len(q) = n  BY ONLY <2>6, <2>7, <2>8, n \in Nat
    <2>10. \A i \in 1 .. n : p[i] = h[i] /\ q[i] = k[i]  BY <2>6, <2>7, <2>8
    <2>11. p = q  BY <2>3, <2>7, <2>8, <2>9, <2>10
    <2>12. n <= Len(k)  BY <1>3, <2>2
    <2> QED  BY <1>4, <2>1, <2>4, <2>5, <2>11, <2>12
  <1>5. CASE hist'[r] = hist[r]  BY <1>5
  <1>6. CASE \E m \in Msgs : hist' = [hist EXCEPT ![r] = Append(hist[r], m)]
    <2>1. PICK m \in Msgs : hist' = [hist EXCEPT ![r] = Append(hist[r], m)]  BY <1>6
    <2>2. hist'[r] = Append(h, m)  BY <1>1, <2>1 DEF ThreadShape
    <2> QED  BY <1>1, <1>2, <1>4, <2>2
  <1> QED  BY <1>5, <1>6 DEF Grows

(* A loop that is left alone keeps what it knows, unless it is superseded, *)
(* when there is nothing to keep.                                          *)
LEMMA OthersKeepOwning ==
    ASSUME NEW s \in Request, Stays(s), Orderly(hist[s]), Owns(s),
           conv' = conv \/ superseded(s)' \/ pc[s] \notin Owning \cup {"append", "replace"},
           generation' = generation \/ superseded(s)' \/ pc[s] \notin Owning \cup {"append", "replace"}
    PROVE  Orderly(hist'[s]) /\ Owns(s)'
  <1>1. pc'[s] = pc[s] /\ hist'[s] = hist[s] /\ saved'[s] = saved[s] /\ lgen'[s] = lgen[s]
    BY DEF Stays
  <1>2. CASE superseded(s)' \/ pc[s] \notin Owning \cup {"append", "replace"}
    BY <1>1, <1>2 DEF Owns
  <1>3. CASE conv' = conv /\ generation' = generation
    <2>1. superseded(s)' = superseded(s)  BY <1>1, <1>3 DEF superseded
    <2> QED  BY <1>1, <1>3, <2>1 DEF Owns
  <1> QED  BY <1>1, <1>2, <1>3

(* When the current turn writes, every other live turn is superseded.      *)
LEMMA OwnerAlone ==
    ASSUME OneCurrentTurn, NEW r \in Request, NEW s \in Request, r # s, Live(r), ~superseded(r),
           Stays(s), generation' = generation
    PROVE  superseded(s)' \/ pc[s] \notin Owning \cup {"append", "replace"}
  <1> SUFFICES ASSUME pc[s] \in Owning \cup {"append", "replace"}
               PROVE superseded(s)'
    OBVIOUS
  <1>1. Live(s)  BY DEF Live, Owning, Arriving
  <1>2. lgen[s] # lgen[r]  BY <1>1 DEF OneCurrentTurn
  <1> QED  BY <1>2 DEF superseded, Stays

(* bump_generation supersedes every live turn.                             *)
LEMMA NewTurnSupersedes ==
    ASSUME CounterTypeOK, GenerationBound, NEW s \in Request, Stays(s), generation' = generation + 1
    PROVE  superseded(s)' \/ pc[s] \notin Owning \cup {"append", "replace"}
  <1> SUFFICES ASSUME pc[s] \in Owning \cup {"append", "replace"}
               PROVE superseded(s)'
    OBVIOUS
  <1>1. Live(s)  BY DEF Live, Owning, Arriving
  <1>2. lgen[s] <= generation /\ lgen[s] \in Nat /\ generation \in Nat
    BY <1>1 DEF GenerationBound, CounterTypeOK
  <1>3. lgen'[s] = lgen[s]  BY DEF Stays
  <1> QED  BY <1>2, <1>3 DEF superseded

(* What the current turn writes makes the thread equal to its history.     *)
LEMMA WriteCompletes ==
    ASSUME ThreadShape, NEW r \in Request, HistoryOf(r), Owns(r), ~superseded(r),
           \/ StoreQuery(r)
           \/ pc[r] \in Owning /\ PersistUnsaved(r)
    PROVE  conv' = hist[r]
  <1>0. hist[r] \in Seq(Msgs) /\ conv \in Seq(Msgs) /\ saved[r] \in Nat
    BY DEF ThreadShape
  <1>1. CASE pc[r] \in Owning /\ PersistUnsaved(r)
    <2>1. saved[r] <= Len(hist[r]) /\ conv = SubSeq(hist[r], 1, saved[r])
      BY <1>1 DEF Owns
    <2>2. conv \o SubSeq(hist[r], saved[r] + 1, Len(hist[r])) = hist[r]
      BY ONLY <1>0, <2>1, RestOfThread
    <2> QED  BY <1>1, <2>2 DEF PersistUnsaved
  <1>2. CASE AppendQuery(r)
    <2>1. hist[r] # <<>>  BY <1>2 DEF AppendQuery, HistoryOf, Loaded, EndsInQuery
    <2>2. conv = Front(hist[r])  BY <1>2 DEF AppendQuery, Owns
    <2>3. Append(Front(hist[r]), Last(hist[r])) = hist[r]
      BY <1>0, <2>1, FrontThenLast
    <2> QED  BY <1>2, <2>2, <2>3 DEF AppendQuery
  <1>3. CASE ReplaceHistory(r)
    BY <1>3 DEF ReplaceHistory
  <1> QED  BY <1>1, <1>2, <1>3 DEF StoreQuery

(* A write that is not stale: the writer knows the thread, nobody else is  *)
(* current.                                                                *)
LEMMA WriterOwns ==
    ASSUME PlaceTypeOK, ThreadShape, NEW r \in Request, OwnInv, HistoryOf(r), OneCurrentTurn,
           \A s \in Request : s # r => Stays(s),
           \/ StoreQuery(r)
           \/ PersistUnsaved(r) /\ (PauseForClient(r) \/ EndCommit(r) \/ InterruptSettle(r)),
           ~stale'
    PROVE  /\ ~stale /\ ~superseded(r) /\ conv' = hist[r] /\ generation' = generation
           /\ \A s \in Request : s # r => Orderly(hist'[s]) /\ Owns(s)'
  <1>1. ~stale /\ ~superseded(r)  BY DEF StoreQuery, PersistUnsaved, NoteWrite
  <1>2. Live(r)
    BY DEF Live, Arriving, Running, Held, StoreQuery, AppendQuery, ReplaceHistory,
        PauseForClient,
      ToolsOver, EndCommit, InterruptSettle
  <1>3. pc[r] \in Owning \/ StoreQuery(r)
    BY DEF Owning, Running, Held, PauseForClient, ToolsOver, EndCommit,
        InterruptSettle
  <1>4. generation' = generation
    BY DEF StoreQuery, PauseForClient, EndCommit, InterruptSettle
  <1>5. \A s \in Request : Orderly(hist[s]) /\ Owns(s)  BY <1>1 DEF OwnInv
  <1>6. conv' = hist[r]  BY <1>1, <1>3, <1>5, WriteCompletes
  <1>7. ASSUME NEW s \in Request, s # r  PROVE Orderly(hist'[s]) /\ Owns(s)'
    <2>1. Stays(s)  BY <1>7
    <2>2. superseded(s)' \/ pc[s] \notin Owning \cup {"append", "replace"}
      BY <1>1, <1>2, <1>4, <1>7, <2>1, OwnerAlone
    <2> QED  BY <1>5, <2>1, <2>2, OthersKeepOwning
  <1> QED  BY <1>1, <1>4, <1>6, <1>7

(* A quiet step keeps what its own loop knows.                             *)
LEMMA QuietOwns ==
    ASSUME ThreadShape, NEW r \in Request, HistoryOf(r), Quiet(r), Grows(r) \/ (hist'[r] = <<>> /\ pc'[r] = "done"),
           Orderly(hist[r]), Owns(r)
    PROVE  Orderly(hist'[r]) /\ Owns(r)'
  <1>1. Orderly(hist'[r])
    <2>1. CASE Grows(r)  BY <2>1, GrowsKeeps DEF HistoryOf
    <2>2. CASE hist'[r] = <<>>  BY <2>2, OrderlyEmpty
    <2> QED  BY <2>1, <2>2
  <1>2. CASE pc'[r] = "done"
    BY <1>1, <1>2 DEF Owns, Owning, Running, Held
  <1>3. CASE pc'[r] # "done"
    <2>0. Grows(r)  BY <1>3 DEF Grows
    <2>1. /\ lgen'[r] = lgen[r] /\ saved'[r] = saved[r] /\ conv' = conv /\ generation' = generation
          /\ pc'[r] \in Owning => pc[r] \in Owning
          /\ pc'[r] \in {"append", "replace"} => pc'[r] = pc[r] /\ hist'[r] = hist[r]
      BY <1>3 DEF Quiet
    <2>2. superseded(r)' = superseded(r)  BY <2>1 DEF superseded
    <2>3. ASSUME pc'[r] \in Owning, ~superseded(r)'
          PROVE  saved'[r] <= Len(hist'[r]) /\ conv' = SubSeq(hist'[r], 1, saved'[r])
      <3>1. saved[r] <= Len(hist[r]) /\ conv = SubSeq(hist[r], 1, saved[r])
        BY <2>1, <2>2, <2>3 DEF Owns
      <3>2. saved[r] <= Len(hist'[r]) /\ SubSeq(hist'[r], 1, saved[r]) = SubSeq(hist[r], 1, saved[r])
        BY <2>0, <3>1, GrowsPrefix
      <3> QED  BY <2>1, <3>1, <3>2
    <2>4. ASSUME pc'[r] \in {"append", "replace"}, ~superseded(r)'
          PROVE  /\ hist'[r] = AddQuery(Repaired(conv'), QueryText[r])
                 /\ pc'[r] = "append" => conv' = Front(hist'[r])
      <3>1. pc'[r] = pc[r] /\ hist'[r] = hist[r] /\ conv' = conv /\ ~superseded(r)
        BY <2>1, <2>2, <2>4
      <3> QED  BY <2>4, <3>1 DEF Owns
    <2> QED  BY <1>1, <2>3, <2>4 DEF Owns
  <1> QED  BY <1>1, <1>2, <1>3

(* A loaded history is the repaired thread and the query; where it will be *)
(* appended, the thread is its front.                                      *)
LEMMA LoadOwns ==
    ASSUME PlaceTypeOK, ThreadShape, NEW r \in Request, LoadHistory(r), Orderly(conv)
    PROVE  Orderly(hist'[r]) /\ Owns(r)'
  <1>1. PICK k : k = Repaired(conv)  OBVIOUS
  <1>2. PICK h : h = AddQuery(k, QueryText[r])  OBVIOUS
  <1>3. k \in Seq(Msgs) /\ h \in Seq(Msgs) /\ Orderly(h)  BY <1>1, <1>2, QueryLoaded
  <1>4. hist'[r] = h /\ conv' = conv
    BY <1>1, <1>2 DEF LoadHistory, Repaired, ThreadShape, shared
  <1>5. pc'[r] = IF k = conv /\ (k = <<>> \/ ~is_user_message(Last(k))) THEN "append" ELSE "replace"
    BY <1>1 DEF LoadHistory, Repaired, PlaceTypeOK
  <1>6. ASSUME k = conv, k = <<>> \/ ~is_user_message(Last(k))
        PROVE conv = Front(h)
    <2>1. PICK m : m = UserText(QueryText[r])  OBVIOUS
    <2>2. m \in Msgs  BY <2>1 DEF UserText, Msgs, Proper, Message, Texts
    <2>3. h = Append(conv, m)  BY <1>2, <1>6, <2>1 DEF AddQuery
    <2> QED  BY <1>3, <1>6, <2>2, <2>3, LastOfAppend
  <1> QED  BY <1>1, <1>2, <1>3, <1>4, <1>5, <1>6 DEF Owns, Owning, Running, Held

(* Every step keeps OwnInv.                                                *)
LEMMA OwnStep ==
    ASSUME PlaceTypeOK, CounterTypeOK, GenerationBound, OneCurrentTurn,
           CallShape, ThreadShape, CallInv, HistInv, OwnInv, [Next]_vars
    PROVE  OwnInv'
  <1> SUFFICES ASSUME ~stale'
               PROVE Orderly(conv') /\ \A s \in Request : Orderly(hist'[s]) /\ Owns(s)'
    BY DEF OwnInv
  <1>1. ASSUME NEW r \in Request, Handle(r) \/ HandleFrame(r) \/ Client(r) \/ RemoveFlag(r)
        PROVE  Orderly(conv') /\ \A s \in Request : Orderly(hist'[s]) /\ Owns(s)'
    <2>1. CallsOf(r) /\ HistoryOf(r)  BY DEF CallInv, HistInv
    <2>2. \A s \in Request : s # r => Stays(s)  BY <1>1, OthersStay
    <2>3. HistoryOf(r)' /\ (Grows(r) \/ (hist'[r] = <<>> /\ pc'[r] = "done") \/ LoadHistory(r))
      BY <1>1, <2>1, HistStep
    <2>4. CASE LoadHistory(r)
      <3>1. ~stale /\ conv' = conv /\ generation' = generation
        BY <2>4 DEF LoadHistory, shared
      <3>2. Orderly(conv) /\ \A s \in Request : Orderly(hist[s]) /\ Owns(s)
        BY <3>1 DEF OwnInv
      <3>3. Orderly(hist'[r]) /\ Owns(r)'  BY <2>4, <3>2, LoadOwns
      <3>4. \A s \in Request : s # r => Orderly(hist'[s]) /\ Owns(s)'
        BY <2>2, <3>1, <3>2, OthersKeepOwning
      <3> QED  BY <3>1, <3>2, <3>3, <3>4
    <2>5. CASE Quiet(r) /\ ~LoadHistory(r)
      <3>1. ~stale /\ conv' = conv /\ generation' = generation  BY <2>5 DEF Quiet
      <3>2. Orderly(conv) /\ \A s \in Request : Orderly(hist[s]) /\ Owns(s)
        BY <3>1 DEF OwnInv
      <3>4. Orderly(hist'[r]) /\ Owns(r)'  BY <2>1, <2>3, <2>5, <3>2, QuietOwns
      <3>5. \A s \in Request : s # r => Orderly(hist'[s]) /\ Owns(s)'
        BY <2>2, <3>1, <3>2, OthersKeepOwning
      <3> QED  BY <3>1, <3>2, <3>4, <3>5
    <2>6. CASE BeginTurn(r) \/ SelectModel(r)
      <3>1. /\ ~stale /\ conv' = conv /\ generation' = generation + 1
            /\ pc'[r] \in {"bumped", "done"} /\ hist'[r] \in {hist[r], <<>>}
        BY <2>6 DEF BeginTurn, SelectModel, Return, DropState, bump_generation,
            data, PlaceTypeOK, ThreadShape
      <3>2. Orderly(conv) /\ \A s \in Request : Orderly(hist[s]) /\ Owns(s)
        BY <3>1 DEF OwnInv
      <3>3. Orderly(hist'[r]) /\ Owns(r)'
        BY <3>1, <3>2, OrderlyEmpty DEF Owns, Owning, Running, Held
      <3>4. \A s \in Request : s # r => Orderly(hist'[s]) /\ Owns(s)'
        BY <2>2, <3>1, <3>2, NewTurnSupersedes, OthersKeepOwning
      <3> QED  BY <3>1, <3>2, <3>3, <3>4
    <2>7. CASE StoreQuery(r) \/ PauseForClient(r) \/ EndCommit(r) \/ InterruptSettle(r)
      <3>1. PauseForClient(r) \/ EndCommit(r) \/ InterruptSettle(r) => PersistUnsaved(r)
        BY DEF PauseForClient, EndCommit, InterruptSettle
      <3>2. /\ ~stale /\ ~superseded(r) /\ conv' = hist[r] /\ generation' = generation
            /\ \A s \in Request : s # r => Orderly(hist'[s]) /\ Owns(s)'
        BY <2>1, <2>2, <2>7, <3>1, WriterOwns
      <3>3. Orderly(hist[r])  BY <3>2 DEF OwnInv
      <3>4. CASE StoreQuery(r) \/ PauseForClient(r)
        <4>1. hist'[r] = hist[r] /\ saved'[r] = Len(hist[r]) /\ pc'[r] \in {"top", "park"}
          BY <3>4 DEF StoreQuery, PauseForClient, PlaceTypeOK, ThreadShape
        <4>2. hist[r] \in Seq(Msgs)  BY DEF ThreadShape
        <4>3. SubSeq(hist[r], 1, Len(hist[r])) = hist[r] /\ Len(hist[r]) \in Nat
          BY <4>2, SubSeqFull
        <4>4. Owns(r)'  BY <3>2, <4>1, <4>3 DEF Owns
        <4> QED  BY <3>2, <3>3, <4>1, <4>4
      <3>5. CASE EndCommit(r) \/ InterruptSettle(r)
        <4>1. hist'[r] = <<>> /\ pc'[r] = "done"
          BY <3>5 DEF EndCommit, InterruptSettle, Return, DropState, PlaceTypeOK,
              ThreadShape
        <4>2. Orderly(hist'[r]) /\ Owns(r)'
          BY <4>1, OrderlyEmpty DEF Owns, Owning, Running, Held
        <4> QED  BY <3>2, <3>3, <4>2
      <3> QED  BY <2>7, <3>4, <3>5
    <2> QED  BY <1>1, <2>4, <2>5, <2>6, <2>7, QuietSteps
  <1>2. CASE Disconnect
    <2>1. /\ conv' = conv /\ generation' = generation /\ stale' = stale /\ hist' = hist /\ saved' = saved
          /\ lgen' = lgen /\ \A s \in Request : pc'[s] = pc[s] \/ (pc[s] = "sent" /\ pc'[s] = "done")
      BY <1>2 DEF Disconnect, shared, data
    <2>2. Orderly(conv) /\ \A s \in Request : Orderly(hist[s]) /\ Owns(s)
      BY <2>1 DEF OwnInv
    <2>3. ASSUME NEW s \in Request  PROVE Owns(s)'
      <3>1. superseded(s)' = superseded(s)  BY <2>1 DEF superseded
      <3> QED  BY <2>1, <2>2, <3>1 DEF Owns, Owning, Running, Held
    <2> QED  BY <2>1, <2>2, <2>3
  <1>3. CASE Restart
    <2>1. Orderly(conv)  BY <1>3 DEF Restart, OwnInv
    <2>2. Orderly(Repaired(conv))
      <3>1. conv \in Seq(Proper(CallIds, Texts))  BY DEF ThreadShape, Msgs
      <3> QED  BY ONLY <2>1, <3>1, RepairedOrderly
    <2>3. /\ conv' = Repaired(conv) /\ \A s \in Request : hist'[s] = <<>> /\ pc'[s] \in {"unsent", "done"}
      BY <1>3 DEF Restart
    <2>4. \A s \in Request : Owns(s)'  BY <2>3 DEF Owns, Owning, Running, Held
    <2> QED  BY <2>2, <2>3, <2>4, OrderlyEmpty
  <1>4. CASE UNCHANGED vars
    <2>1. ~stale /\ conv' = conv /\ generation' = generation
      BY <1>4 DEF vars, shared
    <2>2. \A s \in Request : Stays(s)  BY <1>4 DEF vars, Stays, control, data, peer
    <2> QED  BY <2>1, <2>2, OthersKeepOwning DEF OwnInv
  <1> QED  BY <1>1, <1>2, <1>3, <1>4 DEF Next

(* What the theorems about the thread rest on, together with ControlInv.   *)
ThreadInv == CallShape /\ ThreadShape /\ CallInv /\ HistInv /\ OwnInv

(* It holds at first ...                                                   *)
LEMMA ThreadInit == Init => ThreadInv
  <1> SUFFICES ASSUME Init  PROVE ThreadInv
    OBVIOUS
  <1> USE DEF Init, Zero, One, Nothing
  <1>1. <<>> \in Seq(Kinds) /\ <<>> \in Seq(Msgs)  BY EmptyAnswered
  <1>2. CallShape /\ ThreadShape  BY <1>1 DEF CallShape, ThreadShape
  <1>3. CallInv  BY DEF CallInv, CallsOf, Idling
  <1>4. HistInv  BY EmptyAnswered DEF HistInv, HistoryOf, Loaded, Calling
  <1>5. OwnInv  BY OrderlyEmpty DEF OwnInv, Owns, Owning, Running, Held
  <1> QED  BY <1>2, <1>3, <1>4, <1>5 DEF ThreadInv

(* ... and every step keeps it, ...                                        *)
LEMMA ThreadNext == ControlInv /\ ThreadInv /\ [Next]_vars => ThreadInv'
  BY CallShapeStep, CallInvStep, ThreadStep, OwnStep DEF ControlInv, ThreadInv

(* ... so it holds in every reachable state, for any number of requests,   *)
(* any queries, any plans and any limits.                                  *)
THEOREM ThreadInvHolds == Spec => []ThreadInv
  BY ThreadInit, ThreadNext, ControlInvHolds, PTL DEF Spec

(* What the model is asked with.                                           *)
LEMMA AskedIsAnswered ==
    ASSUME ThreadInv, NEW r \in Request, pc[r] = "llm"
    PROVE  hist[r] \in Seq(Proper(CallIds, Texts)) /\ NoOrphanedToolUse(hist[r]) /\ EndsInQuery(hist[r])
  <1>1. hist[r] \in Seq(Msgs)  BY DEF ThreadInv, ThreadShape
  <1>2. AnsweredWithin(hist[r]) /\ EndsInQuery(hist[r])
    BY DEF ThreadInv, HistInv, HistoryOf, Loaded
  <1>3. Last(hist[r]).uses = {}  BY <1>1, <1>2, EndOfQuery
  <1> QED  BY <1>1, <1>2, <1>3, AnsweredMeansNoOrphan DEF Msgs

(* No request to the model has a tool use without a result right behind    *)
(* it, whatever crash, interrupt, lost connection or stale write the       *)
(* thread has been through.                                                *)
THEOREM ModelsSeeNoOrphan == Spec => []ModelSeesNoOrphan
  <1>1. ThreadInv => ModelSeesNoOrphan
    BY AskedIsAnswered DEF ModelSeesNoOrphan
  <1> QED  BY <1>1, ThreadInvHolds, PTL

(* As long as no superseded turn has written to the thread, every request  *)
(* to the model is a valid conversation that ends in a user message.       *)
THEOREM ModelsSeeValidThreads == Spec => []ModelSeesValidThread
  <1>1. ThreadInv => ModelSeesValidThread
    <2> SUFFICES ASSUME ThreadInv, ~stale, NEW r \in Request, pc[r] = "llm"
                 PROVE  ReplayValid(hist[r]) /\ is_user_message(Last(hist[r]))
      BY DEF ModelSeesValidThread
    <2>1. /\ hist[r] \in Seq(Proper(CallIds, Texts)) /\ NoOrphanedToolUse(hist[r])
          /\ EndsInQuery(hist[r])
      BY AskedIsAnswered
    <2>2. Orderly(hist[r])  BY DEF ThreadInv, OwnInv
    <2> QED  BY <2>1, <2>2, OrderlyIsValid DEF EndsInQuery
  <1> QED  BY <1>1, ThreadInvHolds, PTL

(* As long as no superseded turn has written, the stored thread is the     *)
(* saved part of the current turn's history, so persist_unsaved continues  *)
(* it without a gap or a repetition.                                       *)
THEOREM OwnersKnowTheirThread == Spec => []OwnerKnowsThread
  <1>1. ThreadInv => OwnerKnowsThread
    BY DEF ThreadInv, OwnInv, Owns, Owning, OwnerKnowsThread
  <1> QED  BY <1>1, ThreadInvHolds, PTL

-----------------------------------------------------------------------------
(* n holds everything m does, ...                                          *)
Within(m, n) == m.texts \subseteq n.texts /\ m.uses \subseteq n.uses /\ m.results \subseteq n.results

(* ... and b everything that a does.                                       *)
Carried(a, b) == \A i \in DOMAIN a : \E j \in DOMAIN b : Within(a[i], b[j])

(* Nothing is lost in two steps that lose nothing.                         *)
LEMMA CarriedTransitive ==
    ASSUME NEW a, NEW b, NEW c, Carried(a, b), Carried(b, c)
    PROVE  Carried(a, c)
  <1> SUFFICES ASSUME NEW i \in DOMAIN a
               PROVE \E j \in DOMAIN c : Within(a[i], c[j])
    BY DEF Carried
  <1>1. PICK j \in DOMAIN b : Within(a[i], b[j])  BY DEF Carried
  <1>2. PICK k \in DOMAIN c : Within(b[j], c[k])  BY DEF Carried
  <1>3. Within(a[i], c[k])  BY <1>1, <1>2 DEF Within
  <1> QED  BY <1>3

(* A thread that carries another has its content.                          *)
LEMMA CarriedContent ==
    ASSUME NEW a, NEW b, Carried(a, b)
    PROVE  \A k \in 1 .. 3 : Content(a)[k] \subseteq Content(b)[k]
  <1>1. UNION {a[i].texts : i \in DOMAIN a} \subseteq UNION {b[i].texts : i \in DOMAIN b}
    BY DEF Carried, Within
  <1>2. UNION {a[i].uses : i \in DOMAIN a} \subseteq UNION {b[i].uses : i \in DOMAIN b}
    BY DEF Carried, Within
  <1>3. UNION {a[i].results : i \in DOMAIN a} \subseteq UNION {b[i].results : i \in DOMAIN b}
    BY DEF Carried, Within
  <1> QED  BY <1>1, <1>2, <1>3 DEF Content

(* Appending loses nothing, ...                                            *)
LEMMA CarriedAppend ==
    ASSUME NEW s \in Seq(Msgs), NEW m \in Msgs
    PROVE  Carried(s, Append(s, m))
  <1>1. PICK k : k = Append(s, m)  OBVIOUS
  <1>2. Len(s) \in Nat /\ DOMAIN s = 1 .. Len(s) /\ DOMAIN k = 1 .. Len(s) + 1
        /\ \A i \in 1 .. Len(s) : k[i] = s[i]
    BY <1>1
  <1>3. \A i \in DOMAIN s : i \in DOMAIN k /\ k[i] = s[i]  BY <1>2
  <1> QED  BY <1>1, <1>3 DEF Carried, Within

(* ... nor does replacing the last message by one that holds it, ...       *)
LEMMA CarriedMerge ==
    ASSUME NEW s \in Seq(Msgs), s # <<>>, NEW m \in Msgs, Within(Last(s), m)
    PROVE  Carried(s, Append(Front(s), m))
  <1>0. Len(s) \in Nat \ {0} /\ DOMAIN s = 1 .. Len(s)  OBVIOUS
  <1>1. PICK f : f = Front(s)  OBVIOUS
  <1>2. f \in Seq(Msgs) /\ Len(f) = Len(s) - 1 /\ \A i \in 1 .. Len(s) - 1 : f[i] = s[i]
    BY <1>1, FrontProperties
  <1>3. PICK k : k = Append(f, m)  OBVIOUS
  <1>4. DOMAIN k = 1 .. Len(s) /\ k[Len(s)] = m /\ \A i \in 1 .. Len(s) - 1 : k[i] = s[i]
    <2>1. k \in Seq(Msgs) /\ Len(k) = Len(f) + 1 /\ k[Len(f) + 1] = m
          /\ \A i \in 1 .. Len(f) : k[i] = f[i]
      BY <1>2, <1>3
    <2>2. Len(f) + 1 = Len(s) /\ 1 .. Len(f) = 1 .. Len(s) - 1  BY <1>0, <1>2
    <2> QED  BY <1>2, <2>1, <2>2
  <1>5. ASSUME NEW i \in DOMAIN s  PROVE i \in DOMAIN k /\ Within(s[i], k[i])
    <2>1. CASE i = Len(s)  BY <1>0, <1>4, <2>1 DEF Last
    <2>2. CASE i \in 1 .. Len(s) - 1  BY <1>0, <1>4, <2>2 DEF Within
    <2>3. i = Len(s) \/ i \in 1 .. Len(s) - 1
      <3>1. i \in 1 .. Len(s) /\ Len(s) \in Nat  BY <1>0
      <3> QED  BY ONLY <3>1
    <2> QED  BY <2>1, <2>2, <2>3
  <1> QED  BY <1>1, <1>3, <1>5 DEF Carried

(* ... nor does completing a prefix, ...                                   *)
LEMMA CarriedPrefix ==
    ASSUME NEW h \in Seq(Msgs), NEW n \in Nat, n <= Len(h)
    PROVE  Carried(SubSeq(h, 1, n), h)
  <1>1. Len(h) \in Nat /\ DOMAIN h = 1 .. Len(h) /\ 1 \in Int /\ n \in Int /\ n - 1 + 1 = n
    OBVIOUS
  <1>2. \A i \in 1 .. n : h[i] \in Msgs  BY <1>1
  <1>3. PICK p : p = SubSeq(h, 1, n)  OBVIOUS
  <1>4. /\ p \in Seq(Msgs) /\ Len(p) = IF 1 <= n THEN n - 1 + 1 ELSE 0
        /\ \A i \in 1 .. n - 1 + 1 : p[i] = h[1 + i - 1]
    BY ONLY <1>1, <1>2, <1>3, SubSeqProperties
  <1>5. Len(p) = n  BY ONLY <1>1, <1>4, n \in Nat
  <1>6. DOMAIN p = 1 .. n /\ \A i \in 1 .. n : p[i] = h[i] /\ i \in 1 .. Len(h)
    BY <1>1, <1>4, <1>5
  <1>7. \A i \in DOMAIN p : i \in DOMAIN h /\ p[i] = h[i]  BY <1>1, <1>6
  <1> QED  BY <1>3, <1>7 DEF Carried, Within

(* ... nor doing nothing.                                                  *)
LEMMA CarriedRefl == ASSUME NEW s  PROVE Carried(s, s)
  BY DEF Carried, Within

(* The repair of an orderly thread loses nothing, ...                      *)
LEMMA RepairCarries ==
    ASSUME ThreadShape, Orderly(conv)
    PROVE  Carried(conv, Repaired(conv))
  <1>0. conv \in Seq(Msgs) /\ conv \in Seq(Proper(CallIds, Texts))
    BY DEF ThreadShape, Msgs
  <1>1. PICK k : k = Repaired(conv)  OBVIOUS
  <1>2. k = AnswerTail(conv)  BY ONLY <1>0, <1>1, Orderly(conv), RepairedOrderly
  <1>3. Carried(conv, k)
    <2>1. CASE conv # <<>> /\ Last(conv).uses # {}
      <3>1. PICK m : m = UserResults(Last(conv).uses)  OBVIOUS
      <3>2. Last(conv) \in Msgs  BY <1>0, <2>1 DEF Last
      <3>3. m \in Msgs
        <4>1. "answer" \in Texts /\ Last(conv).uses \in SUBSET CallIds
          BY <3>2 DEF Msgs, Proper, Message, Texts
        <4> QED  BY <3>1, <4>1, ProperMessages
      <3>4. k = Append(conv, m)  BY <1>2, <2>1, <3>1 DEF AnswerTail
      <3> QED  BY <1>0, <3>3, <3>4, CarriedAppend
    <2>2. CASE ~(conv # <<>> /\ Last(conv).uses # {})
      <3>1. k = conv  BY <1>2, <2>2 DEF AnswerTail
      <3> QED  BY <3>1, CarriedRefl
    <2> QED  BY <2>1, <2>2
  <1> QED  BY <1>1, <1>3

(* ... and neither does adding the query to it.                            *)
LEMMA QueryCarries ==
    ASSUME ThreadShape, Orderly(conv), NEW r \in Request
    PROVE  Carried(conv, AddQuery(Repaired(conv), QueryText[r]))
  <1>1. PICK k : k = Repaired(conv)  OBVIOUS
  <1>2. k \in Seq(Msgs)  BY <1>1, QueryLoaded
  <1>3. Carried(conv, k)  BY <1>1, RepairCarries
  <1>4. PICK h : h = AddQuery(k, QueryText[r])  OBVIOUS
  <1>5. Carried(k, h)
    <2>1. CASE k # <<>> /\ is_user_message(Last(k))
      <3>1. PICK m : m = merge_user_query_into_tail(Last(k), QueryText[r])  OBVIOUS
      <3>2. Last(k) \in Msgs  BY <1>2, <2>1 DEF Last
      <3>3. m \in Msgs /\ Within(Last(k), m)
        BY <2>1, <3>1, <3>2 DEF merge_user_query_into_tail, Msgs, Proper, Message,
            Texts, Within, is_user_message
      <3>4. h = Append(Front(k), m)  BY <1>4, <2>1, <3>1 DEF AddQuery
      <3> QED  BY <1>2, <2>1, <3>3, <3>4, CarriedMerge
    <2>2. CASE ~(k # <<>> /\ is_user_message(Last(k)))
      <3>1. PICK m : m = UserText(QueryText[r])  OBVIOUS
      <3>2. m \in Msgs  BY <3>1 DEF UserText, Msgs, Proper, Message, Texts
      <3>3. h = Append(k, m)  BY <1>4, <2>2, <3>1 DEF AddQuery
      <3> QED  BY <1>2, <3>2, <3>3, CarriedAppend
    <2> QED  BY <2>1, <2>2
  <1>6. Carried(conv, h)  BY <1>3, <1>5, CarriedTransitive
  <1> QED  BY <1>1, <1>4, <1>6

(* No step loses a message's content, unless a superseded turn has         *)
(* written.                                                                *)
LEMMA WritesCarry ==
    ASSUME ControlInv, ThreadInv, [Next]_vars, ~stale'
    PROVE  Carried(conv, conv')
  <1> USE DEF ControlInv, ThreadInv
  <1>1. ASSUME NEW r \in Request, StoreQuery(r) \/ PauseForClient(r) \/ EndCommit(r) \/ InterruptSettle(r)
        PROVE  Carried(conv, conv')
    <2>1. ~stale /\ ~superseded(r)
      BY <1>1 DEF StoreQuery, PauseForClient, EndCommit, InterruptSettle,
          PersistUnsaved, NoteWrite
    <2>2. HistoryOf(r) /\ Owns(r) /\ Orderly(conv)  BY <2>1 DEF HistInv, OwnInv
    <2>3. hist[r] \in Seq(Msgs) /\ saved[r] \in Nat  BY DEF ThreadShape
    <2>4. CASE StoreQuery(r)
      <3>1. conv' = hist[r]  BY <2>1, <2>2, <2>4, WriteCompletes
      <3>2. pc[r] \in {"append", "replace"}
        BY <2>4 DEF StoreQuery, AppendQuery, ReplaceHistory
      <3>3. hist[r] = AddQuery(Repaired(conv), QueryText[r])
        BY <2>1, <2>2, <3>2 DEF Owns
      <3>4. Carried(conv, AddQuery(Repaired(conv), QueryText[r]))
        BY <2>2, QueryCarries
      <3> QED  BY <3>1, <3>3, <3>4
    <2>5. CASE PauseForClient(r) \/ EndCommit(r) \/ InterruptSettle(r)
      <3>1. pc[r] \in Owning /\ PersistUnsaved(r)
        BY <2>5 DEF Owning, Running, Held, PauseForClient, ToolsOver, EndCommit,
            InterruptSettle
      <3>2. conv' = hist[r]  BY <2>1, <2>2, <3>1, WriteCompletes
      <3>3. saved[r] <= Len(hist[r]) /\ conv = SubSeq(hist[r], 1, saved[r])
        BY <2>1, <2>2, <3>1 DEF Owns
      <3>4. Carried(SubSeq(hist[r], 1, saved[r]), hist[r])
        BY <2>3, <3>3, CarriedPrefix
      <3> QED  BY <3>2, <3>3, <3>4
    <2> QED  BY <1>1, <2>4, <2>5
  <1>2. CASE Restart
    <2>1. Orderly(conv) /\ conv' = Repaired(conv)  BY <1>2 DEF Restart, OwnInv
    <2> QED  BY <2>1, RepairCarries
  <1>3. CASE conv' = conv
    <2>1. Carried(conv, conv)  BY CarriedRefl
    <2> QED  BY <1>3, <2>1
  <1>4. ASSUME NEW r \in Request, Handle(r) \/ HandleFrame(r) \/ RemoveFlag(r) \/ Client(r)
        PROVE  Carried(conv, conv')
    <2>1. conv' = conv \/ StoreQuery(r) \/ PauseForClient(r) \/ EndCommit(r) \/ InterruptSettle(r)
      BY <1>4, OnlyWritersWrite
    <2> QED  BY <1>1, <1>3, <2>1
  <1>5. CASE Disconnect \/ UNCHANGED vars
    <2>1. conv' = conv  BY <1>5 DEF Disconnect, vars, shared
    <2> QED  BY <1>3, <2>1
  <1> QED  BY <1>2, <1>4, <1>5 DEF Next

(* No step makes the thread forget a query, a tool call or a tool result,  *)
(* unless a superseded turn has written: replacing the thread by the       *)
(* repaired history, appending to it and repairing it at a restart         *)
(* included.                                                               *)
THEOREM NothingIsForgotten == Spec => NothingForgotten
  <1>1. ControlInv /\ ThreadInv /\ [Next]_vars =>
          [~stale' => \A k \in 1 .. 3 : Content(conv)[k] \subseteq Content(conv')[k]]_vars
    BY WritesCarry, CarriedContent
  <1> QED  BY <1>1, ControlInvHolds, ThreadInvHolds, PTL DEF Spec, NothingForgotten
=============================================================================
