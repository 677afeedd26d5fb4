------------------------ MODULE SessionLifecycleProofs ------------------------
(***************************************************************************)
(* The safety properties of SessionLifecycle, for any connections, any     *)
(* number of handlers and any cap.                                         *)
(*                                                                         *)
(* Each property is strengthened to an inductive invariant of its own; the *)
(* lemmas show that a step keeps it, given the ones before it, with one    *)
(* step of the proof for each action.  IInv is their conjunction.          *)
(***************************************************************************)
EXTENDS SessionLifecycle, FiniteSetTheorems, TLAPS

(* A handler that is at work has a connection, and a resuming one has a    *)
(* session.  A timeout task outlives the handler that armed it, and the    *)
(* prompt outstanding on a connection is that connection's.                *)
HandlerInv ==
  /\ \A h \in Handlers : InFlight(h) \/ h \in timers => conn[h] \in Conns
  /\ \A h \in Handlers : h \in timers => at[h] = "done"
  /\ \A h \in Handlers : at[h] \in {"found", "cleared"} => target[h] \in Handlers
  /\ \A k \in Conns :
       phase[k] = "authenticating" =>
         deadline[k] \in timers /\ conn[deadline[k]] = k

ClaimInv == HandlerInv /\ ClaimIsExclusive

(* A shell is held by its handler until its task drives it.  From the      *)
(* moment it is registered the store reaches it, or it is ending.          *)
Holding == {"spawned", "inserted", "checked"}

ShellInv ==
  /\ \A s \in Handlers : shell[s] = "open" <=> at[s] \in Holding
  /\ \A s \in Handlers : at[s] \notin Holding \cup {"done"} => shell[s] = "none"
  /\ \A s \in in_store : at[s] \in {"inserted", "checked", "done"}
  /\ \A s \in Handlers :
       at[s] \in {"inserted", "checked"} \/ shell[s] = "driven" =>
         s \in in_store \/ Ending(s)

(* The switch is thrown before the sweep, so an opener that looks again    *)
(* after the sweep sees it.                                                *)
LocalInv ==
  /\ swept => access_off
  /\ \A s \in Handlers : auth[s] = "Local" => shell[s] # "none"
  /\ TurnedOffLeavesNoLocalShell

OwnerInv ==
  /\ \A k \in Conns : phase[k] = "running" => running[k] \in Handlers
  /\ OwnersWillDetach

CapInv == Cardinality(in_store) <= MaxSessions

IInv ==
  /\ TypeOK
  /\ ClaimInv
  /\ ShellInv
  /\ LocalInv
  /\ OwnerInv
  /\ ClosedIsUnowned
  /\ CapInv

-------------------------------------------------------------------------------

(* No step leaves the types. *)
LEMMA TypeInductive ==
  TypeOK /\ [Next]_vars => TypeOK'
<1> SUFFICES ASSUME TypeOK, [Next]_vars
             PROVE  TypeOK'
  OBVIOUS
<1> USE DEF TypeOK, Awaiting, OnThread, connVars, handlerVars, sessionVars,
      storeVars, switchVars
<1>1. CASE Next
  <2>1. ASSUME NEW k \in Conns, NEW h \in Handlers, OpensSsh(k, h)
       PROVE  TypeOK'
    BY <2>1 DEF OpensSsh, Claims, Moves
  <2>2. ASSUME NEW k \in Conns, NEW h \in Handlers, OpensLocal(k, h)
       PROVE  TypeOK'
    BY <2>2 DEF OpensLocal, Claims, Moves
  <2>3. ASSUME NEW k \in Conns, NEW h \in Handlers, Answers(k, h)
       PROVE  TypeOK'
    BY <2>3 DEF Answers, Claims, Moves
  <2>4. ASSUME NEW k \in Conns, NEW h \in Handlers, NEW s \in Handlers, Resumes(k, h, s)
       PROVE  TypeOK'
    BY <2>4 DEF Resumes, Claims, Moves
  <2>5. ASSUME NEW h \in Handlers, Connects(h)
       PROVE  TypeOK'
    BY <2>5 DEF Connects, Moves
  <2>6. ASSUME NEW h \in Handlers, Authenticates(h)
       PROVE  TypeOK'
    BY <2>6 DEF Authenticates, Moves
  <2>7. ASSUME NEW h \in Handlers, Prompts(h)
       PROVE  TypeOK'
    BY <2>7 DEF Prompts, Moves
  <2>8. ASSUME NEW h \in Handlers, OpensShell(h)
       PROVE  TypeOK'
    BY <2>8 DEF OpensShell, Moves
  <2>9. ASSUME NEW h \in Handlers, Fails(h)
       PROVE  TypeOK'
    BY <2>9 DEF Fails, Refuses, Moves, Reset
  <2>10. ASSUME NEW h \in Handlers, Inserts(h)
       PROVE  TypeOK'
    BY <2>10 DEF Inserts, Refuses, Moves, Reset, Expirable
  <2>11. ASSUME NEW h \in Handlers, Rechecks(h)
       PROVE  TypeOK'
    BY <2>11 DEF Rechecks, Withdraws, Refuses, Moves, Reset
  <2>12. ASSUME NEW h \in Handlers, Starts(h)
       PROVE  TypeOK'
    BY ZenonT(30), <2>12 DEF Starts, Moves
  <2>13. ASSUME NEW h \in Handlers, StartsTooLate(h)
       PROVE  TypeOK'
    BY <2>13 DEF StartsTooLate, Withdraws, Refuses, Moves, Reset
  <2>14. ASSUME NEW h \in Handlers, Checks(h)
       PROVE  TypeOK'
    BY <2>14 DEF Checks, Refuses, Moves, Reset
  <2>15. ASSUME NEW h \in Handlers, Joins(h)
       PROVE  TypeOK'
    <3> USE <2>15 DEF Joins, Moves
    <3>1. conn[h] \in Conns \cup {Nobody} /\ target[h] \in Handlers \cup {Nothing}
      OBVIOUS
    <3>2. CASE Claimed(h)
      BY ZenonT(30), <3>1, <3>2
    <3>3. CASE ~Claimed(h)
      BY <3>1, <3>3
    <3> QED BY <3>2, <3>3
  <2>16. ASSUME NEW h \in Handlers, JoinsTooLate(h)
       PROVE  TypeOK'
    BY <2>16 DEF JoinsTooLate, Refuses, Moves, Reset
  <2>17. ASSUME NEW h \in Handlers, PromptExpires(h)
       PROVE  TypeOK'
    BY <2>17 DEF PromptExpires
  <2>18. ASSUME NEW k \in Conns, SocketDies(k)
       PROVE  TypeOK'
    BY <2>18 DEF SocketDies
  <2>19. ASSUME NEW k \in Conns, ConnectionEnds(k)
       PROVE  TypeOK'
    BY <2>19 DEF ConnectionEnds, Detaches
  <2>20. ASSUME NEW k \in Conns, ClientCloses(k)
       PROVE  TypeOK'
    BY <2>20 DEF ClientCloses
  <2>21. ASSUME NEW s \in Handlers, PublishFindsClosed(s)
       PROVE  TypeOK'
    BY <2>21 DEF PublishFindsClosed
  <2>22. ASSUME NEW s \in Handlers, ShellExits(s)
       PROVE  TypeOK'
    BY <2>22 DEF ShellExits, Stops
  <2>23. ASSUME NEW s \in Handlers, ShellReadsClose(s)
       PROVE  TypeOK'
    BY <2>23 DEF ShellReadsClose, Stops
  <2>24. ASSUME NEW s \in Handlers, ShellCleansUp(s)
       PROVE  TypeOK'
    BY <2>24 DEF ShellCleansUp
  <2>25. ASSUME NEW s \in Handlers, Terminates(s)
       PROVE  TypeOK'
    BY <2>25 DEF Terminates
  <2>26. ASSUME Reaps
       PROVE  TypeOK'
    BY <2>26 DEF Reaps, Expirable
  <2>27. ASSUME TurnsOff
       PROVE  TypeOK'
    BY <2>27 DEF TurnsOff
  <2>28. ASSUME Sweeps
       PROVE  TypeOK'
    BY <2>28 DEF Sweeps
  <2> QED
    BY <1>1, <2>1, <2>2, <2>3, <2>4, <2>5, <2>6, <2>7, <2>8, <2>9,
         <2>10, <2>11, <2>12, <2>13, <2>14, <2>15, <2>16, <2>17, <2>18, <2>19,
         <2>20, <2>21, <2>22, <2>23, <2>24, <2>25, <2>26, <2>27, <2>28
    DEF Next, Proceeds
<1>2. CASE UNCHANGED vars
  BY <1>2 DEF vars
<1> QED BY <1>1, <1>2

(* No step lets a second handler work on a connection, nor loses a prompt's *)
(* timeout.                                                                *)
LEMMA ClaimInductive ==
  TypeOK /\ ClaimInv /\ [Next]_vars => ClaimInv'
<1> SUFFICES ASSUME TypeOK, ClaimInv, [Next]_vars
             PROVE  ClaimInv'
  OBVIOUS
<1> USE DEF TypeOK, ClaimInv, HandlerInv, ClaimIsExclusive, InFlight, Claimed,
      Awaiting, OnThread, connVars, handlerVars, sessionVars, storeVars,
      switchVars
<1>1. CASE Next
  <2>1. ASSUME NEW k \in Conns, NEW h \in Handlers, OpensSsh(k, h)
       PROVE  ClaimInv'
    BY <2>1 DEF OpensSsh, Claims, Moves
  <2>2. ASSUME NEW k \in Conns, NEW h \in Handlers, OpensLocal(k, h)
       PROVE  ClaimInv'
    BY SMTT(30), <2>2 DEF OpensLocal, Claims, Moves
  <2>3. ASSUME NEW k \in Conns, NEW h \in Handlers, Answers(k, h)
       PROVE  ClaimInv'
    BY <2>3 DEF Answers, Claims, Moves
  <2>4. ASSUME NEW k \in Conns, NEW h \in Handlers, NEW s \in Handlers, Resumes(k, h, s)
       PROVE  ClaimInv'
    BY <2>4 DEF Resumes, Claims, Moves
  <2>5. ASSUME NEW h \in Handlers, Connects(h)
       PROVE  ClaimInv'
    BY <2>5 DEF Connects, Moves
  <2>6. ASSUME NEW h \in Handlers, Authenticates(h)
       PROVE  ClaimInv'
    BY <2>6 DEF Authenticates, Moves
  <2>7. ASSUME NEW h \in Handlers, Prompts(h)
       PROVE  ClaimInv'
    BY <2>7 DEF Prompts, Moves
  <2>8. ASSUME NEW h \in Handlers, OpensShell(h)
       PROVE  ClaimInv'
    BY <2>8 DEF OpensShell, Moves
  <2>9. ASSUME NEW h \in Handlers, Fails(h)
       PROVE  ClaimInv'
    BY <2>9 DEF Fails, Refuses, Moves, Reset
  <2>10. ASSUME NEW h \in Handlers, Inserts(h)
       PROVE  ClaimInv'
    <3>1. UNCHANGED <<timers, conn, target, deadline>> /\ at[h] = "spawned"
      BY <2>10 DEF Inserts
    <3>2. \/ Refuses(h)
          \/ UNCHANGED phase /\ \E place \in {"inserted", "checked"} : Moves(h, place)
      BY <2>10 DEF Inserts
    <3>3. CASE Refuses(h)
      BY <3>1, <3>3 DEF Refuses, Moves, Reset
    <3>4. CASE UNCHANGED phase /\ \E place \in {"inserted", "checked"} : Moves(h, place)
      BY <3>1, <3>4 DEF Moves
    <3> QED BY <3>2, <3>3, <3>4
  <2>11. ASSUME NEW h \in Handlers, Rechecks(h)
       PROVE  ClaimInv'
    BY <2>11 DEF Rechecks, Withdraws, Refuses, Moves, Reset
  <2>12. ASSUME NEW h \in Handlers, Starts(h)
       PROVE  ClaimInv'
    BY SMTT(30), <2>12 DEF Starts, Moves
  <2>13. ASSUME NEW h \in Handlers, StartsTooLate(h)
       PROVE  ClaimInv'
    BY <2>13 DEF StartsTooLate, Withdraws, Refuses, Moves, Reset
  <2>14. ASSUME NEW h \in Handlers, Checks(h)
       PROVE  ClaimInv'
    <3>1. UNCHANGED <<timers, conn, target, deadline>> /\ at[h] = "found"
      BY <2>14 DEF Checks
    <3>2. Refuses(h) \/ (Moves(h, "cleared") /\ UNCHANGED phase)
      BY <2>14 DEF Checks
    <3>3. CASE Refuses(h)
      BY <3>1, <3>3 DEF Refuses, Moves, Reset
    <3>4. CASE Moves(h, "cleared") /\ UNCHANGED phase
      BY <3>1, <3>4 DEF Moves
    <3> QED BY <3>2, <3>3, <3>4
  <2>15. ASSUME NEW h \in Handlers, Joins(h)
       PROVE  ClaimInv'
    BY <2>15 DEF Joins, Moves
  <2>16. ASSUME NEW h \in Handlers, JoinsTooLate(h)
       PROVE  ClaimInv'
    BY <2>16 DEF JoinsTooLate, Refuses, Moves, Reset
  <2>17. ASSUME NEW h \in Handlers, PromptExpires(h)
       PROVE  ClaimInv'
    BY <2>17 DEF PromptExpires
  <2>18. ASSUME NEW k \in Conns, SocketDies(k)
       PROVE  ClaimInv'
    BY <2>18 DEF SocketDies
  <2>19. ASSUME NEW k \in Conns, ConnectionEnds(k)
       PROVE  ClaimInv'
    BY <2>19 DEF ConnectionEnds, Detaches
  <2>20. ASSUME NEW k \in Conns, ClientCloses(k)
       PROVE  ClaimInv'
    BY <2>20 DEF ClientCloses
  <2>21. ASSUME NEW s \in Handlers, PublishFindsClosed(s)
       PROVE  ClaimInv'
    BY <2>21 DEF PublishFindsClosed
  <2>22. ASSUME NEW s \in Handlers, ShellExits(s)
       PROVE  ClaimInv'
    BY <2>22 DEF ShellExits, Stops
  <2>23. ASSUME NEW s \in Handlers, ShellReadsClose(s)
       PROVE  ClaimInv'
    BY <2>23 DEF ShellReadsClose, Stops
  <2>24. ASSUME NEW s \in Handlers, ShellCleansUp(s)
       PROVE  ClaimInv'
    BY <2>24 DEF ShellCleansUp
  <2>25. ASSUME NEW s \in Handlers, Terminates(s)
       PROVE  ClaimInv'
    BY <2>25 DEF Terminates
  <2>26. ASSUME Reaps
       PROVE  ClaimInv'
    BY <2>26 DEF Reaps, Expirable
  <2>27. ASSUME TurnsOff
       PROVE  ClaimInv'
    BY <2>27 DEF TurnsOff
  <2>28. ASSUME Sweeps
       PROVE  ClaimInv'
    BY <2>28 DEF Sweeps
  <2> QED
    BY <1>1, <2>1, <2>2, <2>3, <2>4, <2>5, <2>6, <2>7, <2>8, <2>9,
         <2>10, <2>11, <2>12, <2>13, <2>14, <2>15, <2>16, <2>17, <2>18, <2>19,
         <2>20, <2>21, <2>22, <2>23, <2>24, <2>25, <2>26, <2>27, <2>28
    DEF Next, Proceeds
<1>2. CASE UNCHANGED vars
  BY <1>2 DEF vars
<1> QED BY <1>1, <1>2

(* No step lets go of a shell without ending it. *)
LEMMA ShellInductive ==
  TypeOK /\ ShellInv /\ [Next]_vars => ShellInv'
<1> SUFFICES ASSUME TypeOK, ShellInv, [Next]_vars
             PROVE  ShellInv'
  OBVIOUS
<1> USE DEF TypeOK, ShellInv, Holding, Ending, Claimed, Awaiting, OnThread,
      connVars, handlerVars, sessionVars, storeVars, switchVars
<1>1. CASE Next
  <2>1. ASSUME NEW k \in Conns, NEW h \in Handlers, OpensSsh(k, h)
       PROVE  ShellInv'
    BY <2>1 DEF OpensSsh, Claims, Moves
  <2>2. ASSUME NEW k \in Conns, NEW h \in Handlers, OpensLocal(k, h)
       PROVE  ShellInv'
    BY <2>2 DEF OpensLocal, Claims, Moves
  <2>3. ASSUME NEW k \in Conns, NEW h \in Handlers, Answers(k, h)
       PROVE  ShellInv'
    BY <2>3 DEF Answers, Claims, Moves
  <2>4. ASSUME NEW k \in Conns, NEW h \in Handlers, NEW s \in Handlers, Resumes(k, h, s)
       PROVE  ShellInv'
    BY <2>4 DEF Resumes, Claims, Moves
  <2>5. ASSUME NEW h \in Handlers, Connects(h)
       PROVE  ShellInv'
    BY <2>5 DEF Connects, Moves
  <2>6. ASSUME NEW h \in Handlers, Authenticates(h)
       PROVE  ShellInv'
    BY <2>6 DEF Authenticates, Moves
  <2>7. ASSUME NEW h \in Handlers, Prompts(h)
       PROVE  ShellInv'
    BY <2>7 DEF Prompts, Moves
  <2>8. ASSUME NEW h \in Handlers, OpensShell(h)
       PROVE  ShellInv'
    BY <2>8 DEF OpensShell, Moves
  <2>9. ASSUME NEW h \in Handlers, Fails(h)
       PROVE  ShellInv'
    BY <2>9 DEF Fails, Refuses, Moves, Reset
  <2>10. ASSUME NEW h \in Handlers, Inserts(h)
       PROVE  ShellInv'
    BY <2>10 DEF Inserts, Refuses, Moves, Reset, Expirable
  <2>11. ASSUME NEW h \in Handlers, Rechecks(h)
       PROVE  ShellInv'
    BY <2>11 DEF Rechecks, Withdraws, Refuses, Moves, Reset
  <2>12. ASSUME NEW h \in Handlers, Starts(h)
       PROVE  ShellInv'
    BY <2>12 DEF Starts, Moves
  <2>13. ASSUME NEW h \in Handlers, StartsTooLate(h)
       PROVE  ShellInv'
    BY <2>13 DEF StartsTooLate, Withdraws, Refuses, Moves, Reset
  <2>14. ASSUME NEW h \in Handlers, Checks(h)
       PROVE  ShellInv'
    BY <2>14 DEF Checks, Refuses, Moves, Reset
  <2>15. ASSUME NEW h \in Handlers, Joins(h)
       PROVE  ShellInv'
    BY <2>15 DEF Joins, Moves
  <2>16. ASSUME NEW h \in Handlers, JoinsTooLate(h)
       PROVE  ShellInv'
    BY <2>16 DEF JoinsTooLate, Refuses, Moves, Reset
  <2>17. ASSUME NEW h \in Handlers, PromptExpires(h)
       PROVE  ShellInv'
    BY <2>17 DEF PromptExpires
  <2>18. ASSUME NEW k \in Conns, SocketDies(k)
       PROVE  ShellInv'
    BY <2>18 DEF SocketDies
  <2>19. ASSUME NEW k \in Conns, ConnectionEnds(k)
       PROVE  ShellInv'
    BY <2>19 DEF ConnectionEnds, Detaches
  <2>20. ASSUME NEW k \in Conns, ClientCloses(k)
       PROVE  ShellInv'
    BY <2>20 DEF ClientCloses
  <2>21. ASSUME NEW s \in Handlers, PublishFindsClosed(s)
       PROVE  ShellInv'
    BY <2>21 DEF PublishFindsClosed
  <2>22. ASSUME NEW s \in Handlers, ShellExits(s)
       PROVE  ShellInv'
    BY <2>22 DEF ShellExits, Stops
  <2>23. ASSUME NEW s \in Handlers, ShellReadsClose(s)
       PROVE  ShellInv'
    BY <2>23 DEF ShellReadsClose, Stops
  <2>24. ASSUME NEW s \in Handlers, ShellCleansUp(s)
       PROVE  ShellInv'
    BY <2>24 DEF ShellCleansUp
  <2>25. ASSUME NEW s \in Handlers, Terminates(s)
       PROVE  ShellInv'
    BY <2>25 DEF Terminates
  <2>26. ASSUME Reaps
       PROVE  ShellInv'
    BY <2>26 DEF Reaps, Expirable
  <2>27. ASSUME TurnsOff
       PROVE  ShellInv'
    BY <2>27 DEF TurnsOff
  <2>28. ASSUME Sweeps
       PROVE  ShellInv'
    BY <2>28 DEF Sweeps
  <2> QED
    BY <1>1, <2>1, <2>2, <2>3, <2>4, <2>5, <2>6, <2>7, <2>8, <2>9,
         <2>10, <2>11, <2>12, <2>13, <2>14, <2>15, <2>16, <2>17, <2>18, <2>19,
         <2>20, <2>21, <2>22, <2>23, <2>24, <2>25, <2>26, <2>27, <2>28
    DEF Next, Proceeds
<1>2. CASE UNCHANGED vars
  BY <1>2 DEF vars
<1> QED BY <1>1, <1>2

(* No step brings a local shell back once they are turned off. *)
LEMMA LocalInductive ==
  TypeOK /\ ShellInv /\ LocalInv /\ [Next]_vars => LocalInv'
<1> SUFFICES ASSUME TypeOK, ShellInv, LocalInv, [Next]_vars
             PROVE  LocalInv'
  OBVIOUS
<1> USE DEF TypeOK, LocalInv, ShellInv, Holding, TurnedOffLeavesNoLocalShell,
      LocalAllowed, Ending, Claimed, Awaiting, OnThread, connVars, handlerVars,
      sessionVars, storeVars, switchVars
<1>1. CASE Next
  <2>1. ASSUME NEW k \in Conns, NEW h \in Handlers, OpensSsh(k, h)
       PROVE  LocalInv'
    BY <2>1 DEF OpensSsh, Claims, Moves
  <2>2. ASSUME NEW k \in Conns, NEW h \in Handlers, OpensLocal(k, h)
       PROVE  LocalInv'
    BY <2>2 DEF OpensLocal, Claims, Moves
  <2>3. ASSUME NEW k \in Conns, NEW h \in Handlers, Answers(k, h)
       PROVE  LocalInv'
    BY <2>3 DEF Answers, Claims, Moves
  <2>4. ASSUME NEW k \in Conns, NEW h \in Handlers, NEW s \in Handlers, Resumes(k, h, s)
       PROVE  LocalInv'
    BY <2>4 DEF Resumes, Claims, Moves
  <2>5. ASSUME NEW h \in Handlers, Connects(h)
       PROVE  LocalInv'
    BY <2>5 DEF Connects, Moves
  <2>6. ASSUME NEW h \in Handlers, Authenticates(h)
       PROVE  LocalInv'
    BY <2>6 DEF Authenticates, Moves
  <2>7. ASSUME NEW h \in Handlers, Prompts(h)
       PROVE  LocalInv'
    BY <2>7 DEF Prompts, Moves
  <2>8. ASSUME NEW h \in Handlers, OpensShell(h)
       PROVE  LocalInv'
    BY <2>8 DEF OpensShell, Moves
  <2>9. ASSUME NEW h \in Handlers, Fails(h)
       PROVE  LocalInv'
    BY <2>9 DEF Fails, Refuses, Moves, Reset
  <2>10. ASSUME NEW h \in Handlers, Inserts(h)
       PROVE  LocalInv'
    BY <2>10 DEF Inserts, Refuses, Moves, Reset, Expirable
  <2>11. ASSUME NEW h \in Handlers, Rechecks(h)
       PROVE  LocalInv'
    BY <2>11 DEF Rechecks, Withdraws, Refuses, Moves, Reset
  <2>12. ASSUME NEW h \in Handlers, Starts(h)
       PROVE  LocalInv'
    BY <2>12 DEF Starts, Moves
  <2>13. ASSUME NEW h \in Handlers, StartsTooLate(h)
       PROVE  LocalInv'
    BY <2>13 DEF StartsTooLate, Withdraws, Refuses, Moves, Reset
  <2>14. ASSUME NEW h \in Handlers, Checks(h)
       PROVE  LocalInv'
    BY <2>14 DEF Checks, Refuses, Moves, Reset
  <2>15. ASSUME NEW h \in Handlers, Joins(h)
       PROVE  LocalInv'
    BY <2>15 DEF Joins, Moves
  <2>16. ASSUME NEW h \in Handlers, JoinsTooLate(h)
       PROVE  LocalInv'
    BY <2>16 DEF JoinsTooLate, Refuses, Moves, Reset
  <2>17. ASSUME NEW h \in Handlers, PromptExpires(h)
       PROVE  LocalInv'
    BY <2>17 DEF PromptExpires
  <2>18. ASSUME NEW k \in Conns, SocketDies(k)
       PROVE  LocalInv'
    BY <2>18 DEF SocketDies
  <2>19. ASSUME NEW k \in Conns, ConnectionEnds(k)
       PROVE  LocalInv'
    BY <2>19 DEF ConnectionEnds, Detaches
  <2>20. ASSUME NEW k \in Conns, ClientCloses(k)
       PROVE  LocalInv'
    BY <2>20 DEF ClientCloses
  <2>21. ASSUME NEW s \in Handlers, PublishFindsClosed(s)
       PROVE  LocalInv'
    BY <2>21 DEF PublishFindsClosed
  <2>22. ASSUME NEW s \in Handlers, ShellExits(s)
       PROVE  LocalInv'
    BY <2>22 DEF ShellExits, Stops
  <2>23. ASSUME NEW s \in Handlers, ShellReadsClose(s)
       PROVE  LocalInv'
    BY <2>23 DEF ShellReadsClose, Stops
  <2>24. ASSUME NEW s \in Handlers, ShellCleansUp(s)
       PROVE  LocalInv'
    BY <2>24 DEF ShellCleansUp
  <2>25. ASSUME NEW s \in Handlers, Terminates(s)
       PROVE  LocalInv'
    BY <2>25 DEF Terminates
  <2>26. ASSUME Reaps
       PROVE  LocalInv'
    BY <2>26 DEF Reaps, Expirable
  <2>27. ASSUME TurnsOff
       PROVE  LocalInv'
    BY <2>27 DEF TurnsOff
  <2>28. ASSUME Sweeps
       PROVE  LocalInv'
    BY <2>28 DEF Sweeps
  <2> QED
    BY <1>1, <2>1, <2>2, <2>3, <2>4, <2>5, <2>6, <2>7, <2>8, <2>9,
         <2>10, <2>11, <2>12, <2>13, <2>14, <2>15, <2>16, <2>17, <2>18, <2>19,
         <2>20, <2>21, <2>22, <2>23, <2>24, <2>25, <2>26, <2>27, <2>28
    DEF Next, Proceeds
<1>2. CASE UNCHANGED vars
  BY <1>2 DEF vars
<1> QED BY <1>1, <1>2

(* No step leaves a session to a connection that is not Running it. *)
LEMMA OwnerInductive ==
  TypeOK /\ ClaimInv /\ ShellInv /\ OwnerInv /\ [Next]_vars => OwnerInv'
<1> SUFFICES ASSUME TypeOK, ClaimInv, ShellInv, OwnerInv, [Next]_vars
             PROVE  OwnerInv'
  OBVIOUS
<1> USE DEF TypeOK, OwnerInv, ClaimInv, HandlerInv, ClaimIsExclusive, InFlight,
      ShellInv, Holding, OwnersWillDetach, Ending, Claimed, Awaiting, OnThread,
      connVars, handlerVars, sessionVars, storeVars, switchVars
<1>1. CASE Next
  <2>1. ASSUME NEW k \in Conns, NEW h \in Handlers, OpensSsh(k, h)
       PROVE  OwnerInv'
    BY <2>1 DEF OpensSsh, Claims, Moves
  <2>2. ASSUME NEW k \in Conns, NEW h \in Handlers, OpensLocal(k, h)
       PROVE  OwnerInv'
    BY <2>2 DEF OpensLocal, Claims, Moves
  <2>3. ASSUME NEW k \in Conns, NEW h \in Handlers, Answers(k, h)
       PROVE  OwnerInv'
    BY <2>3 DEF Answers, Claims, Moves
  <2>4. ASSUME NEW k \in Conns, NEW h \in Handlers, NEW s \in Handlers, Resumes(k, h, s)
       PROVE  OwnerInv'
    BY <2>4 DEF Resumes, Claims, Moves
  <2>5. ASSUME NEW h \in Handlers, Connects(h)
       PROVE  OwnerInv'
    BY <2>5 DEF Connects, Moves
  <2>6. ASSUME NEW h \in Handlers, Authenticates(h)
       PROVE  OwnerInv'
    BY <2>6 DEF Authenticates, Moves
  <2>7. ASSUME NEW h \in Handlers, Prompts(h)
       PROVE  OwnerInv'
    BY <2>7 DEF Prompts, Moves
  <2>8. ASSUME NEW h \in Handlers, OpensShell(h)
       PROVE  OwnerInv'
    BY <2>8 DEF OpensShell, Moves
  <2>9. ASSUME NEW h \in Handlers, Fails(h)
       PROVE  OwnerInv'
    BY <2>9 DEF Fails, Refuses, Moves, Reset
  <2>10. ASSUME NEW h \in Handlers, Inserts(h)
       PROVE  OwnerInv'
    BY <2>10 DEF Inserts, Refuses, Moves, Reset, Expirable
  <2>11. ASSUME NEW h \in Handlers, Rechecks(h)
       PROVE  OwnerInv'
    BY <2>11 DEF Rechecks, Withdraws, Refuses, Moves, Reset
  <2>12. ASSUME NEW h \in Handlers, Starts(h)
       PROVE  OwnerInv'
    BY <2>12 DEF Starts, Moves
  <2>13. ASSUME NEW h \in Handlers, StartsTooLate(h)
       PROVE  OwnerInv'
    BY <2>13 DEF StartsTooLate, Withdraws, Refuses, Moves, Reset
  <2>14. ASSUME NEW h \in Handlers, Checks(h)
       PROVE  OwnerInv'
    BY <2>14 DEF Checks, Refuses, Moves, Reset
  <2>15. ASSUME NEW h \in Handlers, Joins(h)
       PROVE  OwnerInv'
    <3> DEFINE t == target[h]
               c == conn[h]
    <3>1. at[h] = "cleared" /\ t \in Handlers /\ c \in Conns /\ c # Nobody
      BY <2>15, ConnsAssumption DEF Joins
    <3>2. UNCHANGED <<shell, input_close, condemned>>
      BY <2>15 DEF Joins
    <3>3. CASE Claimed(h)
      <4>1. /\ phase[c] = "opening"
            /\ phase' = [phase EXCEPT ![c] = "running"]
            /\ running' = [running EXCEPT ![c] = t]
            /\ current' = [current EXCEPT ![t] = c]
        BY <2>15, <3>3 DEF Joins
      <4> HIDE DEF t, c
      <4> QED BY <3>1, <3>2, <4>1
    <3>4. CASE ~Claimed(h)
      <4>1. UNCHANGED <<phase, running>> /\ current' = [current EXCEPT ![t] = Nobody]
        BY <2>15, <3>4 DEF Joins
      <4> HIDE DEF t, c
      <4> QED BY <3>1, <3>2, <4>1
    <3> QED BY <3>3, <3>4
  <2>16. ASSUME NEW h \in Handlers, JoinsTooLate(h)
       PROVE  OwnerInv'
    BY <2>16 DEF JoinsTooLate, Refuses, Moves, Reset
  <2>17. ASSUME NEW h \in Handlers, PromptExpires(h)
       PROVE  OwnerInv'
    BY <2>17 DEF PromptExpires
  <2>18. ASSUME NEW k \in Conns, SocketDies(k)
       PROVE  OwnerInv'
    BY <2>18 DEF SocketDies
  <2>19. ASSUME NEW k \in Conns, ConnectionEnds(k)
       PROVE  OwnerInv'
    BY <2>19 DEF ConnectionEnds, Detaches
  <2>20. ASSUME NEW k \in Conns, ClientCloses(k)
       PROVE  OwnerInv'
    BY <2>20 DEF ClientCloses
  <2>21. ASSUME NEW s \in Handlers, PublishFindsClosed(s)
       PROVE  OwnerInv'
    BY <2>21 DEF PublishFindsClosed
  <2>22. ASSUME NEW s \in Handlers, ShellExits(s)
       PROVE  OwnerInv'
    BY <2>22 DEF ShellExits, Stops
  <2>23. ASSUME NEW s \in Handlers, ShellReadsClose(s)
       PROVE  OwnerInv'
    BY <2>23 DEF ShellReadsClose, Stops
  <2>24. ASSUME NEW s \in Handlers, ShellCleansUp(s)
       PROVE  OwnerInv'
    BY <2>24 DEF ShellCleansUp
  <2>25. ASSUME NEW s \in Handlers, Terminates(s)
       PROVE  OwnerInv'
    BY <2>25 DEF Terminates
  <2>26. ASSUME Reaps
       PROVE  OwnerInv'
    BY <2>26 DEF Reaps, Expirable
  <2>27. ASSUME TurnsOff
       PROVE  OwnerInv'
    BY <2>27 DEF TurnsOff
  <2>28. ASSUME Sweeps
       PROVE  OwnerInv'
    BY <2>28 DEF Sweeps
  <2> QED
    BY <1>1, <2>1, <2>2, <2>3, <2>4, <2>5, <2>6, <2>7, <2>8, <2>9,
         <2>10, <2>11, <2>12, <2>13, <2>14, <2>15, <2>16, <2>17, <2>18, <2>19,
         <2>20, <2>21, <2>22, <2>23, <2>24, <2>25, <2>26, <2>27, <2>28
    DEF Next, Proceeds
<1>2. CASE UNCHANGED vars
  BY <1>2 DEF vars
<1> QED BY <1>1, <1>2

(* No step gives a closed session an owner. *)
LEMMA ClosedInductive ==
  TypeOK /\ ClaimInv /\ ClosedIsUnowned /\ [Next]_vars => ClosedIsUnowned'
<1> SUFFICES ASSUME TypeOK, ClaimInv, ClosedIsUnowned, [Next]_vars
             PROVE  ClosedIsUnowned'
  OBVIOUS
<1> USE DEF TypeOK, ClosedIsUnowned, ClaimInv, HandlerInv, Claimed, Awaiting,
      OnThread, connVars, handlerVars, sessionVars, storeVars, switchVars
<1>1. CASE Next
  <2>1. ASSUME NEW k \in Conns, NEW h \in Handlers, OpensSsh(k, h)
       PROVE  ClosedIsUnowned'
    BY <2>1 DEF OpensSsh, Claims, Moves
  <2>2. ASSUME NEW k \in Conns, NEW h \in Handlers, OpensLocal(k, h)
       PROVE  ClosedIsUnowned'
    BY <2>2 DEF OpensLocal, Claims, Moves
  <2>3. ASSUME NEW k \in Conns, NEW h \in Handlers, Answers(k, h)
       PROVE  ClosedIsUnowned'
    BY <2>3 DEF Answers, Claims, Moves
  <2>4. ASSUME NEW k \in Conns, NEW h \in Handlers, NEW s \in Handlers, Resumes(k, h, s)
       PROVE  ClosedIsUnowned'
    BY <2>4 DEF Resumes, Claims, Moves
  <2>5. ASSUME NEW h \in Handlers, Connects(h)
       PROVE  ClosedIsUnowned'
    BY <2>5 DEF Connects, Moves
  <2>6. ASSUME NEW h \in Handlers, Authenticates(h)
       PROVE  ClosedIsUnowned'
    BY <2>6 DEF Authenticates, Moves
  <2>7. ASSUME NEW h \in Handlers, Prompts(h)
       PROVE  ClosedIsUnowned'
    BY <2>7 DEF Prompts, Moves
  <2>8. ASSUME NEW h \in Handlers, OpensShell(h)
       PROVE  ClosedIsUnowned'
    BY <2>8 DEF OpensShell, Moves
  <2>9. ASSUME NEW h \in Handlers, Fails(h)
       PROVE  ClosedIsUnowned'
    BY <2>9 DEF Fails, Refuses, Moves, Reset
  <2>10. ASSUME NEW h \in Handlers, Inserts(h)
       PROVE  ClosedIsUnowned'
    BY <2>10 DEF Inserts, Refuses, Moves, Reset, Expirable
  <2>11. ASSUME NEW h \in Handlers, Rechecks(h)
       PROVE  ClosedIsUnowned'
    BY <2>11 DEF Rechecks, Withdraws, Refuses, Moves, Reset
  <2>12. ASSUME NEW h \in Handlers, Starts(h)
       PROVE  ClosedIsUnowned'
    BY <2>12 DEF Starts, Moves
  <2>13. ASSUME NEW h \in Handlers, StartsTooLate(h)
       PROVE  ClosedIsUnowned'
    BY <2>13 DEF StartsTooLate, Withdraws, Refuses, Moves, Reset
  <2>14. ASSUME NEW h \in Handlers, Checks(h)
       PROVE  ClosedIsUnowned'
    BY <2>14 DEF Checks, Refuses, Moves, Reset
  <2>15. ASSUME NEW h \in Handlers, Joins(h)
       PROVE  ClosedIsUnowned'
    BY <2>15 DEF Joins, Moves
  <2>16. ASSUME NEW h \in Handlers, JoinsTooLate(h)
       PROVE  ClosedIsUnowned'
    BY <2>16 DEF JoinsTooLate, Refuses, Moves, Reset
  <2>17. ASSUME NEW h \in Handlers, PromptExpires(h)
       PROVE  ClosedIsUnowned'
    BY <2>17 DEF PromptExpires
  <2>18. ASSUME NEW k \in Conns, SocketDies(k)
       PROVE  ClosedIsUnowned'
    BY <2>18 DEF SocketDies
  <2>19. ASSUME NEW k \in Conns, ConnectionEnds(k)
       PROVE  ClosedIsUnowned'
    BY <2>19 DEF ConnectionEnds, Detaches
  <2>20. ASSUME NEW k \in Conns, ClientCloses(k)
       PROVE  ClosedIsUnowned'
    BY <2>20 DEF ClientCloses
  <2>21. ASSUME NEW s \in Handlers, PublishFindsClosed(s)
       PROVE  ClosedIsUnowned'
    BY <2>21 DEF PublishFindsClosed
  <2>22. ASSUME NEW s \in Handlers, ShellExits(s)
       PROVE  ClosedIsUnowned'
    BY <2>22 DEF ShellExits, Stops
  <2>23. ASSUME NEW s \in Handlers, ShellReadsClose(s)
       PROVE  ClosedIsUnowned'
    BY <2>23 DEF ShellReadsClose, Stops
  <2>24. ASSUME NEW s \in Handlers, ShellCleansUp(s)
       PROVE  ClosedIsUnowned'
    BY <2>24 DEF ShellCleansUp
  <2>25. ASSUME NEW s \in Handlers, Terminates(s)
       PROVE  ClosedIsUnowned'
    BY <2>25 DEF Terminates
  <2>26. ASSUME Reaps
       PROVE  ClosedIsUnowned'
    BY <2>26 DEF Reaps, Expirable
  <2>27. ASSUME TurnsOff
       PROVE  ClosedIsUnowned'
    BY <2>27 DEF TurnsOff
  <2>28. ASSUME Sweeps
       PROVE  ClosedIsUnowned'
    BY <2>28 DEF Sweeps
  <2> QED
    BY <1>1, <2>1, <2>2, <2>3, <2>4, <2>5, <2>6, <2>7, <2>8, <2>9,
         <2>10, <2>11, <2>12, <2>13, <2>14, <2>15, <2>16, <2>17, <2>18, <2>19,
         <2>20, <2>21, <2>22, <2>23, <2>24, <2>25, <2>26, <2>27, <2>28
    DEF Next, Proceeds
<1>2. CASE UNCHANGED vars
  BY <1>2 DEF vars
<1> QED BY <1>1, <1>2

-------------------------------------------------------------------------------

(* The store only grows by an insert. *)
LEMMA OnlyInsertsGrows ==
  ASSUME [Next]_vars
  PROVE  in_store' \subseteq in_store \/ \E h \in Handlers : Inserts(h)
<1> USE DEF connVars, handlerVars, sessionVars, storeVars, switchVars
<1>1. CASE Next
  <2>1. ASSUME NEW k \in Conns, NEW h \in Handlers, OpensSsh(k, h)
       PROVE  in_store' \subseteq in_store
    BY <2>1 DEF OpensSsh, Claims, Moves
  <2>2. ASSUME NEW k \in Conns, NEW h \in Handlers, OpensLocal(k, h)
       PROVE  in_store' \subseteq in_store
    BY <2>2 DEF OpensLocal, Claims, Moves
  <2>3. ASSUME NEW k \in Conns, NEW h \in Handlers, Answers(k, h)
       PROVE  in_store' \subseteq in_store
    BY <2>3 DEF Answers, Claims, Moves
  <2>4. ASSUME NEW k \in Conns, NEW h \in Handlers, NEW s \in Handlers, Resumes(k, h, s)
       PROVE  in_store' \subseteq in_store
    BY <2>4 DEF Resumes, Claims, Moves
  <2>5. ASSUME NEW h \in Handlers, Connects(h)
       PROVE  in_store' \subseteq in_store
    BY <2>5 DEF Connects, Moves
  <2>6. ASSUME NEW h \in Handlers, Authenticates(h)
       PROVE  in_store' \subseteq in_store
    BY <2>6 DEF Authenticates, Moves
  <2>7. ASSUME NEW h \in Handlers, Prompts(h)
       PROVE  in_store' \subseteq in_store
    BY <2>7 DEF Prompts, Moves
  <2>8. ASSUME NEW h \in Handlers, OpensShell(h)
       PROVE  in_store' \subseteq in_store
    BY <2>8 DEF OpensShell, Moves
  <2>9. ASSUME NEW h \in Handlers, Fails(h)
       PROVE  in_store' \subseteq in_store
    BY <2>9 DEF Fails, Refuses, Moves, Reset
  <2>10. ASSUME NEW h \in Handlers, Rechecks(h)
       PROVE  in_store' \subseteq in_store
    BY <2>10 DEF Rechecks, Withdraws, Refuses, Moves, Reset
  <2>11. ASSUME NEW h \in Handlers, Starts(h)
       PROVE  in_store' \subseteq in_store
    BY <2>11 DEF Starts, Moves
  <2>12. ASSUME NEW h \in Handlers, StartsTooLate(h)
       PROVE  in_store' \subseteq in_store
    BY <2>12 DEF StartsTooLate, Withdraws, Refuses, Moves, Reset
  <2>13. ASSUME NEW h \in Handlers, Checks(h)
       PROVE  in_store' \subseteq in_store
    BY <2>13 DEF Checks, Refuses, Moves, Reset
  <2>14. ASSUME NEW h \in Handlers, Joins(h)
       PROVE  in_store' \subseteq in_store
    BY <2>14 DEF Joins, Moves
  <2>15. ASSUME NEW h \in Handlers, JoinsTooLate(h)
       PROVE  in_store' \subseteq in_store
    BY <2>15 DEF JoinsTooLate, Refuses, Moves, Reset
  <2>16. ASSUME NEW h \in Handlers, PromptExpires(h)
       PROVE  in_store' \subseteq in_store
    BY <2>16 DEF PromptExpires
  <2>17. ASSUME NEW k \in Conns, SocketDies(k)
       PROVE  in_store' \subseteq in_store
    BY <2>17 DEF SocketDies
  <2>18. ASSUME NEW k \in Conns, ConnectionEnds(k)
       PROVE  in_store' \subseteq in_store
    BY <2>18 DEF ConnectionEnds, Detaches
  <2>19. ASSUME NEW k \in Conns, ClientCloses(k)
       PROVE  in_store' \subseteq in_store
    BY <2>19 DEF ClientCloses
  <2>20. ASSUME NEW s \in Handlers, PublishFindsClosed(s)
       PROVE  in_store' \subseteq in_store
    BY <2>20 DEF PublishFindsClosed
  <2>21. ASSUME NEW s \in Handlers, ShellExits(s)
       PROVE  in_store' \subseteq in_store
    BY <2>21 DEF ShellExits, Stops
  <2>22. ASSUME NEW s \in Handlers, ShellReadsClose(s)
       PROVE  in_store' \subseteq in_store
    BY <2>22 DEF ShellReadsClose, Stops
  <2>23. ASSUME NEW s \in Handlers, ShellCleansUp(s)
       PROVE  in_store' \subseteq in_store
    BY <2>23 DEF ShellCleansUp
  <2>24. ASSUME NEW s \in Handlers, Terminates(s)
       PROVE  in_store' \subseteq in_store
    BY <2>24 DEF Terminates
  <2>25. ASSUME Reaps
       PROVE  in_store' \subseteq in_store
    BY <2>25 DEF Reaps, Expirable
  <2>26. ASSUME TurnsOff
       PROVE  in_store' \subseteq in_store
    BY <2>26 DEF TurnsOff
  <2>27. ASSUME Sweeps
       PROVE  in_store' \subseteq in_store
    BY <2>27 DEF Sweeps
  <2> QED
    BY <1>1, <2>1, <2>2, <2>3, <2>4, <2>5, <2>6, <2>7, <2>8, <2>9,
       <2>10, <2>11, <2>12, <2>13, <2>14, <2>15, <2>16, <2>17, <2>18, <2>19,
       <2>20, <2>21, <2>22, <2>23, <2>24, <2>25, <2>26, <2>27
    DEF Next, Proceeds
<1>2. CASE UNCHANGED vars
  BY <1>2 DEF vars
<1> QED BY <1>1, <1>2

(* No step takes the store over its cap: what insert counts is what is     *)
(* left after it has reaped, and it counts under the same lock.            *)
LEMMA CapInductive == TypeOK /\ CapInv /\ [Next]_vars => CapInv'
<1> SUFFICES ASSUME TypeOK, CapInv, [Next]_vars
             PROVE  CapInv'
  OBVIOUS
<1> USE MaxSessionsAssumption
<1>1. IsFiniteSet(in_store) /\ Cardinality(in_store) \in Nat
  <2>1. IsFiniteSet(Handlers)
    BY FS_Interval, MaxHandlersAssumption DEF Handlers
  <2> QED BY <2>1, FS_Subset, FS_CardinalityType DEF TypeOK
<1>2. ASSUME NEW left \in SUBSET in_store
      PROVE  /\ IsFiniteSet(left)
             /\ Cardinality(left) \in Nat
             /\ Cardinality(left) <= Cardinality(in_store)
  BY <1>1, FS_Subset, FS_CardinalityType
<1>3. CASE in_store' \subseteq in_store
  BY <1>1, <1>2, <1>3 DEF CapInv
<1>4. ASSUME NEW h \in Handlers, Inserts(h)
      PROVE  CapInv'
  <2>1. PICK gone \in SUBSET Expirable :
          \/ HasRoom(in_store \ gone) /\ in_store' = (in_store \ gone) \cup {h}
          \/ in_store' = in_store \ gone
    BY <1>4 DEF Inserts
  <2> DEFINE left == in_store \ gone
  <2>2. /\ IsFiniteSet(left)
        /\ Cardinality(left) \in Nat
        /\ Cardinality(left) <= Cardinality(in_store)
    BY <1>2
  <2>3. CASE HasRoom(left) /\ in_store' = left \cup {h}
    <3>1. \/ Cardinality(left \cup {h}) = Cardinality(left)
          \/ Cardinality(left \cup {h}) = Cardinality(left) + 1
      BY <2>2, FS_AddElement
    <3>2. Cardinality(left) < MaxSessions
      BY <2>3 DEF HasRoom
    <3> QED BY <2>2, <2>3, <3>1, <3>2 DEF CapInv
  <2>4. CASE in_store' = left
    BY <1>1, <2>2, <2>4 DEF CapInv
  <2> QED BY <2>1, <2>3, <2>4
<1> QED BY <1>3, <1>4, OnlyInsertsGrows

-------------------------------------------------------------------------------

LEMMA InitIInv == Init => IInv
<1> SUFFICES ASSUME Init PROVE IInv
  OBVIOUS
<1> USE DEF Init
<1>1. TypeOK
  BY DEF TypeOK, Awaiting, OnThread
<1>2. ClaimInv
  BY DEF ClaimInv, HandlerInv, ClaimIsExclusive, InFlight, Awaiting, OnThread
<1>3. ShellInv
  BY DEF ShellInv, Holding
<1>4. LocalInv
  BY DEF LocalInv, TurnedOffLeavesNoLocalShell
<1>5. OwnerInv
  BY DEF OwnerInv, OwnersWillDetach
<1>6. ClosedIsUnowned
  BY DEF ClosedIsUnowned
<1>7. CapInv
  BY FS_EmptySet, MaxSessionsAssumption DEF CapInv
<1> QED BY <1>1, <1>2, <1>3, <1>4, <1>5, <1>6, <1>7 DEF IInv

(* The inductive invariant holds of every behaviour. *)
THEOREM Invariance == Spec => []IInv
<1>1. IInv /\ [Next]_vars => IInv'
  BY TypeInductive, ClaimInductive, ShellInductive, LocalInductive,
     OwnerInductive, ClosedInductive, CapInductive
  DEF IInv
<1> QED BY InitIInv, <1>1, PTL DEF Spec

(* Every variable keeps its type (session.rs, terminal.rs). *)
THEOREM TypeCorrect == Spec => []TypeOK
<1>1. IInv => TypeOK
  BY DEF IInv
<1> QED BY Invariance, <1>1, PTL

(* One handler at a time owns a connection that is Opening: whatever       *)
(* frames, late results and timeouts arrive meanwhile, none starts a second *)
(* shell or frees the claim (terminal.rs, claim_idle and set_if_opening).  *)
THEOREM ClaimsAreExclusive == Spec => []ClaimIsExclusive
<1>1. IInv => ClaimIsExclusive
  BY DEF IInv, ClaimInv
<1> QED BY Invariance, <1>1, PTL

(* A connection waiting for answers always has a timeout armed for that    *)
(* very prompt (terminal.rs, arm_auth_timeout).                            *)
THEOREM PromptsExpire == Spec => []PromptsHaveTimeouts
<1>1. IInv => PromptsHaveTimeouts
  BY DEF IInv, ClaimInv, HandlerInv, PromptsHaveTimeouts
<1> QED BY Invariance, <1>1, PTL

(* No shell runs with nothing left that could end it (terminal.rs,         *)
(* open_local and start_shell; session.rs, SessionStore).                  *)
THEOREM NoOrphans == Spec => []NoShellIsOrphaned
<1>1. IInv => NoShellIsOrphaned
  BY DEF IInv, ShellInv, Holding, NoShellIsOrphaned, InFlight, OnThread
<1> QED BY Invariance, <1>1, PTL

(* Whoever owns a session is a connection that will detach from it         *)
(* (terminal.rs, handler; session.rs, detach).                             *)
THEOREM OwnersDetach == Spec => []OwnersWillDetach
<1>1. IInv => OwnersWillDetach
  BY DEF IInv, OwnerInv
<1> QED BY Invariance, <1>1, PTL

(* Turning local shells off leaves none that is not being ended, also when *)
(* it races the opening of one on another thread (server.rs,               *)
(* disable_full_access; terminal.rs, open_local).                          *)
THEOREM TurningOffIsFinal == Spec => []TurnedOffLeavesNoLocalShell
<1>1. IInv => TurnedOffLeavesNoLocalShell
  BY DEF IInv, LocalInv
<1> QED BY Invariance, <1>1, PTL

(* A session that has been closed has no owner and gets none (session.rs,  *)
(* Session::attach and close).                                             *)
THEOREM ClosedStaysUnowned == Spec => []ClosedIsUnowned
<1>1. IInv => ClosedIsUnowned
  BY DEF IInv
<1> QED BY Invariance, <1>1, PTL

(* Shells that are not being ended never outnumber the cap (session.rs,    *)
(* SessionStore::insert).                                                  *)
THEOREM ShellsWithinCap == Spec => []LiveShellsBounded
<1>1. IInv => LiveShellsBounded
  <2> SUFFICES ASSUME IInv PROVE LiveShellsBounded
    OBVIOUS
  <2> DEFINE live == {s \in Handlers : shell[s] = "driven" /\ ~Ending(s)}
  <2>1. live \subseteq in_store
    BY DEF IInv, ShellInv
  <2>2. IsFiniteSet(in_store)
    <3>1. IsFiniteSet(Handlers)
      BY FS_Interval, MaxHandlersAssumption DEF Handlers
    <3> QED BY <3>1, FS_Subset DEF IInv, TypeOK
  <2>3. /\ Cardinality(live) <= Cardinality(in_store)
        /\ Cardinality(live) \in Nat
        /\ Cardinality(in_store) \in Nat
    BY <2>1, <2>2, FS_Subset, FS_CardinalityType
  <2> QED BY <2>3, MaxSessionsAssumption DEF IInv, CapInv, LiveShellsBounded
<1> QED BY Invariance, <1>1, PTL

=============================================================================
