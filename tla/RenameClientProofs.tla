------------------------- MODULE RenameClientProofs -------------------------
(***************************************************************************)
(* Theorems of RenameClient, for any number of panels, requests, clients   *)
(* and names: the lock is held exactly by who works, no rename takes back  *)
(* another one, answers settle their requests, and an undisturbed panel    *)
(* implements RenameRegister.                                              *)
(***************************************************************************)
EXTENDS RenameClient, TLAPS

-----------------------------------------------------------------------------
(* Types.                                                                  *)

LEMMA TypeInit == Init => TypeOK
<1> SUFFICES ASSUME Init PROVE TypeOK
  OBVIOUS
<1>1. \A r \in Requests : pc[r] = "idle" /\ answer[r] = "none"
  BY DEF Init
<1>2. /\ pc \in [Requests -> {"idle", "done"} \union Active]
      /\ answer \in [Requests -> {"none", "ok", "conflict", "error"}]
      /\ lock \in [Panels -> Requests \union {Free}]
      /\ job \in [Requests -> {"none", "moved", "failed"} \union Live]
  BY DEF Init
<1>3. next \in [Requests -> Tables] /\ table \in Tables \union {Cut}
  BY DEF Init
<1> QED
  BY <1>1, <1>2, <1>3 DEF Init, TypeOK

(* What Finish does to the three functions it changes. *)
LEMMA FinishType ==
  ASSUME TypeOK, NEW r \in Requests, NEW a \in {"ok", "error"}, Finish(r, a)
  PROVE  /\ pc' \in [Requests -> {"idle", "done"} \union Active]
         /\ answer' \in [Requests -> {"none", "ok", "conflict", "error"}]
         /\ \A q \in Requests : pc'[q] = "done" <=> answer'[q] # "none"
         /\ lock' \in [Panels -> Requests \union {Free}]
BY DEF TypeOK, Finish

LEMMA TypeNext == TypeOK /\ [Next]_vars => TypeOK'
<1> SUFFICES ASSUME TypeOK, [Next]_vars PROVE TypeOK'
  OBVIOUS
<1> USE DEF files, history
<1>1. ASSUME NEW r \in Requests, Begin(r) PROVE TypeOK'
  BY <1>1 DEF TypeOK, Begin, Active
<1>2. ASSUME NEW r \in Requests, Refuse(r) PROVE TypeOK'
  BY <1>2 DEF TypeOK, Refuse
<1>3. ASSUME NEW r \in Requests, GiveUp(r) PROVE TypeOK'
  BY <1>3, FinishType DEF TypeOK, GiveUp
<1>4. ASSUME NEW r \in Requests, ReadUseless(r) PROVE TypeOK'
  BY <1>4, FinishType DEF TypeOK, ReadUseless
<1>5. ASSUME NEW r \in Requests, ReadAndWrite(r) PROVE TypeOK'
  <2>1. [table EXCEPT ![req[r].client] = req[r].name] \in Tables
    BY <1>5 DEF TypeOK, ReadAndWrite, Tables
  <2>2. next' \in [Requests -> Tables]
    BY <1>5, <2>1 DEF TypeOK, ReadAndWrite
  <2>3. job' \in [Requests -> {"none", "moved", "failed"} \union Live]
    BY <1>5 DEF TypeOK, ReadAndWrite, Live
  <2>4. /\ pc' \in [Requests -> {"idle", "done"} \union Active]
        /\ \A q \in Requests : pc'[q] = "done" <=> answer'[q] # "none"
    BY <1>5 DEF TypeOK, ReadAndWrite, Active
  <2> QED
    BY <1>5, <2>2, <2>3, <2>4 DEF TypeOK, ReadAndWrite
<1>6. ASSUME NEW r \in Requests, WriteReturns(r) PROVE TypeOK'
  <2>1. CASE job[r] = "failed" /\ Finish(r, "error")
    BY <1>6, <2>1, FinishType DEF TypeOK, WriteReturns
  <2>2. CASE pc' = [pc EXCEPT ![r] = "verifying"] /\ UNCHANGED <<answer, lock>>
    BY <1>6, <2>2 DEF TypeOK, WriteReturns, Active
  <2> QED
    BY <1>6, <2>1, <2>2 DEF WriteReturns
<1>7. ASSUME NEW r \in Requests, VerifyOk(r) PROVE TypeOK'
  BY <1>7, FinishType DEF TypeOK, VerifyOk
<1>8. ASSUME NEW r \in Requests, VerifyFails(r) PROVE TypeOK'
  BY <1>8, FinishType DEF TypeOK, VerifyFails
<1>9. ASSUME NEW r \in Requests, Disconnect(r) PROVE TypeOK'
  <2>1. orphans' \in SUBSET Requests /\ faults' \in Nat
    BY <1>9 DEF TypeOK, Disconnect, Fault
  <2> QED
    BY <1>9, <2>1, FinishType DEF TypeOK, Disconnect
<1>15. ASSUME NEW r \in Requests, RemoteEndLost(r) PROVE TypeOK'
  BY <1>15 DEF TypeOK, RemoteEndLost, Fault
<1>10. ASSUME NEW r \in Requests, JobReceives(r) \/ JobIsCut(r) \/ JobFails(r)
       PROVE  TypeOK'
  BY <1>10 DEF TypeOK, JobReceives, JobIsCut, JobFails, Live
<1>11. ASSUME NEW r \in Requests, JobMoves(r) PROVE TypeOK'
  BY <1>11 DEF TypeOK, JobMoves, Live
<1>12. ASSUME NEW t \in Tables, NEW o \in BOOLEAN, EditExternally(t, o)
       PROVE  TypeOK'
  BY <1>12 DEF TypeOK, EditExternally, Fault
<1>13. ASSUME NEW p \in Panels, PanelCrash(p) PROVE TypeOK'
  BY <1>13 DEF TypeOK, PanelCrash, Fault, Active
<1>14. CASE UNCHANGED vars
  BY <1>14 DEF TypeOK, vars
<1> QED
  BY <1>1, <1>2, <1>3, <1>4, <1>5, <1>6, <1>7, <1>8, <1>9, <1>10, <1>11,
     <1>12, <1>13, <1>14, <1>15 DEF Next, RequestStep, JobStep

(* TYPE CORRECTNESS of every reachable state; a request is done exactly    *)
(* when it was answered (service.go:37-103, admin.go:23-65).               *)
THEOREM TypeCorrect == Spec => []TypeOK
BY TypeInit, TypeNext, PTL DEF Spec

-----------------------------------------------------------------------------
(* The lock.                                                               *)

LEMMA LockInit == Init => LockDiscipline
BY DEF Init, LockDiscipline, Active

(* A request that finishes gives its lock back, and no other request loses *)
(* its own.                                                                *)
LEMMA LockFinish ==
  ASSUME TypeOK, LockDiscipline, NEW r \in Requests, pc[r] \in Active,
         NEW a, Finish(r, a), UNCHANGED req
  PROVE  LockDiscipline'
<1>1. pc' = [pc EXCEPT ![r] = "done"] /\ lock' = [lock EXCEPT ![req[r].panel] = Free]
  BY DEF Finish
<1>2. req[r].panel \in Panels /\ lock[req[r].panel] = r
  BY DEF TypeOK, LockDiscipline, Holds
<1>3. ASSUME NEW q \in Requests, pc'[q] \in Active
      PROVE  lock'[req[q].panel] = q
  <2>1. q # r /\ pc[q] \in Active
    BY <1>1, <1>3 DEF TypeOK, Active
  <2>2. lock[req[q].panel] = q
    BY <2>1 DEF LockDiscipline, Holds
  <2>3. req[q].panel # req[r].panel
    BY <1>2, <2>1, <2>2
  <2> QED
    BY <1>1, <2>2, <2>3 DEF TypeOK
<1>4. ASSUME NEW p \in Panels, lock'[p] # Free
      PROVE  pc'[lock'[p]] \in Active /\ req[lock'[p]].panel = p
  <2>1. p # req[r].panel /\ lock'[p] = lock[p]
    BY <1>1, <1>2, <1>4 DEF TypeOK
  <2>2. lock[p] \in Requests /\ pc[lock[p]] \in Active /\ req[lock[p]].panel = p
    BY <1>4, <2>1 DEF TypeOK, LockDiscipline
  <2>3. lock[p] # r
    BY <2>1, <2>2
  <2> QED
    BY <1>1, <2>1, <2>2, <2>3 DEF TypeOK
<1> QED
  BY <1>3, <1>4 DEF LockDiscipline, Holds

(* A request that moves on within its critical section keeps the lock. *)
LEMMA LockKeep ==
  ASSUME TypeOK, LockDiscipline, NEW r \in Requests, pc[r] \in Active,
         NEW l \in Active, pc' = [pc EXCEPT ![r] = l], UNCHANGED <<req, lock>>
  PROVE  LockDiscipline'
BY DEF TypeOK, LockDiscipline, Holds

LEMMA LockNext == TypeOK /\ LockDiscipline /\ [Next]_vars => LockDiscipline'
<1> SUFFICES ASSUME TypeOK, LockDiscipline, [Next]_vars PROVE LockDiscipline'
  OBVIOUS
<1> USE DEF files, history
<1>1. ASSUME NEW r \in Requests, Begin(r) PROVE LockDiscipline'
  <2>1. /\ pc[r] = "idle" /\ lock[req[r].panel] = Free
        /\ pc' = [pc EXCEPT ![r] = "locked"]
        /\ lock' = [lock EXCEPT ![req[r].panel] = r]
        /\ req' = req
    BY <1>1 DEF Begin
  <2>2. ASSUME NEW q \in Requests, pc'[q] \in Active
        PROVE  lock'[req[q].panel] = q
    <3>1. CASE q = r
      BY <2>1, <3>1 DEF TypeOK
    <3>2. CASE q # r
      <4>1. lock[req[q].panel] = q
        BY <2>1, <2>2, <3>2 DEF TypeOK, LockDiscipline, Holds
      <4> QED
        BY <2>1, <4>1, RenameAssumption DEF TypeOK
    <3> QED
      BY <3>1, <3>2
  <2>3. ASSUME NEW p \in Panels, lock'[p] # Free
        PROVE  pc'[lock'[p]] \in Active /\ req[lock'[p]].panel = p
    <3>1. CASE p = req[r].panel
      BY <2>1, <3>1 DEF TypeOK, Active
    <3>2. CASE p # req[r].panel
      <4>1. lock'[p] = lock[p]
        BY <2>1, <3>2 DEF TypeOK
      <4>2. lock[p] \in Requests /\ pc[lock[p]] \in Active /\ req[lock[p]].panel = p
        BY <2>3, <4>1 DEF TypeOK, LockDiscipline
      <4> QED
        BY <2>1, <4>1, <4>2 DEF TypeOK, Active
    <3> QED
      BY <3>1, <3>2
  <2> QED
    BY <2>1, <2>2, <2>3 DEF LockDiscipline, Holds
<1>2. ASSUME NEW r \in Requests, Refuse(r) PROVE LockDiscipline'
  BY <1>2 DEF TypeOK, Refuse, LockDiscipline, Holds, Active
<1>3. ASSUME NEW r \in Requests, GiveUp(r) PROVE LockDiscipline'
  BY <1>3, LockFinish DEF GiveUp, Active
<1>4. ASSUME NEW r \in Requests, ReadUseless(r) PROVE LockDiscipline'
  BY <1>4, LockFinish DEF ReadUseless, Active
<1>5. ASSUME NEW r \in Requests, ReadAndWrite(r) PROVE LockDiscipline'
  BY <1>5, LockKeep DEF ReadAndWrite, Active
<1>6. ASSUME NEW r \in Requests, WriteReturns(r) PROVE LockDiscipline'
  BY <1>6, LockFinish, LockKeep DEF WriteReturns, Active
<1>7. ASSUME NEW r \in Requests, VerifyOk(r) PROVE LockDiscipline'
  BY <1>7, LockFinish DEF VerifyOk, Active
<1>8. ASSUME NEW r \in Requests, VerifyFails(r) PROVE LockDiscipline'
  BY <1>8, LockFinish DEF VerifyFails, Active
<1>9. ASSUME NEW r \in Requests, Disconnect(r) PROVE LockDiscipline'
  BY <1>9, LockFinish DEF Disconnect
<1>10. ASSUME NEW p \in Panels, PanelCrash(p) PROVE LockDiscipline'
  <2>1. /\ req' = req
        /\ lock' = [lock EXCEPT ![p] = Free]
        /\ \A q \in Requests :
             pc'[q] = IF req[q].panel = p /\ pc[q] \in Active THEN "done" ELSE pc[q]
    BY <1>10 DEF PanelCrash
  <2>2. ASSUME NEW q \in Requests, pc'[q] \in Active
        PROVE  lock'[req[q].panel] = q
    BY <2>1, <2>2 DEF TypeOK, LockDiscipline, Holds, Active
  <2>3. ASSUME NEW o \in Panels, lock'[o] # Free
        PROVE  pc'[lock'[o]] \in Active /\ req[lock'[o]].panel = o
    BY <2>1, <2>3 DEF TypeOK, LockDiscipline
  <2> QED
    BY <2>1, <2>2, <2>3 DEF LockDiscipline, Holds
<1>11. CASE UNCHANGED <<req, pc, lock>>
  BY <1>11 DEF LockDiscipline, Holds
<1> QED
  BY <1>1, <1>2, <1>3, <1>4, <1>5, <1>6, <1>7, <1>8, <1>9, <1>10, <1>11
     DEF Next, RequestStep, JobStep, vars, JobReceives, JobIsCut, JobMoves,
         JobFails, EditExternally, RemoteEndLost

(* THE LOCK IS HELD BY WHO WORKS: mutual exclusion of the requests of a    *)
(* panel, and no lock is ever leaked (lock.go:10-26, service.go:42-49).    *)
THEOREM LockIsDisciplined == Spec => []LockDiscipline
BY TypeInit, TypeNext, LockInit, LockNext, PTL DEF Spec

-----------------------------------------------------------------------------
(* Jobs, answers and the state of the table.                               *)

(* What the position of a goroutine says about its job. *)
JobState(r) ==
  /\ pc[r] \in {"idle", "locked"} => job[r] = "none"
  /\ pc[r] = "verifying" => job[r] = "moved"
  /\ job[r] \in Live /\ pc[r] # "writing" => r \in orphans
  /\ job[r] = "cut" => r \in orphans
  /\ answer[r] = "ok" => job[r] = "moved"
  /\ answer[r] = "conflict" => job[r] = "none"

JobInv == \A r \in Requests : JobState(r)

LEMMA JobInit == Init => JobInv
<1> SUFFICES ASSUME Init PROVE JobInv
  OBVIOUS
<1> QED
  BY DEF Init, JobInv, JobState, Live

(* A request that ends without a running job leaves the others alone. *)
LEMMA JobFinish ==
  ASSUME TypeOK, JobInv, NEW r \in Requests, NEW a \in {"ok", "error"},
         Finish(r, a), UNCHANGED <<job, table>>,
         orphans \subseteq orphans',
         job[r] \in Live => r \in orphans',
         a = "ok" => job[r] = "moved"
  PROVE  JobInv'
<1>1. /\ pc' = [pc EXCEPT ![r] = "done"]
      /\ answer' = [answer EXCEPT ![r] = a]
  BY DEF Finish
<1>2. ASSUME NEW q \in Requests PROVE JobState(q)'
  <2>1. CASE q = r
    BY <1>1, <2>1 DEF TypeOK, JobInv, JobState, Live
  <2>2. CASE q # r
    BY <1>1, <2>2 DEF TypeOK, JobInv, JobState
  <2> QED
    BY <2>1, <2>2
<1> QED
  BY <1>2 DEF JobInv

LEMMA JobNext == TypeOK /\ JobInv /\ [Next]_vars => JobInv'
<1> SUFFICES ASSUME TypeOK, JobInv, [Next]_vars PROVE JobInv'
  OBVIOUS
<1> USE DEF files, history
<1>1. ASSUME NEW r \in Requests, Begin(r) PROVE JobInv'
  BY <1>1 DEF TypeOK, Begin, JobInv, JobState
<1>2. ASSUME NEW r \in Requests, Refuse(r) PROVE JobInv'
  BY <1>2 DEF TypeOK, Refuse, JobInv, JobState, Live
<1>3. ASSUME NEW r \in Requests, GiveUp(r) PROVE JobInv'
  <2>1. job[r] = "none"
    BY <1>3 DEF GiveUp, JobInv, JobState
  <2> QED
    BY <1>3, <2>1, JobFinish DEF GiveUp, Live
<1>4. ASSUME NEW r \in Requests, ReadUseless(r) PROVE JobInv'
  <2>1. job[r] = "none"
    BY <1>4 DEF ReadUseless, JobInv, JobState
  <2> QED
    BY <1>4, <2>1, JobFinish DEF ReadUseless, Live
<1>5. ASSUME NEW r \in Requests, ReadAndWrite(r) PROVE JobInv'
  <2>1. /\ pc' = [pc EXCEPT ![r] = "writing"]
        /\ job' = [job EXCEPT ![r] = "streaming"]
        /\ answer[r] = "none"
        /\ UNCHANGED <<answer, orphans, table>>
    BY <1>5 DEF ReadAndWrite, TypeOK
  <2>2. ASSUME NEW q \in Requests PROVE JobState(q)'
    <3>1. CASE q = r
      BY <2>1, <3>1 DEF TypeOK, JobState
    <3>2. CASE q # r
      BY <2>1, <3>2 DEF TypeOK, JobInv, JobState
    <3> QED
      BY <3>1, <3>2
  <2> QED
    BY <2>1, <2>2 DEF JobInv
<1>6. ASSUME NEW r \in Requests, WriteReturns(r) PROVE JobInv'
  <2>1. CASE job[r] = "failed" /\ Finish(r, "error")
    BY <1>6, <2>1, JobFinish DEF WriteReturns, Live
  <2>2. CASE /\ job[r] = "moved"
             /\ pc' = [pc EXCEPT ![r] = "verifying"]
             /\ UNCHANGED <<answer, lock>>
    BY <1>6, <2>2 DEF TypeOK, WriteReturns, JobInv, JobState, Live
  <2> QED
    BY <1>6, <2>1, <2>2 DEF WriteReturns
<1>7. ASSUME NEW r \in Requests, VerifyOk(r) \/ VerifyFails(r) PROVE JobInv'
  <2>1. job[r] = "moved"
    BY <1>7 DEF VerifyOk, VerifyFails, JobInv, JobState
  <2> QED
    BY <1>7, <2>1, JobFinish DEF VerifyOk, VerifyFails, Live
<1>8. ASSUME NEW r \in Requests, Disconnect(r) PROVE JobInv'
  BY <1>8, JobFinish DEF Disconnect
<1>9. ASSUME NEW r \in Requests, JobReceives(r) \/ JobIsCut(r) \/ JobFails(r)
      PROVE  JobInv'
  <2>1. /\ UNCHANGED <<pc, answer, table, orphans>>
        /\ job[r] \in Live
        /\ \/ job' = [job EXCEPT ![r] = "received"]
           \/ job' = [job EXCEPT ![r] = "failed"]
           \/ r \in orphans /\ job' = [job EXCEPT ![r] = "cut"]
    BY <1>9 DEF JobReceives, JobIsCut, JobFails, Live
  <2>2. ASSUME NEW q \in Requests PROVE JobState(q)'
    <3>1. CASE q = r
      BY <2>1, <3>1 DEF TypeOK, JobInv, JobState, Live
    <3>2. CASE q # r
      BY <2>1, <3>2 DEF TypeOK, JobInv, JobState
    <3> QED
      BY <3>1, <3>2
  <2> QED
    BY <2>1, <2>2 DEF JobInv
<1>10. ASSUME NEW r \in Requests, JobMoves(r) PROVE JobInv'
  <2>1. /\ UNCHANGED <<pc, answer, orphans>>
        /\ job[r] \in {"received", "cut"}
        /\ job' = [job EXCEPT ![r] = "moved"]
        /\ table' = IF job[r] = "cut" THEN Cut ELSE next[r]
    BY <1>10 DEF JobMoves
  <2>2. ASSUME NEW q \in Requests PROVE JobState(q)'
    <3>1. CASE q = r
      BY <2>1, <3>1 DEF TypeOK, JobInv, JobState, Live
    <3>2. CASE q # r
      BY <2>1, <3>2 DEF TypeOK, JobInv, JobState
    <3> QED
      BY <3>1, <3>2
  <2> QED
    BY <2>2 DEF JobInv
<1>11. ASSUME NEW t \in Tables, NEW o \in BOOLEAN, EditExternally(t, o)
       PROVE  JobInv'
  BY <1>11 DEF EditExternally, JobInv, JobState
<1>12. ASSUME NEW p \in Panels, PanelCrash(p) PROVE JobInv'
  <2>1. /\ UNCHANGED <<job, table>>
        /\ \A q \in Requests :
             IF req[q].panel = p /\ pc[q] \in Active
             THEN pc'[q] = "done" /\ answer'[q] = "error"
             ELSE pc'[q] = pc[q] /\ answer'[q] = answer[q]
        /\ \A q \in Requests :
             req[q].panel = p /\ pc[q] \in Active /\ job[q] \in Live => q \in orphans'
        /\ orphans \subseteq orphans'
    BY <1>12 DEF PanelCrash
  <2>2. ASSUME NEW q \in Requests PROVE JobState(q)'
    <3>1. CASE req[q].panel = p /\ pc[q] \in Active
      BY <2>1, <3>1 DEF JobInv, JobState, Live
    <3>2. CASE ~(req[q].panel = p /\ pc[q] \in Active)
      BY <2>1, <3>2 DEF JobInv, JobState
    <3> QED
      BY <3>1, <3>2
  <2> QED
    BY <2>1, <2>2 DEF JobInv
<1>14. ASSUME NEW r \in Requests, RemoteEndLost(r) PROVE JobInv'
  BY <1>14 DEF RemoteEndLost, JobInv, JobState
<1>13. CASE UNCHANGED vars
  BY <1>13 DEF vars, JobInv, JobState
<1> QED
  BY <1>1, <1>2, <1>3, <1>4, <1>5, <1>6, <1>7, <1>8, <1>9, <1>10, <1>11,
     <1>12, <1>13, <1>14 DEF Next, RequestStep, JobStep

(* AN ANSWER SETTLES ITS REQUEST, AND IS HONEST (service.go:46-48, 80-102, *)
(* ssh_docker_files.go:58-74).                                             *)
THEOREM AnswersSettle == Spec => []AnswerSettles
<1>1. TypeOK /\ JobInv => AnswerSettles
  BY DEF TypeOK, JobInv, JobState, AnswerSettles
<1> QED
  BY <1>1, TypeInit, TypeNext, JobInit, JobNext, PTL DEF Spec

-----------------------------------------------------------------------------
(* No rename takes back another one.                                       *)

(* Unless another writer was noticed, one panel at most is at work. *)
OneWriter ==
  ~shared => \A p, q \in Panels : lock[p] # Free /\ lock[q] # Free => p = q

FreshInv == OneWriter /\ WriteIsFresh

LEMMA FreshInit == Init => FreshInv
BY DEF Init, FreshInv, OneWriter, WriteIsFresh, Live

(* Steps that end a request, or move it on, leave the table and the jobs   *)
(* alone and take no lock.                                                 *)
LEMMA FreshFrame ==
  ASSUME TypeOK, FreshInv, UNCHANGED <<req, next, job, table, shared>>,
         orphans \subseteq orphans',
         \A p \in Panels : lock'[p] # Free => lock[p] # Free,
         \A r \in Requests : pc[r] = "writing" /\ pc'[r] # "writing" =>
                               job[r] \notin Live \/ orphans' # {}
  PROVE  FreshInv'
<1>1. OneWriter'
  BY DEF FreshInv, OneWriter
<1>2. WriteIsFresh'
  <2> SUFFICES ASSUME Undisturbed', NEW r \in Requests, job[r] \in Live
               PROVE  Fresh(r)'
    BY DEF WriteIsFresh
  <2>1. Undisturbed
    BY DEF Undisturbed
  <2>2. Fresh(r)
    BY <2>1 DEF FreshInv, WriteIsFresh
  <2>3. pc'[r] = "writing"
    BY <2>2 DEF Fresh, Undisturbed
  <2> QED
    BY <2>2, <2>3 DEF Fresh
<1> QED
  BY <1>1, <1>2 DEF FreshInv

(* A request that ends without a running job disturbs no write. *)
LEMMA FreshFinish ==
  ASSUME TypeOK, FreshInv, NEW r \in Requests, NEW a, Finish(r, a),
         UNCHANGED <<req, files, shared>>, orphans \subseteq orphans',
         job[r] \notin Live \/ orphans' # {}
  PROVE  FreshInv'
<1>1. /\ \A p \in Panels : lock'[p] # Free => lock[p] # Free
      /\ \A q \in Requests : q # r => pc'[q] = pc[q]
  BY DEF Finish, TypeOK
<1> QED
  BY <1>1, FreshFrame DEF files

(* With one writer, two requests that both write are the same. *)
LEMMA OneRequestWrites ==
  ASSUME TypeOK, LockDiscipline, OneWriter, ~shared,
         NEW q \in Requests, NEW r \in Requests,
         pc[q] = "writing", pc[r] = "writing"
  PROVE  q = r
<1>1. lock[req[q].panel] = q /\ lock[req[r].panel] = r
  BY DEF LockDiscipline, Holds, Active
<1>2. req[q].panel \in Panels /\ req[r].panel \in Panels
  BY DEF TypeOK
<1>3. req[q].panel = req[r].panel
  BY <1>1, <1>2, RenameAssumption DEF OneWriter
<1> QED
  BY <1>1, <1>3

LEMMA FreshNext ==
  TypeOK /\ LockDiscipline /\ JobInv /\ FreshInv /\ [Next]_vars => FreshInv'
<1> SUFFICES ASSUME TypeOK, LockDiscipline, JobInv, FreshInv, [Next]_vars
             PROVE  FreshInv'
  OBVIOUS
<1> USE DEF files, history
<1>1. ASSUME NEW r \in Requests, Begin(r) PROVE FreshInv'
  <2>1. /\ pc[r] = "idle"
        /\ pc' = [pc EXCEPT ![r] = "locked"]
        /\ lock' = [lock EXCEPT ![req[r].panel] = r]
        /\ shared' = (shared \/ \E p \in Panels : lock[p] # Free)
        /\ UNCHANGED <<req, next, job, table, orphans>>
    BY <1>1 DEF Begin
  <2>2. OneWriter'
    BY <2>1 DEF TypeOK, OneWriter
  <2>3. WriteIsFresh'
    <3> SUFFICES ASSUME Undisturbed', NEW q \in Requests, job[q] \in Live
                 PROVE  Fresh(q)'
      BY <2>1 DEF WriteIsFresh
    <3>1. Undisturbed
      BY <2>1 DEF Undisturbed
    <3>2. Fresh(q)
      BY <3>1 DEF FreshInv, WriteIsFresh
    <3> QED
      BY <2>1, <3>2 DEF Fresh, TypeOK
  <2> QED
    BY <2>2, <2>3 DEF FreshInv
<1>2. ASSUME NEW r \in Requests, Refuse(r) PROVE FreshInv'
  <2>1. \A q \in Requests : pc[q] = "writing" => pc'[q] = "writing"
    BY <1>2 DEF Refuse, TypeOK
  <2> QED
    BY <1>2, <2>1, FreshFrame DEF Refuse
<1>3. ASSUME NEW r \in Requests, GiveUp(r) \/ ReadUseless(r) PROVE FreshInv'
  <2>1. job[r] = "none"
    BY <1>3 DEF GiveUp, ReadUseless, JobInv, JobState
  <2> QED
    BY <1>3, <2>1, FreshFinish DEF GiveUp, ReadUseless, Live
<1>4. ASSUME NEW r \in Requests, ReadAndWrite(r) PROVE FreshInv'
  <2>1. /\ pc[r] = "locked" /\ table # Cut /\ table[req[r].client] # Absent
        /\ next' = [next EXCEPT ![r] = [table EXCEPT ![req[r].client] = req[r].name]]
        /\ job' = [job EXCEPT ![r] = "streaming"]
        /\ pc' = [pc EXCEPT ![r] = "writing"]
        /\ UNCHANGED <<req, lock, table, shared, orphans>>
    BY <1>4 DEF ReadAndWrite
  <2>2. OneWriter'
    BY <2>1 DEF FreshInv, OneWriter
  <2>3. WriteIsFresh'
    <3> SUFFICES ASSUME Undisturbed', NEW q \in Requests, job'[q] \in Live
                 PROVE  Fresh(q)'
      BY DEF WriteIsFresh
    <3>1. CASE q = r
      BY <2>1, <3>1 DEF Fresh, TypeOK
    <3>2. CASE q # r
      <4>1. Undisturbed /\ job[q] \in Live
        BY <2>1, <3>2 DEF Undisturbed, TypeOK
      <4>2. Fresh(q)
        BY <4>1 DEF FreshInv, WriteIsFresh
      <4> QED
        BY <2>1, <3>2, <4>2 DEF Fresh, TypeOK
    <3> QED
      BY <3>1, <3>2
  <2> QED
    BY <2>2, <2>3 DEF FreshInv
<1>5. ASSUME NEW r \in Requests, WriteReturns(r) PROVE FreshInv'
  <2>1. CASE job[r] = "failed" /\ Finish(r, "error")
    BY <1>5, <2>1, FreshFinish DEF WriteReturns, Live
  <2>2. CASE /\ job[r] = "moved"
             /\ pc' = [pc EXCEPT ![r] = "verifying"]
             /\ UNCHANGED <<answer, lock>>
    <3>1. \A q \in Requests : pc[q] = "writing" /\ pc'[q] # "writing" => q = r
      BY <2>2 DEF TypeOK
    <3> QED
      BY <1>5, <2>2, <3>1, FreshFrame DEF WriteReturns, Live
  <2> QED
    BY <1>5, <2>1, <2>2 DEF WriteReturns
<1>6. ASSUME NEW r \in Requests, VerifyOk(r) \/ VerifyFails(r) PROVE FreshInv'
  <2>1. job[r] = "moved"
    BY <1>6 DEF VerifyOk, VerifyFails, JobInv, JobState
  <2> QED
    BY <1>6, <2>1, FreshFinish DEF VerifyOk, VerifyFails, Live
<1>7. ASSUME NEW r \in Requests, Disconnect(r) PROVE FreshInv'
  BY <1>7, FreshFinish DEF Disconnect
<1>8. ASSUME NEW r \in Requests, JobReceives(r) \/ JobIsCut(r) \/ JobFails(r)
      PROVE  FreshInv'
  <2>1. /\ UNCHANGED <<req, pc, lock, next, table, shared, orphans>>
        /\ job[r] \in Live
        /\ \A q \in Requests : q # r => job'[q] = job[q]
    BY <1>8 DEF JobReceives, JobIsCut, JobFails, Live, TypeOK
  <2>2. OneWriter'
    BY <2>1 DEF FreshInv, OneWriter
  <2>3. WriteIsFresh'
    <3> SUFFICES ASSUME Undisturbed', NEW q \in Requests, job'[q] \in Live
                 PROVE  Fresh(q)'
      BY DEF WriteIsFresh
    <3>1. Undisturbed /\ job[q] \in Live
      BY <2>1 DEF Undisturbed
    <3>2. Fresh(q)
      BY <3>1 DEF FreshInv, WriteIsFresh
    <3> QED
      BY <2>1, <3>2 DEF Fresh
  <2> QED
    BY <2>2, <2>3 DEF FreshInv
<1>9. ASSUME NEW r \in Requests, JobMoves(r) PROVE FreshInv'
  <2>1. /\ job[r] \in Live
        /\ job' = [job EXCEPT ![r] = "moved"]
        /\ UNCHANGED <<req, pc, lock, next, shared, orphans>>
    BY <1>9 DEF JobMoves, Live
  <2>2. OneWriter'
    BY <2>1 DEF FreshInv, OneWriter
  <2>3. WriteIsFresh'
    <3> SUFFICES ASSUME Undisturbed', NEW q \in Requests, job'[q] \in Live
                 PROVE  FALSE
      BY DEF WriteIsFresh
    <3>1. Undisturbed /\ q # r /\ job[q] \in Live
      BY <2>1 DEF Undisturbed, TypeOK, Live
    <3>2. Fresh(q) /\ Fresh(r)
      BY <2>1, <3>1 DEF FreshInv, WriteIsFresh
    <3> QED
      BY <3>1, <3>2, OneRequestWrites DEF Fresh, FreshInv, Undisturbed
  <2> QED
    BY <2>2, <2>3 DEF FreshInv
<1>10. ASSUME NEW t \in Tables, NEW o \in BOOLEAN, EditExternally(t, o)
       PROVE  FreshInv'
  BY <1>10 DEF EditExternally, FreshInv, OneWriter, WriteIsFresh, Undisturbed
<1>11. ASSUME NEW p \in Panels, PanelCrash(p) PROVE FreshInv'
  <2>1. /\ \A o \in Panels : lock'[o] # Free => lock[o] # Free
        /\ UNCHANGED <<req, next, job, table, shared>>
        /\ orphans \subseteq orphans'
    BY <1>11 DEF PanelCrash, TypeOK
  <2>2. ASSUME NEW q \in Requests, pc[q] = "writing", pc'[q] # "writing", job[q] \in Live
        PROVE  orphans' # {}
    <3>1. q \in orphans'
      BY <1>11, <2>2 DEF PanelCrash, Active
    <3> QED
      BY <3>1
  <2> QED
    BY <2>1, <2>2, FreshFrame
<1>13. ASSUME NEW r \in Requests, RemoteEndLost(r) PROVE FreshInv'
  BY <1>13, FreshFrame DEF RemoteEndLost
<1>12. CASE UNCHANGED vars
  BY <1>12, FreshFrame DEF vars
<1> QED
  BY <1>1, <1>2, <1>3, <1>4, <1>5, <1>6, <1>7, <1>8, <1>9, <1>10, <1>11,
     <1>12, <1>13 DEF Next, RequestStep, JobStep

(* NO RENAME TAKES BACK ANOTHER ONE: what is being written is the present  *)
(* table with one new name, while the panel is the only writer and no      *)
(* connection was lost during a write (service.go:46-82).                  *)
THEOREM WritesAreFresh == Spec => []WriteIsFresh
<1>1. FreshInv => WriteIsFresh
  BY DEF FreshInv
<1> QED
  BY <1>1, TypeInit, TypeNext, LockInit, LockNext, JobInit, JobNext,
     FreshInit, FreshNext, PTL DEF Spec

-----------------------------------------------------------------------------
(* One panel without faults implements the register.                       *)

Quiet == faults = 0 /\ Undisturbed

(* One panel without faults is never disturbed. *)
LEMMA QuietNext ==
  ASSUME NEW p0, Panels = {p0}, MaxFaults = 0
  PROVE  TypeOK /\ Quiet /\ [Next]_vars => Quiet'
<1> SUFFICES ASSUME TypeOK, Quiet, [Next]_vars PROVE Quiet'
  OBVIOUS
<1> USE DEF files, history
<1>1. ASSUME NEW r \in Requests, Begin(r) PROVE Quiet'
  BY <1>1 DEF Begin, TypeOK, Quiet, Undisturbed
<1>2. ~Fault
  BY DEF Fault, Quiet
<1>3. CASE UNCHANGED history
  BY <1>3 DEF Quiet, Undisturbed
<1> QED
  BY <1>1, <1>2, <1>3
     DEF Next, RequestStep, JobStep, vars, Refuse, GiveUp, ReadUseless,
         ReadAndWrite, WriteReturns, VerifyOk, VerifyFails, Disconnect,
         JobReceives, JobIsCut, JobMoves, JobFails, EditExternally, PanelCrash,
         RemoteEndLost

(* Finishing a request is answering it. *)
LEMMA FinishAnswers ==
  ASSUME TypeOK, NEW r \in Requests, pc[r] # "done",
         NEW a \in {"ok", "conflict", "error"},
         answer' = [answer EXCEPT ![r] = a], UNCHANGED <<req, job, table>>,
         a = "ok" => job[r] = "moved" /\ table[req[r].client] = req[r].name,
         a = "conflict" => job[r] # "moved"
  PROVE  Register!Next
<1>1. Register!Answer(r, a)
  BY DEF TypeOK, Register!Answer
<1> QED
  BY <1>1 DEF Register!Next

(* A step that leaves everything undisturbed is one of the register. *)
LEMMA StepImplementsRegister ==
  ASSUME TypeOK, LockDiscipline, JobInv, WriteIsFresh, Undisturbed, Undisturbed',
         [Next]_vars
  PROVE  [Register!Next]_Register!vars
<1> USE DEF files, history
<1>1. CASE UNCHANGED <<req, answer, table>> /\
           {r \in Requests : job[r] = "moved"}' = {r \in Requests : job[r] = "moved"}
  BY <1>1 DEF Register!vars
<1>2. ASSUME NEW r \in Requests, Begin(r) PROVE [Register!Next]_Register!vars
  BY <1>2 DEF Begin, Register!vars
<1>3. ASSUME NEW r \in Requests, Refuse(r) PROVE Register!Next
  <2>1. job[r] = "none"
    BY <1>3 DEF Refuse, JobInv, JobState
  <2> QED
    BY <1>3, <2>1, FinishAnswers DEF Refuse
<1>4. ASSUME NEW r \in Requests,
             GiveUp(r) \/ ReadUseless(r) \/ VerifyFails(r)
      PROVE  Register!Next
  BY <1>4, FinishAnswers DEF GiveUp, ReadUseless, VerifyFails, Finish
<1>5. ASSUME NEW r \in Requests, ReadAndWrite(r)
      PROVE  [Register!Next]_Register!vars
  <2>1. job[r] = "none"
    BY <1>5 DEF ReadAndWrite, JobInv, JobState
  <2>2. {q \in Requests : job'[q] = "moved"} = {q \in Requests : job[q] = "moved"}
    BY <1>5, <2>1 DEF ReadAndWrite, TypeOK
  <2> QED
    BY <1>1, <1>5, <2>2 DEF ReadAndWrite
<1>6. ASSUME NEW r \in Requests, WriteReturns(r)
      PROVE  [Register!Next]_Register!vars
  <2>1. CASE job[r] = "failed" /\ Finish(r, "error")
    BY <1>6, <2>1, FinishAnswers DEF WriteReturns, Finish
  <2>2. CASE UNCHANGED answer
    BY <1>1, <1>6, <2>2 DEF WriteReturns
  <2> QED
    BY <1>6, <2>1, <2>2 DEF WriteReturns
<1>7. ASSUME NEW r \in Requests, VerifyOk(r) PROVE Register!Next
  <2>1. job[r] = "moved" /\ table[req[r].client] = req[r].name
    BY <1>7 DEF VerifyOk, Verified, JobInv, JobState
  <2> QED
    BY <1>7, <2>1, FinishAnswers DEF VerifyOk, Finish
<1>8. ASSUME NEW r \in Requests, JobReceives(r) \/ JobIsCut(r) \/ JobFails(r)
      PROVE  [Register!Next]_Register!vars
  <2>1. {q \in Requests : job'[q] = "moved"} = {q \in Requests : job[q] = "moved"}
    BY <1>8 DEF JobReceives, JobIsCut, JobFails, TypeOK, Live
  <2> QED
    BY <1>1, <1>8, <2>1 DEF JobReceives, JobIsCut, JobFails
<1>9. ASSUME NEW r \in Requests, JobMoves(r) PROVE Register!Next
  <2>1. job[r] = "received"
    BY <1>9 DEF JobMoves, JobInv, JobState, Undisturbed
  <2>2. Fresh(r)
    BY <2>1 DEF WriteIsFresh, Live
  <2>3. answer[r] = "none"
    BY <2>2 DEF Fresh, TypeOK
  <2>4. table' = [table EXCEPT ![req[r].client] = req[r].name]
    BY <1>9, <2>1, <2>2 DEF JobMoves, Fresh
  <2>5. {q \in Requests : job'[q] = "moved"} =
          {q \in Requests : job[q] = "moved"} \union {r}
    BY <1>9 DEF JobMoves, TypeOK
  <2>6. Register!Apply(r)
    BY <1>9, <2>1, <2>2, <2>3, <2>4, <2>5 DEF JobMoves, Fresh, Register!Apply
  <2> QED
    BY <2>6 DEF Register!Next
<1>10. CASE UNCHANGED vars
  BY <1>1, <1>10 DEF vars
<1>11. ASSUME NEW r \in Requests, Disconnect(r) PROVE Register!Next
  BY <1>11, FinishAnswers DEF Disconnect, Finish, Active
<1>12. ASSUME NEW p \in Panels, PanelCrash(p)
       PROVE  [Register!Next]_Register!vars
  <2> DEFINE lost == {r \in Requests : req[r].panel = p /\ pc[r] \in Active}
  <2>1. \A r \in lost : r = lock[p]
    BY DEF LockDiscipline, Holds
  <2>2. /\ answer' = [r \in Requests |-> IF r \in lost THEN "error" ELSE answer[r]]
        /\ UNCHANGED <<req, job, table>>
    BY <1>12 DEF PanelCrash
  <2>3. CASE lost = {}
    <3>1. answer' = answer
      BY <2>2, <2>3 DEF TypeOK
    <3> QED
      BY <1>1, <2>2, <3>1
  <2>4. ASSUME NEW r \in lost PROVE Register!Next
    <3>1. answer' = [answer EXCEPT ![r] = "error"]
      BY <2>1, <2>2 DEF TypeOK
    <3> QED
      BY <2>2, <3>1, FinishAnswers DEF Active
  <2> QED
    BY <2>3, <2>4
<1>13. ASSUME NEW t \in Tables, NEW o \in BOOLEAN, EditExternally(t, o)
       PROVE  FALSE
  BY <1>13 DEF EditExternally, Undisturbed
<1>14. ASSUME NEW r \in Requests, RemoteEndLost(r)
       PROVE  [Register!Next]_Register!vars
  BY <1>14 DEF RemoteEndLost, Register!vars
<1> QED
  BY <1>2, <1>3, <1>4, <1>5, <1>6, <1>7, <1>8, <1>9, <1>10, <1>11, <1>12,
     <1>13, <1>14 DEF Next, RequestStep, JobStep

(* EVERY UNDISTURBED STEP IMPLEMENTS THE REGISTER: with any number of      *)
(* panels, crashes and lost connections, as long as no job was orphaned    *)
(* and nobody else wrote during a request, the table is the register; a    *)
(* disconnected or crashed request counts as an answer that leaves it open *)
(* (service.go:37-103, ssh_docker_files.go:58-90).                         *)
THEOREM UndisturbedImplementsRegister ==
  Spec => RegisterWhileUndisturbed
<1>1. Init => Register!Init
  BY DEF Init, Register!Init, Tables
<1>2. TypeOK /\ LockDiscipline /\ JobInv /\ FreshInv /\ [Next]_vars
        => (Undisturbed /\ Undisturbed' => [Register!Next]_Register!vars)
  BY StepImplementsRegister DEF FreshInv
<1> QED
  BY <1>1, <1>2, TypeInit, TypeNext, LockInit, LockNext, JobInit, JobNext,
     FreshInit, FreshNext, PTL DEF Spec, RegisterWhileUndisturbed

(* RENAMING IMPLEMENTS THE REGISTER: with one panel and no faults every    *)
(* rename takes effect once, at the mv of its job, between request and     *)
(* answer, and on its own client only (service.go:37-103).                 *)
THEOREM RenameImplementsRegister ==
  ASSUME NEW p0, Panels = {p0}, MaxFaults = 0
  PROVE  Spec => ImplementsRegister
<1>1. Init => Register!Init
  BY DEF Init, Register!Init, Tables
<1>2. Init => Quiet
  BY DEF Init, Quiet, Undisturbed
<1>3. TypeOK /\ Quiet /\ [Next]_vars => Quiet'
  BY QuietNext
<1>4. /\ TypeOK /\ LockDiscipline /\ JobInv /\ FreshInv
      /\ Quiet /\ Quiet' /\ [Next]_vars
      => [Register!Next]_Register!vars
  BY StepImplementsRegister DEF FreshInv, Quiet
<1> QED
  BY <1>1, <1>2, <1>3, <1>4, TypeInit, TypeNext, LockInit, LockNext, JobInit,
     JobNext, FreshInit, FreshNext, PTL
     DEF Spec, ImplementsRegister, Register!Spec
=============================================================================
