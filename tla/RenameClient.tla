---------------------------- MODULE RenameClient ----------------------------
(***************************************************************************)
(* Renaming a client through the panel (internal/admin, and the handler in *)
(* internal/web/admin.go).  A request takes the panel's operation lock or  *)
(* is refused, reads the clientsTable out of the VPN container over SSH,   *)
(* computes the new table, writes it back with a remote shell job (cat to  *)
(* a temporary file, chmod, mv), reads it again to verify, and releases    *)
(* the lock.                                                               *)
(*                                                                         *)
(* The remote job is a process of its own: it outlives the ssh client that *)
(* started it.  When that client is killed (the browser went away and the  *)
(* request's context was cancelled, or the keepalive gave up) the lock is  *)
(* released although the job may still move its file into place, and the   *)
(* job takes the end of its input for the end of the file.  The connection *)
(* may also be gone on the job's side first: then the job gets the end of  *)
(* its input while the request waits on, until the keepalive gives up.     *)
(*                                                                         *)
(* The table is kept here to the name of every client.  That a rewrite of  *)
(* the file changes exactly one of them is ClientsTable's                  *)
(* ShownClientCanBeRenamed; odd stands for the tables excluded there       *)
(* (a client twice, a field of a wrong type), on which the rewrite works   *)
(* and the verification fails.                                             *)
(***************************************************************************)
EXTENDS Naturals

CONSTANTS
  Panels,     \* running panels that administer this VPS
  Requests,   \* rename requests
  Clients,    \* clients of the VPN
  Names,      \* names of clients
  Absent,     \* the name of a client the table does not list
  Cut,        \* a table of which only a prefix was written
  Free,       \* the holder of an open lock
  MaxFaults   \* bound: lost connections, panel crashes, edits by others

ASSUME RenameAssumption ==
  /\ Free \notin Requests
  /\ Absent \notin Names
  /\ Cut \notin [Clients -> Names \union {Absent}]
  /\ MaxFaults \in Nat

Tables == [Clients -> Names \union {Absent}]

VARIABLES
  req,        \* the panel, client and name of every request
  pc,         \* how far the goroutine of a request got
  answer,     \* what it told the browser
  lock,       \* holder of each panel's OperationLock
  next,       \* the table a request computed
  job,        \* its remote write
  table,      \* the clientsTable in the container
  odd,        \* the reader cannot verify a rename in this table
  \* history
  orphans,    \* requests that lost touch with their job while it was running
  shared,     \* somebody else may have written during a request
  faults

files == <<next, job, table, odd>>
history == <<orphans, shared, faults>>
vars == <<req, pc, answer, lock, files, history>>

Active == {"locked", "writing", "verifying"}
Live == {"streaming", "received", "cut"}     \* jobs that may still move

Init ==
  /\ req \in [Requests -> [panel : Panels, client : Clients, name : Names]]
  /\ pc = [r \in Requests |-> "idle"]
  /\ answer = [r \in Requests |-> "none"]
  /\ lock = [p \in Panels |-> Free]
  /\ table \in Tables
  /\ next = [r \in Requests |-> table]
  /\ job = [r \in Requests |-> "none"]
  /\ odd \in BOOLEAN
  /\ orphans = {}
  /\ shared = FALSE
  /\ faults = 0

Fault == faults < MaxFaults /\ faults' = faults + 1

Holds(r) == lock[req[r].panel] = r

(* Mutant: an error path returns without the deferred Unlock. *)
FinishKeepsLock(r, a) ==
  /\ pc' = [pc EXCEPT ![r] = "done"]
  /\ answer' = [answer EXCEPT ![r] = a]
  /\ lock' = IF a = "error" THEN lock ELSE [lock EXCEPT ![req[r].panel] = Free]

(* The deferred Unlock, and the answer the handler derives from the error. *)
Finish(r, a) ==
  /\ pc' = [pc EXCEPT ![r] = "done"]
  /\ answer' = [answer EXCEPT ![r] = a]
  /\ lock' = [lock EXCEPT ![req[r].panel] = Free]

-----------------------------------------------------------------------------
(* The goroutine of a request.                                             *)

(* TryLock succeeds. *)
Begin(r) ==
  /\ pc[r] = "idle"
  /\ lock[req[r].panel] = Free
  /\ lock' = [lock EXCEPT ![req[r].panel] = r]
  /\ pc' = [pc EXCEPT ![r] = "locked"]
  /\ shared' = (shared \/ \E p \in Panels : lock[p] # Free)
  /\ UNCHANGED <<req, answer, files, orphans, faults>>

(* Mutant: the handler returns without writing a status. *)
RefuseSilently(r) ==
  /\ pc[r] = "idle"
  /\ lock[req[r].panel] # Free
  /\ pc' = [pc EXCEPT ![r] = "done"]
  /\ UNCHANGED <<req, answer, lock, files, history>>

(* TryLock fails: 409, and the lock stays with its holder. *)
Refuse(r) ==
  /\ pc[r] = "idle"
  /\ lock[req[r].panel] # Free
  /\ pc' = [pc EXCEPT ![r] = "done"]
  /\ answer' = [answer EXCEPT ![r] = "conflict"]
  /\ UNCHANGED <<req, lock, files, history>>

(* The request is incomplete or names an unknown protocol, ssh fails, or   *)
(* what it printed does not parse (its warnings are part of the output).   *)
GiveUp(r) ==
  /\ pc[r] = "locked"
  /\ Finish(r, "error")
  /\ UNCHANGED <<req, files, history>>

(* The table is read; a damaged one does not parse, and a client may be    *)
(* missing from it.                                                        *)
ReadUseless(r) ==
  /\ pc[r] = "locked"
  /\ IF table = Cut THEN TRUE ELSE table[req[r].client] = Absent
  /\ Finish(r, "error")
  /\ UNCHANGED <<req, files, history>>

(* Mutants: the lock only covers the read; the table is read from a copy   *)
(* the panel keeps.                                                        *)
ReadAndWriteUnlocked(r) ==
  /\ pc[r] = "locked"
  /\ table # Cut
  /\ table[req[r].client] # Absent
  /\ next' = [next EXCEPT ![r] = [table EXCEPT ![req[r].client] = req[r].name]]
  /\ job' = [job EXCEPT ![r] = "streaming"]
  /\ pc' = [pc EXCEPT ![r] = "writing"]
  /\ lock' = [lock EXCEPT ![req[r].panel] = Free]
  /\ UNCHANGED <<req, answer, table, odd, history>>
ReadAndWriteCached(r) ==
  /\ pc[r] = "locked"
  /\ table # Cut
  /\ table[req[r].client] # Absent
  /\ next' = [next EXCEPT ![r][req[r].client] = req[r].name]
  /\ job' = [job EXCEPT ![r] = "streaming"]
  /\ pc' = [pc EXCEPT ![r] = "writing"]
  /\ UNCHANGED <<req, answer, lock, table, odd, history>>

(* ReadFile, RenameClientInClientsTable, and the start of WriteFileAtomic. *)
ReadAndWrite(r) ==
  /\ pc[r] = "locked"
  /\ table # Cut
  /\ table[req[r].client] # Absent
  /\ next' = [next EXCEPT ![r] = [table EXCEPT ![req[r].client] = req[r].name]]
  /\ job' = [job EXCEPT ![r] = "streaming"]
  /\ pc' = [pc EXCEPT ![r] = "writing"]
  /\ UNCHANGED <<req, answer, lock, table, odd, history>>

(* Mutant: the write is started but not waited for. *)
WriteNotAwaited(r) ==
  /\ pc[r] = "writing"
  /\ pc' = [pc EXCEPT ![r] = "verifying"]
  /\ UNCHANGED <<req, answer, lock, files, history>>

(* The ssh process of the write exits with the status of the job, which a  *)
(* lost connection cannot bring.                                           *)
WriteReturns(r) ==
  /\ pc[r] = "writing"
  /\ r \notin orphans
  /\ \/ /\ job[r] = "moved"
        /\ pc' = [pc EXCEPT ![r] = "verifying"]
        /\ UNCHANGED <<answer, lock>>
     \/ /\ job[r] = "failed"
        /\ Finish(r, "error")
  /\ UNCHANGED <<req, files, history>>

Verified(r) == table # Cut /\ ~odd /\ table[req[r].client] = req[r].name

VerifyOk(r) ==
  /\ pc[r] = "verifying"
  /\ Verified(r)
  /\ Finish(r, "ok")
  /\ UNCHANGED <<req, files, history>>

(* ErrVerificationFailed, or the second read failed. *)
VerifyFails(r) ==
  /\ pc[r] = "verifying"
  /\ Finish(r, "error")
  /\ UNCHANGED <<req, files, history>>

(* The other end of the connection goes away during the write: sshd was    *)
(* ended, or the network dropped the connection there.  The request does   *)
(* not notice until the keepalive gives up, ServerAliveCountMax times      *)
(* ServerAliveInterval later.                                              *)
RemoteEndLost(r) ==
  /\ pc[r] = "writing"
  /\ job[r] \in Live
  /\ r \notin orphans
  /\ Fault
  /\ orphans' = orphans \union {r}
  /\ UNCHANGED <<req, pc, answer, lock, files, shared>>

(* The ssh client is killed, loses its connection or notices that it has   *)
(* none; the job, if there is one, goes on without it.                     *)
Disconnect(r) ==
  /\ pc[r] \in Active
  /\ IF r \in orphans THEN UNCHANGED faults ELSE Fault
  /\ Finish(r, "error")
  /\ orphans' = IF job[r] \in Live THEN orphans \union {r} ELSE orphans
  /\ UNCHANGED <<req, files, shared>>

-----------------------------------------------------------------------------
(* The remote job, and whatever else happens to the table.                 *)

(* cat has read all of the data. *)
JobReceives(r) ==
  /\ job[r] = "streaming"
  /\ job' = [job EXCEPT ![r] = "received"]
  /\ UNCHANGED <<req, pc, answer, lock, next, table, odd, history>>

(* cat reads an early end of file, because its end of the connection is    *)
(* gone.                                                                   *)
JobIsCut(r) ==
  /\ job[r] = "streaming"
  /\ r \in orphans
  /\ job' = [job EXCEPT ![r] = "cut"]
  /\ UNCHANGED <<req, pc, answer, lock, next, table, odd, history>>

(* mv: the new file replaces the old one in one step. *)
JobMoves(r) ==
  /\ job[r] \in {"received", "cut"}
  /\ table' = IF job[r] = "cut" THEN Cut ELSE next[r]
  /\ job' = [job EXCEPT ![r] = "moved"]
  /\ UNCHANGED <<req, pc, answer, lock, next, odd, history>>

(* The container stops, or its disk is full: set -e ends the script. *)
JobFails(r) ==
  /\ job[r] \in Live
  /\ job' = [job EXCEPT ![r] = "failed"]
  /\ UNCHANGED <<req, pc, answer, lock, next, table, odd, history>>

(* AmneziaVPN rewrites the table: it adds, removes or renames clients. *)
EditExternally(t, o) ==
  /\ Fault
  /\ table' = t
  /\ odd' = o
  /\ shared' = TRUE
  /\ UNCHANGED <<req, pc, answer, lock, next, job, orphans>>

(* The panel's container stops with everything it has in flight. *)
PanelCrash(p) ==
  LET lostNow == {r \in Requests : req[r].panel = p /\ pc[r] \in Active}
  IN /\ Fault
     /\ pc' = [r \in Requests |-> IF r \in lostNow THEN "done" ELSE pc[r]]
     /\ answer' = [r \in Requests |-> IF r \in lostNow THEN "error" ELSE answer[r]]
     /\ lock' = [lock EXCEPT ![p] = Free]
     /\ orphans' = orphans \union {r \in lostNow : job[r] \in Live}
     /\ UNCHANGED <<req, files, shared>>

-----------------------------------------------------------------------------
RequestStep(r) ==
  \/ Begin(r) \/ Refuse(r) \/ GiveUp(r) \/ ReadUseless(r)
  \/ ReadAndWrite(r) \/ WriteReturns(r) \/ VerifyOk(r) \/ VerifyFails(r)

JobStep(r) == JobReceives(r) \/ JobIsCut(r) \/ JobMoves(r) \/ JobFails(r)

Next ==
  \/ \E r \in Requests :
       RequestStep(r) \/ JobStep(r) \/ RemoteEndLost(r) \/ Disconnect(r)
  \/ \E t \in Tables, o \in BOOLEAN : EditExternally(t, o)
  \/ \E p \in Panels : PanelCrash(p)

Spec == Init /\ [][Next]_vars

-----------------------------------------------------------------------------
(* Properties.                                                             *)

(* TYPE INVARIANT.  Every variable has its type, and a request is done     *)
(* exactly when it has its answer (service.go:37-103, admin.go:23-65).     *)
TypeOK ==
  /\ req \in [Requests -> [panel : Panels, client : Clients, name : Names]]
  /\ pc \in [Requests -> {"idle", "done"} \union Active]
  /\ answer \in [Requests -> {"none", "ok", "conflict", "error"}]
  /\ \A r \in Requests : pc[r] = "done" <=> answer[r] # "none"
  /\ lock \in [Panels -> Requests \union {Free}]
  /\ next \in [Requests -> Tables]
  /\ job \in [Requests -> {"none", "moved", "failed"} \union Live]
  /\ table \in Tables \union {Cut}
  /\ odd \in BOOLEAN
  /\ orphans \in SUBSET Requests
  /\ shared \in BOOLEAN
  /\ faults \in Nat

(* THE LOCK IS HELD BY WHO WORKS.  A request at work holds the lock of its *)
(* panel, so two never work at once, and a lock that is taken belongs to a *)
(* request at work, so no error path, lost connection or verification      *)
(* failure leaves it taken for ever (lock.go:10-26, service.go:42-49).     *)
LockDiscipline ==
  /\ \A r \in Requests : pc[r] \in Active => Holds(r)
  /\ \A p \in Panels : lock[p] # Free =>
       pc[lock[p]] \in Active /\ req[lock[p]].panel = p

(* WHAT IS BEING WRITTEN IS THE PRESENT TABLE WITH ONE NEW NAME.  No       *)
(* rename can take back another one that happened since it read the table, *)
(* while the panel is the only writer and no connection was lost during a  *)
(* write (service.go:46-82).                                               *)
Undisturbed == orphans = {} /\ ~shared

Fresh(r) ==
  /\ pc[r] = "writing"
  /\ table # Cut
  /\ table[req[r].client] # Absent
  /\ next[r] = [table EXCEPT ![req[r].client] = req[r].name]

WriteIsFresh ==
  Undisturbed => \A r \in Requests : job[r] \in Live => Fresh(r)

(* AN ANSWER SETTLES THE REQUEST.  Once a request is answered its job      *)
(* writes nothing more, except for a request whose connection was lost     *)
(* during the write; and the answer is honest: "ok" only if the job moved  *)
(* its table, "conflict" only if there never was a job                     *)
(* (service.go:46-48, 80-102, ssh_docker_files.go:58-74).                  *)
AnswerSettles ==
  \A r \in Requests :
    /\ answer[r] # "none" /\ r \notin orphans => job[r] \notin Live
    /\ answer[r] = "ok" => job[r] = "moved"
    /\ answer[r] = "conflict" => job[r] = "none"

(* RENAMING IMPLEMENTS THE REGISTER.  Each rename takes effect at the mv   *)
(* of its job, between its request and its answer, on its own client only: *)
(* with one panel and no faults for ever (ImplementsRegister), and through *)
(* crashes and lost connections for as long as no job lost touch with its  *)
(* request and nobody else wrote the table (RegisterWhileUndisturbed), a   *)
(* request that was cut off counting as answered with an error             *)
(* (service.go:37-103, ssh_docker_files.go:58-90).                         *)
Register == INSTANCE RenameRegister WITH
  target <- [r \in Requests |-> [client |-> req[r].client, name |-> req[r].name]],
  names <- table,
  applied <- {r \in Requests : job[r] = "moved"}
ImplementsRegister == Register!Spec
RegisterWhileUndisturbed ==
  /\ Register!Init
  /\ [][Undisturbed /\ Undisturbed' => [Register!Next]_Register!vars]_vars

=============================================================================
