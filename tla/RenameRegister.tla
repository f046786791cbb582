--------------------------- MODULE RenameRegister ---------------------------
(***************************************************************************)
(* What renaming clients through one panel promises: the clientsTable is a *)
(* register of names.  A rename takes effect at one moment between its     *)
(* request and its answer, changes the name of its client and nothing      *)
(* else, and an answer tells the truth: "ok" only after the rename took    *)
(* effect, "conflict" only if it never did or will.  An "error" leaves it  *)
(* open.                                                                   *)
(*                                                                         *)
(* RenameClient implements this module while the panel is the only writer  *)
(* and no connection is lost; see RenameClientProofs.                      *)
(***************************************************************************)
CONSTANTS
  Requests,   \* rename requests
  Clients,    \* clients of the VPN
  Names,      \* names of clients
  Absent      \* the name of a client the table does not list

VARIABLES
  target,     \* which client a request renames, and to what
  names,      \* the name of every client
  applied,    \* requests that took effect
  answer      \* what a request was told, "none" before it was answered

vars == <<target, names, applied, answer>>

Init ==
  /\ target \in [Requests -> [client : Clients, name : Names]]
  /\ names \in [Clients -> Names \union {Absent}]
  /\ applied = {}
  /\ answer = [r \in Requests |-> "none"]

Apply(r) ==
  /\ answer[r] = "none"
  /\ r \notin applied
  /\ names[target[r].client] # Absent
  /\ names' = [names EXCEPT ![target[r].client] = target[r].name]
  /\ applied' = applied \union {r}
  /\ UNCHANGED <<target, answer>>

Answer(r, a) ==
  /\ answer[r] = "none"
  /\ a = "ok" => r \in applied /\ names[target[r].client] = target[r].name
  /\ a = "conflict" => r \notin applied
  /\ answer' = [answer EXCEPT ![r] = a]
  /\ UNCHANGED <<target, names, applied>>

Next ==
  \E r \in Requests :
    \/ Apply(r)
    \/ \E a \in {"ok", "conflict", "error"} : Answer(r, a)

Spec == Init /\ [][Next]_vars
=============================================================================
