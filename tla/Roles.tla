-------------------------------- MODULE Roles --------------------------------
(***************************************************************************)
(* UpdateUserRole and DeleteAccount: who is an administrator, and the rule *)
(* that somebody always is.  The rule is a count, so the code enforces it  *)
(* under row locks: SELECT ... WHERE role = 'admin' ORDER BY id FOR UPDATE *)
(* chooses its rows in the snapshot of the statement, waits for each in    *)
(* id order, and drops a row that no longer matches once it has waited.    *)
(***************************************************************************)
EXTENDS Integers, FiniteSets

CONSTANTS
  Users,       \* users ids: numbers, because locks are taken in id order
  Workers,     \* request handlers of the server, each serving one request at a time
  None,        \* no row, no request, no lock
  Founders,    \* the administrators a run starts with
  Promotable,  \* whom an administrator may promote in this run
  Demotable,   \* ... and demote
  Leaving      \* the users who may delete their account

ASSUME UsersAreIds == Users \subseteq Nat
ASSUME NoneIsNoWorker == None \notin Workers /\ None \notin Nat
ASSUME NoneIsNoRole == None \notin {"admin", "customer"}
ASSUME SomeFounder == Founders \subseteq Users /\ Founders # {}
ASSUME InputsAreUsers == Promotable \cup Demotable \cup Leaving \subseteq Users

VARIABLES
  role,    \* users.role, None once the row is deleted
  pc,      \* the statement a worker executes next
  job,     \* what its request asks for
  toLock,  \* rows its FOR UPDATE selected and has not reached yet
  admins,  \* the admins map: rows it locked that were still administrators
  lock     \* the worker holding each users row

vars == <<role, pc, job, toLock, admins, lock>>

Admins == {u \in Users : role[u] = "admin"}

Job == [kind : {"none", "promote", "demote", "delete"}, user : Users \cup {None}]
NoJob == [kind |-> "none", user |-> None]

Goto(w, label) == pc' = [pc EXCEPT ![w] = label]
Available(w, u) == lock[u] \in {None, w}

\* COMMIT or ROLLBACK
End(w) ==
  /\ Goto(w, "idle")
  /\ job' = [job EXCEPT ![w] = NoJob]
  /\ toLock' = [toLock EXCEPT ![w] = {}]
  /\ admins' = [admins EXCEPT ![w] = {}]
  /\ lock' = [u \in Users |-> IF lock[u] = w THEN None ELSE lock[u]]
Rollback(w) == End(w) /\ UNCHANGED role

-----------------------------------------------------------------------------
(* The two transactions.                                                   *)

Begin(w, kind, u, label) ==
  /\ pc[w] = "idle"
  /\ Goto(w, label)
  /\ job' = [job EXCEPT ![w] = [kind |-> kind, user |-> u]]
  /\ UNCHANGED <<role, toLock, admins, lock>>

\* requireAdmin has found an administrator behind the request
Promote(w, u) == Admins # {} /\ u \in Promotable /\ Begin(w, "promote", u, "lock_target")
Demote(w, u) == Admins # {} /\ u \in Demotable /\ Begin(w, "demote", u, "read_admins")
Delete(w, u) == role[u] # None /\ u \in Leaving /\ Begin(w, "delete", u, "read_role")

\* Mutant: a deletion is not counted like a demotion.
ReadRoleUncounted(w) ==
  /\ pc[w] = "read_role"
  /\ IF role[job[w].user] = None
     THEN Rollback(w)
     ELSE Goto(w, "lock_target") /\ UNCHANGED <<role, job, toLock, admins, lock>>

\* DeleteAccount reads its user's role without a lock, and goes through the
\* administrators' rows only when the role is admin.
ReadRole(w) ==
  /\ pc[w] = "read_role"
  /\ IF role[job[w].user] = None
     THEN Rollback(w)                                       \* ErrNotFound
     ELSE /\ Goto(w, IF role[job[w].user] = "admin" THEN "read_admins" ELSE "lock_target")
          /\ UNCHANGED <<role, job, toLock, admins, lock>>

ReadAdmins(w) ==
  /\ pc[w] = "read_admins"
  /\ toLock' = [toLock EXCEPT ![w] = Admins]
  /\ Goto(w, "lock_admins")
  /\ UNCHANGED <<role, job, admins, lock>>

\* Mutant: the row counts although it no longer matches after the wait.
LockAdminKeepsStale(w) ==
  /\ pc[w] = "lock_admins"
  /\ \E u \in toLock[w] :
       /\ \A x \in toLock[w] : u <= x
       /\ Available(w, u)
       /\ toLock' = [toLock EXCEPT ![w] = @ \ {u}]
       /\ admins' = [admins EXCEPT ![w] = @ \cup {u}]
       /\ lock' = [lock EXCEPT ![u] = IF role[u] = None THEN None ELSE w]
  /\ UNCHANGED <<role, pc, job>>

\* The next row in id order: waited for, locked unless it is gone, and counted
\* if it is still an administrator's.
LockAdmin(w) ==
  /\ pc[w] = "lock_admins"
  /\ \E u \in toLock[w] :
       /\ \A x \in toLock[w] : u <= x
       /\ Available(w, u)
       /\ toLock' = [toLock EXCEPT ![w] = @ \ {u}]
       /\ admins' = [admins EXCEPT ![w] = IF role[u] = "admin" THEN @ \cup {u} ELSE @]
       /\ lock' = [lock EXCEPT ![u] = IF role[u] = None THEN None ELSE w]
  /\ UNCHANGED <<role, pc, job>>

\* Mutants: the count is compared with 0 instead of 1 ...
CountAdminsToZero(w) ==
  /\ pc[w] = "lock_admins" /\ toLock[w] = {}
  /\ IF admins[w] = {}
     THEN Rollback(w)
     ELSE Goto(w, "lock_target") /\ UNCHANGED <<role, job, toLock, admins, lock>>

\* ... or the refusal returns without the deferred Rollback.
CountAdminsLeavesOpen(w) ==
  /\ pc[w] = "lock_admins" /\ toLock[w] = {}
  /\ IF admins[w] = {job[w].user}
     THEN Goto(w, "idle") /\ UNCHANGED <<role, job, toLock, admins, lock>>
     ELSE Goto(w, "lock_target") /\ UNCHANGED <<role, job, toLock, admins, lock>>

\* admins[userID] && len(admins) == 1
CountAdmins(w) ==
  /\ pc[w] = "lock_admins" /\ toLock[w] = {}
  /\ IF admins[w] = {job[w].user}
     THEN Rollback(w)                                       \* ErrLastAdmin
     ELSE Goto(w, "lock_target") /\ UNCHANGED <<role, job, toLock, admins, lock>>

\* The UPDATE or the DELETE reaches its row.  (The reviews, orders and newsletter
\* statements of DeleteAccount touch no users row.)
LockTarget(w) ==
  LET u == job[w].user IN
  /\ pc[w] = "lock_target"
  /\ Available(w, u)
  /\ IF role[u] = None
     THEN Rollback(w)                                       \* ErrNotFound
     ELSE /\ lock' = [lock EXCEPT ![u] = w]
          /\ Goto(w, "commit")
          /\ UNCHANGED <<role, job, toLock, admins>>

\* Mutant: the role written is not one ValidRole knows.
RoleAfterUnknown(kind) ==
  CASE kind = "promote" -> "admin" [] kind = "demote" -> "user" [] OTHER -> None

RoleAfter(kind) ==
  CASE kind = "promote" -> "admin" [] kind = "demote" -> "customer" [] OTHER -> None

Commit(w) ==
  /\ pc[w] = "commit"
  /\ role' = [role EXCEPT ![job[w].user] = RoleAfter(job[w].kind)]
  /\ End(w)

\* Connection lost or server stopping: the deferred Rollback.
Abort(w) == pc[w] # "idle" /\ Rollback(w)

-----------------------------------------------------------------------------
(* Waiting, and PostgreSQL's deadlock detector.                            *)

Wants(w) ==
  CASE pc[w] = "lock_admins" -> {u \in toLock[w] : \A x \in toLock[w] : u <= x}
    [] pc[w] = "lock_target" -> {job[w].user}
    [] OTHER -> {}
Deadlocked(S) ==
  S # {} /\ \A w \in S : \E u \in Wants(w) : lock[u] \in S \ {w}
BreakDeadlock(w) == (\E S \in SUBSET Workers : w \in S /\ Deadlocked(S)) /\ Rollback(w)

-----------------------------------------------------------------------------
(* The specification.                                                      *)

Init ==
  /\ role = [u \in Users |-> IF u \in Founders THEN "admin" ELSE "customer"]
  /\ pc = [w \in Workers |-> "idle"]
  /\ job = [w \in Workers |-> NoJob]
  /\ toLock = [w \in Workers |-> {}]
  /\ admins = [w \in Workers |-> {}]
  /\ lock = [u \in Users |-> None]

Arrive(w) == \E u \in Users : Promote(w, u) \/ Demote(w, u) \/ Delete(w, u)
Statement(w) ==
  \/ ReadRole(w) \/ ReadAdmins(w) \/ LockAdmin(w) \/ CountAdmins(w)
  \/ LockTarget(w) \/ Commit(w)
Next == \E w \in Workers : Arrive(w) \/ Statement(w) \/ Abort(w) \/ BreakDeadlock(w)

Spec == Init /\ [][Next]_vars

\* A waiter is granted the row it waits for each time the row is free again, in
\* the end (PostgreSQL queues the waiters of a row), and a deadlock is broken.
\* Nobody is obliged to send a request.
Fairness == \A w \in Workers : SF_vars(Statement(w)) /\ WF_vars(BreakDeadlock(w))
FairSpec == Spec /\ Fairness

-----------------------------------------------------------------------------
(* Properties.                                                             *)

RolesTypeOK ==
  /\ role \in [Users -> {"customer", "admin", None}]
  /\ pc \in [Workers -> {"idle", "read_role", "read_admins", "lock_admins", "lock_target", "commit"}]
  /\ job \in [Workers -> Job]
  /\ toLock \in [Workers -> SUBSET Users]
  /\ admins \in [Workers -> SUBSET Users]
  /\ lock \in [Users -> Workers \cup {None}]

\* The shop always has an administrator: there is no other way to make one.
SomeAdmin == Admins # {}

\* "The count below is post-wait truth": however many changes a decision waited
\* for, it counts nobody who has stopped being an administrator, and the only
\* ones it may miss are those promoted since its snapshot.
CountIsTruth ==
  \A w \in Workers : pc[w] = "lock_admins" /\ toLock[w] = {} =>
    admins[w] \subseteq Admins /\ Admins \ admins[w] \subseteq Promotable

\* Every request for a change of role or a deletion is answered, also behind
\* another one's locks and in a circle of them.
RoleRequestsEnd == \A w \in Workers : pc[w] # "idle" ~> pc[w] = "idle"
=============================================================================
