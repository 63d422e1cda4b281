--------------------------- MODULE AccountsProofs ---------------------------
(***************************************************************************)
(* Accounts and what depends on them, for any number of users, requests,   *)
(* reviews, links and slots.                                               *)
(*                                                                         *)
(* Roles: the rows a worker counted are locked by it, so they stay         *)
(* administrators until it ends; those it did not count were promoted      *)
(* since its snapshot.  A removal thus leaves somebody it has counted - as *)
(* long as nobody is promoted and removed at the same time, which is where *)
(* DeleteAccount's unlocked read of the role goes wrong.                   *)
(*                                                                         *)
(* Newsletter: a subscribe request never makes a row live that was not,    *)
(* and whatever makes one live is a press of "confirm".                    *)
(*                                                                         *)
(* Settings: what was sent before a form was opened is not listened to.    *)
(*                                                                         *)
(* Ratings: the composition takes no step the reviews alone would not, so  *)
(* what RatingsProofs says of those holds in it.                           *)
(***************************************************************************)
EXTENDS MCAccounts, FiniteSetTheorems, TLAPS

-----------------------------------------------------------------------------
(* Roles                                                                   *)

\* The rows a worker has counted are its own until it ends.
Counted(w) == \A u \in admins[w] : lock[u] = w /\ role[u] = "admin"

\* An administrator it neither counted nor has still to lock was promoted meanwhile.
Covered(w) ==
  pc[w] = "lock_admins" => Admins \subseteq toLock[w] \cup admins[w] \cup Promotable

\* The row a worker has written is its own until it commits.
Written(w) == pc[w] = "commit" => lock[job[w].user] = w

\* A request under way asks for what its form allows.
Removes(w) == job[w].kind \in {"demote", "delete"}
JobFits(w) ==
  pc[w] # "idle" =>
    \/ /\ job[w].kind = "promote" /\ job[w].user \in Promotable
       /\ pc[w] \in {"lock_target", "commit"}
    \/ Removes(w) /\ job[w].user \in Demotable \cup Leaving

LockingInv == \A w \in Workers : Counted(w) /\ Covered(w) /\ Written(w) /\ JobFits(w)
CountInv == RolesTypeOK /\ LockingInv

\* Nobody is promoted and removed in the same run.
PromotedStay == Promotable \cap (Demotable \cup Leaving) = {}

\* Beside the administrator a worker is about to remove there is another one,
\* whom nobody else can remove first.
Entitled(w) ==
  pc[w] \in {"lock_target", "commit"} /\ Removes(w) /\ job[w].user \in Admins =>
    \E a \in Admins : a # job[w].user /\ a \in admins[w] \cup Promotable
RoleInv == CountInv /\ SomeAdmin /\ \A w \in Workers : Entitled(w)

-----------------------------------------------------------------------------
(* What the steps have in common.                                          *)

\* COMMIT and ROLLBACK return the worker to where it was before the request.
LEMMA EndTypes ==
  ASSUME RolesTypeOK, NEW w \in Workers, End(w),
         role' \in [Users -> {"customer", "admin", None}]
  PROVE  RolesTypeOK'
<1>1. NoJob \in Job
  BY DEF NoJob, Job
<1>2. lock' \in [Users -> Workers \cup {None}]
  BY DEF RolesTypeOK, End
<1> QED
  BY <1>1, <1>2 DEF RolesTypeOK, End, Goto

\* Every step keeps the types.
LEMMA TypeStep == RolesTypeOK /\ [Next]_vars => RolesTypeOK'
<1> SUFFICES ASSUME RolesTypeOK, [Next]_vars PROVE RolesTypeOK'
  OBVIOUS
<1>1. CASE UNCHANGED vars
  BY <1>1 DEF vars, RolesTypeOK
<1>2. ASSUME NEW w \in Workers, Rollback(w) PROVE RolesTypeOK'
  BY <1>2, EndTypes DEF Rollback, RolesTypeOK
<1>3. ASSUME NEW w \in Workers, Arrive(w) PROVE RolesTypeOK'
  <2>1. PICK u \in Users, kind \in {"promote", "demote", "delete"},
             label \in {"lock_target", "read_admins", "read_role"} : Begin(w, kind, u, label)
    BY <1>3 DEF Arrive, Promote, Demote, Delete
  <2>2. [kind |-> kind, user |-> u] \in Job
    BY DEF Job
  <2> QED
    BY <2>1, <2>2 DEF RolesTypeOK, Begin, Goto
<1>4. ASSUME NEW w \in Workers, ReadRole(w) PROVE RolesTypeOK'
  BY <1>2, <1>4 DEF RolesTypeOK, ReadRole, Goto
<1>5. ASSUME NEW w \in Workers, ReadAdmins(w) PROVE RolesTypeOK'
  BY <1>5 DEF RolesTypeOK, ReadAdmins, Goto, Admins
<1>6. ASSUME NEW w \in Workers, LockAdmin(w) PROVE RolesTypeOK'
  BY <1>6 DEF RolesTypeOK, LockAdmin
<1>7. ASSUME NEW w \in Workers, CountAdmins(w) PROVE RolesTypeOK'
  BY <1>2, <1>7 DEF RolesTypeOK, CountAdmins, Goto
<1>8. ASSUME NEW w \in Workers, LockTarget(w) PROVE RolesTypeOK'
  BY <1>2, <1>8 DEF RolesTypeOK, LockTarget, Goto
<1>9. ASSUME NEW w \in Workers, Commit(w) PROVE RolesTypeOK'
  <2>1. role' \in [Users -> {"customer", "admin", None}]
    BY <1>9 DEF RolesTypeOK, Commit, RoleAfter
  <2> QED
    BY <1>9, <2>1, EndTypes DEF Commit
<1> QED
  BY <1>1, <1>2, <1>3, <1>4, <1>5, <1>6, <1>7, <1>8, <1>9
     DEF Next, Statement, Abort, BreakDeadlock

\* Roles, jobs and locks are well typed at all times.
THEOREM RolesTyping == Spec => []RolesTypeOK
<1>1. Init => RolesTypeOK
  BY DEF Init, RolesTypeOK, NoJob, Job
<1> QED
  BY <1>1, TypeStep, PTL DEF Spec

-----------------------------------------------------------------------------
(* The counts.                                                             *)

\* The three ways a worker moves.
WorkerStep(w) == Arrive(w) \/ Statement(w) \/ Rollback(w)

\* A step of one worker leaves the others where they were, with the rows they
\* hold unwritten and still held.
LEMMA OthersFrame ==
  ASSUME CountInv, NEW w \in Workers, WorkerStep(w), NEW v \in Workers \ {w}
  PROVE  /\ pc'[v] = pc[v] /\ job'[v] = job[v]
         /\ toLock'[v] = toLock[v] /\ admins'[v] = admins[v]
         /\ \A u \in Users : lock[u] = v => lock'[u] = v /\ role'[u] = role[u]
<1>1. CASE Arrive(w)
  BY <1>1 DEF Arrive, Promote, Demote, Delete, Begin, Goto, CountInv, RolesTypeOK
<1>2. ASSUME End(w)
      PROVE  /\ pc'[v] = pc[v] /\ job'[v] = job[v]
             /\ toLock'[v] = toLock[v] /\ admins'[v] = admins[v]
             /\ \A u \in Users : lock[u] = v => lock'[u] = v
  BY <1>2 DEF End, Goto, CountInv, RolesTypeOK
<1>3. CASE Rollback(w)
  BY <1>2, <1>3 DEF Rollback
<1>4. CASE ReadRole(w) \/ ReadAdmins(w) \/ CountAdmins(w)
  BY <1>3, <1>4 DEF ReadRole, ReadAdmins, CountAdmins, Goto, CountInv, RolesTypeOK
<1>5. CASE LockAdmin(w)
  BY <1>5, NoneIsNoWorker DEF LockAdmin, Available, CountInv, RolesTypeOK
<1>6. CASE LockTarget(w)
  BY <1>3, <1>6, NoneIsNoWorker DEF LockTarget, Available, Goto, CountInv, RolesTypeOK
<1>7. CASE Commit(w)
  <2>1. lock[job[w].user] = w
    BY <1>7 DEF Commit, CountInv, LockingInv, Written
  <2> QED
    BY <1>2, <1>7, <2>1 DEF Commit, CountInv, RolesTypeOK
<1> QED
  BY <1>1, <1>3, <1>4, <1>5, <1>6, <1>7 DEF WorkerStep, Statement

\* Only a commit writes a role, only its user's, and only a promotion makes an
\* administrator.
LEMMA RoleWrites ==
  ASSUME CountInv, NEW w \in Workers, WorkerStep(w)
  PROVE  /\ ~Commit(w) => role' = role
         /\ Commit(w) => /\ job[w].user \in Users
                         /\ \A u \in Users \ {job[w].user} : role'[u] = role[u]
                         /\ job[w].kind = "promote" => role'[job[w].user] = "admin"
                         /\ Removes(w) => role'[job[w].user] # "admin"
         /\ Admins' \subseteq Admins \cup Promotable
<1>1. CASE Commit(w)
  <2>1. JobFits(w) /\ pc[w] = "commit"
    BY <1>1 DEF Commit, CountInv, LockingInv
  <2>2. job[w].user \in Users
    BY <2>1, InputsAreUsers DEF JobFits
  <2>3. role' = [role EXCEPT ![job[w].user] = RoleAfter(job[w].kind)]
    BY <1>1 DEF Commit
  <2>4. job[w].kind = "promote" => RoleAfter(job[w].kind) = "admin"
    BY DEF RoleAfter
  <2>5. Removes(w) => RoleAfter(job[w].kind) # "admin"
    BY NoneIsNoRole DEF RoleAfter, Removes
  <2>6. role'[job[w].user] = RoleAfter(job[w].kind) /\ \A u \in Users \ {job[w].user} : role'[u] = role[u]
    BY <2>2, <2>3 DEF CountInv, RolesTypeOK
  <2> QED
    BY <1>1, <2>1, <2>2, <2>4, <2>5, <2>6 DEF Admins, JobFits
<1>2. CASE ~Commit(w)
  <2>1. role' = role
    BY <1>2 DEF WorkerStep, Arrive, Promote, Demote, Delete, Begin, Statement, Rollback,
                ReadRole, ReadAdmins, LockAdmin, CountAdmins, LockTarget
  <2> QED
    BY <1>2, <2>1 DEF Admins
<1> QED
  BY <1>1, <1>2

\* The worker that moves keeps its own part of the invariant.
LEMMA OwnCount ==
  ASSUME CountInv, NEW w \in Workers, WorkerStep(w)
  PROVE  (Counted(w) /\ Covered(w) /\ Written(w) /\ JobFits(w))'
<1>0. /\ Counted(w) /\ Covered(w) /\ Written(w) /\ JobFits(w)
      /\ admins[w] \subseteq Users /\ toLock[w] \subseteq Users
  BY DEF CountInv, LockingInv, RolesTypeOK
<1>1. CASE End(w)
  <2>1. pc'[w] = "idle" /\ admins'[w] = {}
    BY <1>1 DEF End, Goto, CountInv, RolesTypeOK
  <2> QED
    BY <2>1 DEF Counted, Covered, Written, JobFits
<1>2. CASE Arrive(w)
  <2>1. /\ pc'[w] \in {"read_admins", "read_role", "lock_target"}
        /\ admins'[w] = admins[w] /\ role' = role /\ lock' = lock
    BY <1>2 DEF Arrive, Promote, Demote, Delete, Begin, Goto, CountInv, RolesTypeOK
  <2>2. \/ job'[w].kind = "promote" /\ job'[w].user \in Promotable
           /\ pc'[w] = "lock_target"
        \/ job'[w].kind \in {"demote", "delete"} /\ job'[w].user \in Demotable \cup Leaving
    BY <1>2 DEF Arrive, Promote, Demote, Delete, Begin, Goto, CountInv, RolesTypeOK
  <2> QED
    BY <1>0, <2>1, <2>2 DEF Counted, Covered, Written, JobFits, Removes
<1>3. CASE ReadRole(w) /\ ~End(w)
  <2>1. /\ pc[w] = "read_role" /\ pc'[w] \in {"read_admins", "lock_target"}
        /\ role' = role /\ lock' = lock /\ job' = job /\ admins' = admins
    BY <1>3 DEF ReadRole, Rollback, Goto, CountInv, RolesTypeOK
  <2> QED
    BY <1>0, <2>1 DEF Counted, Covered, Written, JobFits, Removes
<1>4. CASE ReadAdmins(w)
  <2>1. /\ pc[w] = "read_admins" /\ pc'[w] = "lock_admins" /\ toLock'[w] = Admins
        /\ role' = role /\ lock' = lock /\ job' = job /\ admins' = admins
    BY <1>4 DEF ReadAdmins, Goto, CountInv, RolesTypeOK
  <2> QED
    BY <1>0, <2>1 DEF Counted, Covered, Written, JobFits, Removes, Admins
<1>5. CASE LockAdmin(w)
  <2>1. PICK u \in toLock[w] :
          /\ toLock'[w] = toLock[w] \ {u}
          /\ admins'[w] = IF role[u] = "admin" THEN admins[w] \cup {u} ELSE admins[w]
          /\ lock'[u] = IF role[u] = None THEN None ELSE w
          /\ \A x \in Users \ {u} : lock'[x] = lock[x]
    BY <1>0, <1>5 DEF LockAdmin, CountInv, RolesTypeOK
  <2>2. pc[w] = "lock_admins" /\ role' = role /\ pc' = pc /\ job' = job
    BY <1>5 DEF LockAdmin
  <2>3. Counted(w)'
    BY <1>0, <2>1, <2>2, NoneIsNoRole DEF Counted
  <2>4. Covered(w)'
    BY <1>0, <2>1, <2>2 DEF Covered, Admins
  <2> QED
    BY <1>0, <2>2, <2>3, <2>4 DEF Written, JobFits, Removes
<1>6. CASE CountAdmins(w) /\ ~End(w)
  <2>1. /\ pc[w] = "lock_admins" /\ pc'[w] = "lock_target"
        /\ role' = role /\ lock' = lock /\ job' = job /\ admins' = admins
    BY <1>6 DEF CountAdmins, Rollback, Goto, CountInv, RolesTypeOK
  <2> QED
    BY <1>0, <2>1 DEF Counted, Covered, Written, JobFits, Removes
<1>7. CASE LockTarget(w) /\ ~End(w)
  <2>1. /\ pc[w] = "lock_target" /\ job[w].user \in Users
    BY <1>0, <1>7, InputsAreUsers DEF LockTarget, JobFits
  <2>2. /\ pc'[w] = "commit" /\ lock'[job[w].user] = w
        /\ \A x \in Users : lock[x] = w => lock'[x] = w
        /\ role' = role /\ job' = job /\ admins' = admins
    BY <1>7, <2>1 DEF LockTarget, Rollback, Goto, CountInv, RolesTypeOK
  <2> QED
    BY <1>0, <2>1, <2>2 DEF Counted, Covered, Written, JobFits, Removes
<1> QED
  BY <1>1, <1>2, <1>3, <1>4, <1>5, <1>6, <1>7
     DEF WorkerStep, Statement, Rollback, Commit

\* A worker that did not move keeps its part: what it counted is in rows it holds.
LEMMA OthersCount ==
  ASSUME CountInv, NEW w \in Workers, WorkerStep(w), NEW v \in Workers \ {w}
  PROVE  (Counted(v) /\ Covered(v) /\ Written(v) /\ JobFits(v))'
<1>0. /\ Counted(v) /\ Covered(v) /\ Written(v) /\ JobFits(v)
      /\ admins[v] \subseteq Users
  BY DEF CountInv, LockingInv, RolesTypeOK
<1>1. /\ pc'[v] = pc[v] /\ job'[v] = job[v]
      /\ toLock'[v] = toLock[v] /\ admins'[v] = admins[v]
      /\ \A u \in Users : lock[u] = v => lock'[u] = v /\ role'[u] = role[u]
  BY OthersFrame
<1>2. Admins' \subseteq Admins \cup Promotable
  BY RoleWrites
<1>3. Counted(v)' /\ Covered(v)'
  BY <1>0, <1>1, <1>2 DEF Counted, Covered
<1>4. JobFits(v)'
  BY <1>0, <1>1 DEF JobFits, Removes
<1>5. Written(v)'
  BY <1>0, <1>1, InputsAreUsers DEF Written, JobFits
<1> QED
  BY <1>3, <1>4, <1>5

\* Every step keeps the counts.
LEMMA CountStep == CountInv /\ [Next]_vars => CountInv'
<1> SUFFICES ASSUME CountInv, [Next]_vars PROVE CountInv'
  OBVIOUS
<1>1. RolesTypeOK'
  BY TypeStep DEF CountInv
<1>2. CASE UNCHANGED vars
  BY <1>1, <1>2 DEF vars, CountInv, LockingInv, Counted, Covered, Written, JobFits, Removes, Admins
<1>3. ASSUME NEW w \in Workers, WorkerStep(w) PROVE CountInv'
  BY <1>1, <1>3, OwnCount, OthersCount DEF CountInv, LockingInv
<1> QED
  BY <1>2, <1>3 DEF Next, WorkerStep, Abort, BreakDeadlock

\* The counts hold from the start.
LEMMA CountInit == Init => CountInv
<1>1. Init => RolesTypeOK
  BY DEF Init, RolesTypeOK, NoJob, Job
<1>2. Init => LockingInv
  BY DEF Init, LockingInv, Counted, Covered, Written, JobFits
<1> QED
  BY <1>1, <1>2 DEF CountInv

\* However many changes of role a decision waited for, it is taken on the
\* administrators there are, but for those promoted since its snapshot
\* (UpdateUserRole: "the count below is post-wait truth").
THEOREM CountsAreTrue == Spec => []CountIsTruth
<1>1. CountInv => CountIsTruth
  BY DEF CountInv, LockingInv, Counted, Covered, CountIsTruth, RolesTypeOK, Admins
<1> QED
  BY <1>1, CountInit, CountStep, PTL DEF Spec

-----------------------------------------------------------------------------
(* The last administrator.                                                 *)

\* A promoted administrator is nobody's target.
LEMMA PromotedNotTargets ==
  ASSUME CountInv, PromotedStay, NEW w \in Workers, pc[w] # "idle", Removes(w)
  PROVE  job[w].user \notin Promotable
<1>1. JobFits(w)
  BY DEF CountInv, LockingInv
<1> QED
  BY <1>1 DEF JobFits, PromotedStay, Removes

\* A worker reaches its write with another administrator counted.
LEMMA OwnEntitled ==
  ASSUME RoleInv, PromotedStay, NEW w \in Workers, WorkerStep(w)
  PROVE  Entitled(w)'
<1>0. /\ Counted(w) /\ Covered(w) /\ JobFits(w) /\ Entitled(w)
      /\ admins[w] \subseteq Users /\ toLock[w] \subseteq Users /\ CountInv
  BY DEF RoleInv, CountInv, LockingInv, RolesTypeOK
<1>1. CASE End(w)
  BY <1>0, <1>1 DEF End, Goto, Entitled, CountInv, RolesTypeOK
<1>2. CASE Arrive(w)
  <2>1. pc'[w] = "lock_target" => job'[w].kind = "promote"
    BY <1>0, <1>2 DEF Arrive, Promote, Demote, Delete, Begin, Goto, CountInv, RolesTypeOK
  <2>2. pc'[w] # "commit"
    BY <1>0, <1>2 DEF Arrive, Promote, Demote, Delete, Begin, Goto, CountInv, RolesTypeOK
  <2> QED
    BY <2>1, <2>2 DEF Entitled, Removes
<1>3. CASE ReadRole(w) /\ ~End(w)
  <2>1. /\ pc'[w] = IF role[job[w].user] = "admin" THEN "read_admins" ELSE "lock_target"
        /\ role' = role /\ job' = job
    BY <1>0, <1>3 DEF ReadRole, Rollback, Goto, CountInv, RolesTypeOK
  <2> QED
    BY <2>1 DEF Entitled, Admins
<1>4. CASE ReadAdmins(w) \/ LockAdmin(w)
  <2>1. pc'[w] = "lock_admins"
    BY <1>0, <1>4 DEF ReadAdmins, LockAdmin, Goto, CountInv, RolesTypeOK
  <2> QED
    BY <2>1 DEF Entitled
<1>5. CASE CountAdmins(w) /\ ~End(w)
  <2>1. /\ pc[w] = "lock_admins" /\ toLock[w] = {} /\ admins[w] # {job[w].user}
        /\ role' = role /\ job' = job /\ admins' = admins
    BY <1>5 DEF CountAdmins, Rollback
  <2> SUFFICES ASSUME Removes(w), job[w].user \in Admins
               PROVE  \E a \in Admins : a # job[w].user /\ a \in admins[w]
    BY <2>1 DEF Entitled, Removes, Admins
  <2>2. job[w].user \in admins[w]
    BY <1>0, <2>1, PromotedNotTargets DEF Covered
  <2> QED
    BY <1>0, <2>1, <2>2 DEF Counted, Admins
<1>6. CASE LockTarget(w) /\ ~End(w)
  <2>1. pc[w] = "lock_target" /\ role' = role /\ job' = job /\ admins' = admins
    BY <1>6 DEF LockTarget, Rollback
  <2> QED
    BY <1>0, <2>1 DEF Entitled, Removes, Admins
<1> QED
  BY <1>1, <1>2, <1>3, <1>4, <1>5, <1>6 DEF WorkerStep, Statement, Rollback, Commit

\* Whom the others rely on stays: counted, in a row they hold, or promoted.
LEMMA OthersEntitled ==
  ASSUME RoleInv, PromotedStay, NEW w \in Workers, WorkerStep(w), NEW v \in Workers \ {w}
  PROVE  Entitled(v)'
<1>0. /\ Counted(v) /\ Entitled(v) /\ CountInv
  BY DEF RoleInv, CountInv, LockingInv
<1>1. /\ pc'[v] = pc[v] /\ job'[v] = job[v] /\ admins'[v] = admins[v]
      /\ \A u \in Users : lock[u] = v => role'[u] = role[u]
  BY <1>0, OthersFrame
<1> SUFFICES ASSUME pc[v] \in {"lock_target", "commit"}, Removes(v), job[v].user \in Admins'
             PROVE  \E a \in Admins' : a # job[v].user /\ a \in admins[v] \cup Promotable
  BY <1>1 DEF Entitled, Removes
<1>2. job[v].user \in Admins
  BY <1>0, PromotedNotTargets, RoleWrites
<1>3. PICK a \in Admins : a # job[v].user /\ a \in admins[v] \cup Promotable
  BY <1>0, <1>2 DEF Entitled
<1>4. CASE a \in admins[v]
  BY <1>0, <1>1, <1>3, <1>4 DEF Counted, Admins
<1>5. CASE a \in Promotable
  <2>1. ~(Commit(w) /\ Removes(w) /\ job[w].user = a)
    BY <1>0, <1>5, PromotedNotTargets DEF Commit
  <2>2. Commit(w) => job[w].kind = "promote" \/ Removes(w)
    BY <1>0 DEF Commit, CountInv, LockingInv, JobFits
  <2>3. role'[a] = "admin"
    BY <1>0, <1>3, <2>1, <2>2, RoleWrites DEF Admins
  <2> QED
    BY <1>3, <1>5, <2>3 DEF Admins
<1> QED
  BY <1>3, <1>4, <1>5

\* The commit that takes an administrator away leaves another one.
LEMMA OneRemains ==
  ASSUME RoleInv, NEW w \in Workers, WorkerStep(w)
  PROVE  SomeAdmin'
<1>0. CountInv /\ SomeAdmin /\ Entitled(w) /\ JobFits(w)
  BY DEF RoleInv, CountInv, LockingInv
<1>1. CASE ~Commit(w)
  BY <1>0, <1>1, RoleWrites DEF SomeAdmin, Admins
<1>2. CASE Commit(w) /\ job[w].kind = "promote"
  BY <1>0, <1>2, RoleWrites DEF SomeAdmin, Admins
<1>3. CASE Commit(w) /\ Removes(w)
  <2>1. \E a \in Admins : a # job[w].user
    BY <1>0, <1>3 DEF Commit, Entitled, SomeAdmin
  <2> QED
    BY <1>0, <1>3, <2>1, RoleWrites DEF SomeAdmin, Admins
<1> QED
  BY <1>0, <1>1, <1>2, <1>3 DEF Commit, JobFits

\* Every step keeps the invariant.
LEMMA RoleStep == PromotedStay /\ RoleInv /\ [Next]_vars => RoleInv'
<1> SUFFICES ASSUME PromotedStay, RoleInv, [Next]_vars PROVE RoleInv'
  OBVIOUS
<1>1. CountInv'
  BY CountStep DEF RoleInv
<1>2. CASE UNCHANGED vars
  BY <1>1, <1>2 DEF vars, RoleInv, Entitled, Removes, SomeAdmin, Admins
<1>3. ASSUME NEW w \in Workers, WorkerStep(w) PROVE RoleInv'
  BY <1>1, <1>3, OwnEntitled, OthersEntitled, OneRemains DEF RoleInv
<1> QED
  BY <1>2, <1>3 DEF Next, WorkerStep, Abort, BreakDeadlock

\* However many promotions, demotions and deletions race, the shop keeps an
\* administrator (UpdateUserRole: "the second of two racing demotions waits,
\* re-reads a world with one admin left, and is refused"), unless somebody is
\* promoted and removed at once.
THEOREM LastAdminStays == ASSUME PromotedStay PROVE Spec => []SomeAdmin
<1>1. Init => RoleInv
  <2>1. Init => SomeAdmin /\ \A w \in Workers : Entitled(w)
    BY SomeFounder DEF Init, Entitled, SomeAdmin, Admins
  <2> QED
    BY <2>1, CountInit DEF RoleInv
<1>2. RoleInv /\ [Next]_vars => RoleInv'
  BY RoleStep
<1>3. RoleInv => SomeAdmin
  BY DEF RoleInv
<1> QED
  BY <1>1, <1>2, <1>3, PTL DEF Spec

-----------------------------------------------------------------------------
(* Newsletter                                                              *)

Subscriber == [token : Nat, confirmed : BOOLEAN, left : BOOLEAN]
ConsentInv == row \in Subscriber /\ fresh \in Nat /\ consented \in BOOLEAN /\ LiveByConsent

\* An upsert keeps a live row as it is, and no other becomes live by it (SubscribeNewsletter).
LEMMA UpsertKeepsLife ==
  ASSUME NEW r \in Subscriber, NEW t \in Nat
  PROVE  Upsert(r, t) \in Subscriber /\ (Live(Upsert(r, t)) <=> Live(r))
BY DEF Upsert, Live, Subscriber

\* Every step of the newsletter keeps ConsentInv.
LEMMA ConsentStep == ConsentInv /\ [NewsNext]_newsVars => ConsentInv'
<1> SUFFICES ASSUME ConsentInv, [NewsNext]_newsVars PROVE ConsentInv'
  OBVIOUS
<1>1. CASE UNCHANGED <<row, fresh, consented>>
  BY <1>1 DEF ConsentInv, LiveByConsent, Live
<1>2. ASSUME NEW p \in Posts, Subscribe(p) PROVE ConsentInv'
  <2>1. fresh' \in Nat /\ row' = Upsert(row, fresh') /\ consented' = consented
    BY <1>2 DEF Subscribe, ConsentInv
  <2> QED BY <2>1, UpsertKeepsLife DEF ConsentInv, LiveByConsent
<1>3. ASSUME NEW p \in Posts, Confirm(p) PROVE ConsentInv'
  BY <1>3 DEF Confirm, ConsentInv, Subscriber, LiveByConsent, Live
<1>4. ASSUME NEW p \in Posts, Leave(p) PROVE ConsentInv'
  BY <1>4 DEF Leave, ConsentInv, Subscriber, LiveByConsent, Live
<1>5. ASSUME NEW p \in Posts, Mail(p) \/ Reject(p) \/ Answered(p) PROVE ConsentInv'
  BY <1>5, <1>1 DEF Mail, Reject, Answered
<1>6. ASSUME NEW t \in Tokens, PressConfirm(t) \/ PressUnsubscribe(t) PROVE ConsentInv'
  BY <1>6, <1>1 DEF PressConfirm, PressUnsubscribe
<1>7. CASE SubmitFooter \/ EditFooter \/ FlipSwitch
  BY <1>7, <1>1 DEF SubmitFooter, EditFooter, FlipSwitch
<1>8. CASE UNCHANGED newsVars
  BY <1>8, <1>1 DEF newsVars
<1> QED BY <1>2, <1>3, <1>4, <1>5, <1>6, <1>7, <1>8 DEF NewsNext

\* However subscribe requests, old and new links and the settings switch cross, the address
\* is mailed only while its last accepted press was "confirm" (double opt-in).
THEOREM ConsentHolds == NewsSpec => []LiveByConsent
<1>1. NewsInit => ConsentInv
  <2> SUFFICES ASSUME NewsInit PROVE ConsentInv
    OBVIOUS
  <2>1. row = NoRow /\ fresh = 0 /\ consented = FALSE
    BY DEF NewsInit
  <2>2. NoRow \in Subscriber /\ ~Live(NoRow)
    BY DEF NoRow, Subscriber, Live
  <2> QED BY <2>1, <2>2 DEF ConsentInv, LiveByConsent
<1>2. ConsentInv => LiveByConsent
  BY DEF ConsentInv
<1> QED BY <1>1, <1>2, ConsentStep, PTL DEF NewsSpec

-----------------------------------------------------------------------------
(* Ratings                                                                 *)

RP == INSTANCE RatingsProofs WITH
        pc <- reviewPc, job <- reviewJob, lock <- reviewLock, Leaving <- OneOf(Customers)

\* The two names of the aggregate are one.
LEMMA SameSummary == \A rv, p : RP!Summary(rv, p) = Reviews!Summary(rv, p)
BY DEF RP!Summary, Reviews!Summary, RP!Keys, Reviews!Keys, RP!Cardinality, Reviews!Cardinality,
       RP!SumOver, Reviews!SumOver, RP!MapThenSumSet, Reviews!MapThenSumSet,
       RP!MapThenFoldSet, Reviews!MapThenFoldSet

\* The two names of the reviews' steps are one.
LEMMA SameReviews == RP!Next <=> Reviews!Next
<1>1. ASSUME NEW w PROVE RP!Rollback(w) <=> Reviews!Rollback(w)
  BY DEF RP!Rollback, Reviews!Rollback, RP!End, Reviews!End, RP!Goto, Reviews!Goto, RP!NoJob,
         Reviews!NoJob, RP!Keys, Reviews!Keys, RP!rows, Reviews!rows
<1>2. ASSUME NEW w PROVE RP!Arrive(w) <=> Reviews!Arrive(w)
  BY DEF RP!Arrive, Reviews!Arrive, RP!Submit, Reviews!Submit, RP!Moderate, Reviews!Moderate,
         RP!Leave, Reviews!Leave, RP!Begin, Reviews!Begin, RP!Goto, Reviews!Goto, RP!rows,
         Reviews!rows, RP!Keys, Reviews!Keys, RP!Statuses, Reviews!Statuses
<1>3. ASSUME NEW w
      PROVE  /\ RP!CheckPurchase(w) <=> Reviews!CheckPurchase(w)
             /\ RP!Insert(w) <=> Reviews!Insert(w)
             /\ RP!Update(w) <=> Reviews!Update(w)
  BY <1>1 DEF RP!CheckPurchase, Reviews!CheckPurchase, RP!Insert, Reviews!Insert, RP!Update,
         Reviews!Update, RP!Goto, Reviews!Goto, RP!rows, Reviews!rows, RP!Key, Reviews!Key,
         RP!Available, Reviews!Available, RP!Deleting, Reviews!Deleting
<1>4. ASSUME NEW w PROVE RP!Recompute(w) <=> Reviews!Recompute(w)
  BY SameSummary DEF RP!Recompute, Reviews!Recompute, RP!Goto, Reviews!Goto, RP!rows, Reviews!rows,
         RP!Key, Reviews!Key
<1>5. ASSUME NEW w
      PROVE  /\ RP!LockProduct(w) <=> Reviews!LockProduct(w)
             /\ RP!CommitReview(w) <=> Reviews!CommitReview(w)
  BY DEF RP!LockProduct, Reviews!LockProduct, RP!CommitReview, Reviews!CommitReview,
         RP!Available, Reviews!Available, RP!Goto, Reviews!Goto, RP!End, Reviews!End,
         RP!rows, Reviews!rows, RP!Key, Reviews!Key, RP!NoJob, Reviews!NoJob, RP!Keys,
         Reviews!Keys
<1>6. ASSUME NEW w
      PROVE  /\ RP!SelectReviews(w) <=> Reviews!SelectReviews(w)
             /\ RP!DeleteReview(w) <=> Reviews!DeleteReview(w)
             /\ RP!DeleteUser(w) <=> Reviews!DeleteUser(w)
             /\ RP!CommitLeave(w) <=> Reviews!CommitLeave(w)
  BY <1>1 DEF RP!SelectReviews, Reviews!SelectReviews, RP!DeleteReview, Reviews!DeleteReview,
         RP!DeleteUser, Reviews!DeleteUser, RP!CommitLeave, Reviews!CommitLeave, RP!Goto,
         Reviews!Goto, RP!End, Reviews!End, RP!rows, Reviews!rows, RP!NoJob, Reviews!NoJob,
         RP!Keys, Reviews!Keys, RP!KeysOf, Reviews!KeysOf, RP!Held, Reviews!Held,
         RP!Available, Reviews!Available, RP!Referencing, Reviews!Referencing, RP!Deleting,
         Reviews!Deleting
<1>7. ASSUME NEW k PROVE RP!Deliver(k) <=> Reviews!Deliver(k)
  BY DEF RP!Deliver, Reviews!Deliver, RP!Deleting, Reviews!Deleting
<1> QED
  BY <1>1, <1>2, <1>3, <1>4, <1>5, <1>6, <1>7
  DEF RP!Next, Reviews!Next, RP!Statement, Reviews!Statement, RP!Abort, Reviews!Abort,
      RP!Keys, Reviews!Keys

\* The open part steps, the others wait: the reviews take a step of theirs or none.
LEMMA ReviewsStep == [AccountsNext]_accountsVars => [RP!Next]_(RP!vars)
<1> SUFFICES ASSUME [AccountsNext]_accountsVars, ~RP!Next PROVE UNCHANGED reviewing
  BY DEF reviewing, RP!vars
<1> QED
  BY SameReviews DEF AccountsNext, accountsVars, vars, reviewing, setting, searching, newsVars

\* Every review in the composition is a verified purchase of somebody the shop still knows
\* (CreateReview, DeleteAccount).
THEOREM ReviewsStayVerified == AccountsSpec => []ReviewsAreVerified
<1>1. AccountsInit => RP!Init
  BY DEF AccountsInit, Reviews!Init, RP!Init, Reviews!NoJob, RP!NoJob, Reviews!Keys, RP!Keys
<1>2. RP!NoneIsNoWorker
  BY NoneIsNoWorker DEF RP!NoneIsNoWorker
<1>3. RP!Spec => []RP!ReviewsAreVerified
  BY <1>2, RP!VerifiedPurchases
<1>4. RP!ReviewsAreVerified => ReviewsAreVerified
  BY DEF RP!ReviewsAreVerified, ReviewsAreVerified, Reviews!ReviewsAreVerified, RP!Keys,
         Reviews!Keys
<1> QED
  BY <1>1, <1>3, <1>4, ReviewsStep, PTL DEF AccountsSpec, RP!Spec

\* In the composition too, a product's stars are those of its review while it has one at most,
\* as long as nobody has left (recomputeRating).
THEOREM LoneStarsStay == AccountsSpec => []RatingMatchesLoneReview
<1>1. AccountsInit => RP!Init
  BY DEF AccountsInit, Reviews!Init, RP!Init, Reviews!NoJob, RP!NoJob, Reviews!Keys, RP!Keys
<1>2. RP!NoneIsNoWorker
  BY NoneIsNoWorker DEF RP!NoneIsNoWorker
<1>3. RP!ReviewTables
  <2>1. IsFiniteSet(RP!Keys)
    BY ReviewTables, FS_Product DEF RP!Keys
  <2>2. None \notin RP!Review
    BY NoneIsNoReview DEF RP!Review, RP!Statuses, Reviews!Review, Reviews!Statuses
  <2> QED
    BY <2>1, <2>2, ReviewTables DEF RP!ReviewTables, IsFiniteSet, RP!IsFiniteSet
<1>4. RP!Spec => []RP!RatingMatchesLoneReview
  BY <1>2, <1>3, RP!LoneStars
<1>5. RP!RatingMatchesLoneReview => RatingMatchesLoneReview
  BY SameSummary
  DEF RP!RatingMatchesLoneReview, RatingMatchesLoneReview, Reviews!RatingMatchesLoneReview,
      RP!Keys, Reviews!Keys, RP!Aggregate, Reviews!Aggregate, RP!Cardinality, Reviews!Cardinality
<1> QED
  BY <1>1, <1>4, <1>5, ReviewsStep, PTL DEF AccountsSpec, RP!Spec

-----------------------------------------------------------------------------
(* Settings                                                                *)

\* What was sent before its form was opened again is not listened to any more.
FormRequest == [kind : {"edit", "password"}, heard : BOOLEAN, old : BOOLEAN]
Unlistened(s) == forms[s] # Page!Free => (forms[s].old => ~forms[s].heard)
FormsInv ==
  /\ mode \in {"view", "edit", "password"}
  /\ forms \in [Slots -> FormRequest \cup {Page!Free}]
  /\ \A s \in Slots : Unlistened(s)

\* A free slot is told from a request under way.
LEMMA FreeIsNoRequest == Page!Free \notin FormRequest
<1> SUFFICES ASSUME Page!Free \in FormRequest PROVE FALSE
  OBVIOUS
<1>1. Page!Free.kind \in {"edit", "password"}
  BY DEF FormRequest
<1> QED
  BY <1>1 DEF Page!Free

\* Requests that are told not to listen any more keep FormsInv, whatever else becomes of them.
LEMMA ResetStep ==
  ASSUME FormsInv, NEW kind \in {"edit", "password"}
  PROVE  /\ Page!Reset(kind) \in [Slots -> FormRequest \cup {Page!Free}]
         /\ Page!Deaf(kind) \in [Slots -> FormRequest \cup {Page!Free}]
         /\ \A s \in Slots :
              /\ Page!Reset(kind)[s] # Page!Free =>
                   (Page!Reset(kind)[s].old => ~Page!Reset(kind)[s].heard)
              /\ Page!Deaf(kind)[s] # Page!Free =>
                   (Page!Deaf(kind)[s].old => ~Page!Deaf(kind)[s].heard)
<1>1. ASSUME NEW f \in FormRequest
      PROVE  /\ [f EXCEPT !.heard = FALSE] \in FormRequest
             /\ [f EXCEPT !.heard = FALSE].heard = FALSE
             /\ [f EXCEPT !.heard = FALSE, !.old = TRUE] \in FormRequest
             /\ [f EXCEPT !.heard = FALSE, !.old = TRUE].heard = FALSE
  BY DEF FormRequest
<1>2. ASSUME NEW s \in Slots
      PROVE  /\ Page!Reset(kind)[s] \in FormRequest \cup {Page!Free}
             /\ Page!Deaf(kind)[s] \in FormRequest \cup {Page!Free}
             /\ Page!Reset(kind)[s] # Page!Free =>
                  (Page!Reset(kind)[s].old => ~Page!Reset(kind)[s].heard)
             /\ Page!Deaf(kind)[s] # Page!Free =>
                  (Page!Deaf(kind)[s].old => ~Page!Deaf(kind)[s].heard)
  <2>1. forms[s] \in FormRequest \cup {Page!Free} /\ Unlistened(s)
    BY DEF FormsInv
  <2>2. CASE forms[s] # Page!Free /\ forms[s].kind = kind
    BY <1>1, <2>1, <2>2 DEF Page!Reset, Page!Deaf
  <2>3. CASE ~(forms[s] # Page!Free /\ forms[s].kind = kind)
    BY <2>1, <2>3 DEF Page!Reset, Page!Deaf, Unlistened
  <2> QED
    BY <2>2, <2>3
<1> QED
  BY <1>2 DEF Page!Reset, Page!Deaf

\* Every step of the settings page keeps FormsInv; opening a form silences what was sent
\* before.
LEMMA FormsStep == FormsInv /\ [AccountsNext]_accountsVars => FormsInv'
<1> SUFFICES ASSUME FormsInv, [AccountsNext]_accountsVars PROVE FormsInv'
  OBVIOUS
<1>1. CASE UNCHANGED <<mode, forms>>
  BY <1>1 DEF FormsInv, Unlistened
<1>2. ASSUME NEW kind \in {"edit", "password"}, Page!OpenForm(kind) PROVE FormsInv'
  <2>1. mode' = kind /\ forms' = Page!Reset(kind)
    BY <1>2 DEF Page!OpenForm
  <2> QED
    BY <2>1, ResetStep DEF FormsInv, Unlistened
<1>3. CASE Page!Cancel
  BY <1>3 DEF Page!Cancel, FormsInv, Unlistened
<1>4. CASE Page!Submit
  <2> DEFINE f == [kind |-> mode, heard |-> TRUE, old |-> FALSE]
  <2>1. mode' = mode /\ mode \in {"edit", "password"}
    BY <1>4 DEF Page!Submit, FormsInv
  <2>2. PICK s \in Slots : forms' = [Page!Deaf(mode) EXCEPT ![s] = f]
    BY <1>4 DEF Page!Submit
  <2>3. f \in FormRequest /\ ~f.old
    BY <2>1 DEF FormRequest
  <2> HIDE DEF f
  <2>4. /\ forms' \in [Slots -> FormRequest \cup {Page!Free}]
        /\ forms'[s] = f /\ \A t \in Slots \ {s} : forms'[t] = Page!Deaf(mode)[t]
    BY <2>1, <2>2, <2>3, ResetStep
  <2>5. \A t \in Slots : Unlistened(t)'
    BY <2>1, <2>3, <2>4, ResetStep DEF Unlistened
  <2> QED
    BY <2>1, <2>4, <2>5 DEF FormsInv
<1>5. ASSUME NEW s \in Slots, Page!AnswerForm(s) \/ Page!RefuseForm(s) PROVE FormsInv'
  <2>1. forms' = [forms EXCEPT ![s] = Page!Free] /\ mode' \in {"view", mode}
    BY <1>5 DEF Page!AnswerForm, Page!RefuseForm
  <2> QED
    BY <2>1 DEF FormsInv, Unlistened
<1>6. CASE Page!SwitchNext \/ Page!DangerNext
  <2>1. UNCHANGED <<mode, forms>>
    BY <1>6
    DEF Page!SwitchNext, Page!DangerNext, Page!FlipSwitch, Page!SaveUpdates, Page!RefuseSwitch,
        Page!LandSwitch, Page!ReadPrefs, Page!StorePrefs, Page!PrefsUnavailable, Page!Focus,
        Page!OpenDanger, Page!CancelDanger, Page!PressDelete, Page!DisarmTimer,
        Page!RefuseDelete, Page!DeleteAccount, Page!profileVars
  <2> QED
    BY <1>1, <2>1
<1>7. CASE Page!ProfileNext
  BY <1>2, <1>3, <1>4, <1>5, <1>7 DEF Page!ProfileNext, Page!OpenEdit, Page!OpenPassword
<1>8. Page!SettingsNext \/ UNCHANGED <<mode, forms>>
  BY DEF AccountsNext, accountsVars, setting
<1> QED
  BY <1>1, <1>6, <1>7, <1>8 DEF Page!SettingsNext

\* A settings form that was closed and opened again is not closed by an answer to what was sent
\* before: opening it resets its mutation (SettingsPage).
THEOREM ReopenedFormsStay == AccountsSpec => ReopenedFormStays
<1>1. AccountsInit => FormsInv
  BY DEF AccountsInit, Page!SettingsInit, FormsInv, Unlistened
<1>2. FormsInv => [at = "settings" => Page!KeepsReopened]_setting
  <2> SUFFICES ASSUME FormsInv, NEW s \in Page!Busy, Page!AnswerForm(s),
                      mode = forms[s].kind, mode' # mode
               PROVE  ~forms[s].old
    BY DEF Page!KeepsReopened
  <2>1. s \in Slots /\ forms[s] # Page!Free /\ forms[s].heard
    BY DEF Page!Busy, Page!AnswerForm
  <2> QED
    BY <2>1 DEF FormsInv, Unlistened
<1> QED
  BY <1>1, <1>2, FormsStep, PTL DEF AccountsSpec, ReopenedFormStays
=============================================================================
