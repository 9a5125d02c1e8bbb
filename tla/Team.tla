-------------------------------- MODULE Team --------------------------------
(***************************************************************************)
(* Projects, their members and invitations, and the limits of the owner's  *)
(* plan, as the requests of owners, managers and invited people interleave *)
(* over projects, project_members, project_invites and                     *)
(* account_subscriptions under READ COMMITTED.                             *)
(*                                                                         *)
(* A person is a phone number; users are the people with an account.  A    *)
(* request in flight is a slot of Calls, and call[c].step names the        *)
(* statement it is at.  The row locks it holds follow from the step:       *)
(* HeldProjects, HeldSubs and HeldInvites.  A statement waits while        *)
(* another transaction holds a row it needs; a transaction that waits too  *)
(* long, or is the victim of a deadlock, aborts.                           *)
(*                                                                         *)
(* plan is the row as last written: a period that ends shows when          *)
(* ensureSubscription, which holds the row, writes it.                     *)
(* The two locks of ensureProjectMemberCapacity (the project's row, then   *)
(* the subscription's) are taken in one step with the count: nothing is    *)
(* read between them.  Names, budgets, covers, the audit log and the       *)
(* deletion of accounts (FileStorage) are left out.                        *)
(***************************************************************************)
EXTENDS Naturals, Sequences, FiniteSets

CONSTANTS People,      \* phone numbers
          Projects,    \* rows projects may get
          OwnerOf,     \* who creates which project
          Calls,       \* API requests in flight at a time
          Plans,       \* plans on sale and the trial
          Trial,       \* the plan of a new account
          NoPlan,      \* a subscription that has expired
          MaxProjects, \* active projects a plan allows
          MaxInvited,  \* participants per project a plan allows
          Asked,       \* roles that requests name
          MaxInvites   \* bound: invitations ever inserted

Roles == {"owner", "manager", "worker", "viewer"}

ASSUME TeamAssumption ==
  /\ IsFiniteSet(People) /\ IsFiniteSet(Projects)
  /\ OwnerOf \in [Projects -> People]
  /\ Trial \in Plans /\ NoPlan \notin Plans
  /\ MaxProjects \in [Plans -> Nat] /\ MaxInvited \in [Plans -> Nat]
  /\ Asked \subseteq Roles /\ MaxInvites \in Nat

VARIABLES users,    \* people with an account
          plan,     \* account_subscriptions of the owners, as last written
          project,  \* projects
          role,     \* project_members, "none" where there is no row
          invites,  \* project_invites in the order of created_at
          call      \* the requests in flight

vars == <<users, plan, project, role, invites, call>>

-----------------------------------------------------------------------------
(* Rows and requests. *)

Owners == {OwnerOf[x] : x \in Projects}
Assignable == {"manager", "worker", "viewer"}
Manages(r) == r \in {"owner", "manager"}

InviteRow == [project : Projects, phone : People, role : Assignable,
              status : {"open", "expired", "accepted", "revoked"}]
Unanswered == {"open", "expired"}

Idle == [step |-> "idle"]
Assignment == [step : {"add", "join", "guard", "revoke", "insert", "change"},
               project : Projects, person : People, role : Assignable]
Removal == [step : {"remove"}, project : Projects, person : People]
Lifecycle == [step : {"create", "archive", "restore", "reopen"}, project : Projects]
Acceptance == [step : {"accept", "enter"}, person : People, invite : 1..MaxInvites]
Login == [step : {"login"}, person : People,
          held : SUBSET (1..MaxInvites), todo : SUBSET (1..MaxInvites),
          taken : SUBSET (1..MaxInvites), seen : SUBSET Projects,
          join : [Projects -> Assignable \cup {"none"}]]

Is(c, step) == call[c].step = step

-----------------------------------------------------------------------------
(* Locks: what a call holds, and whether c may take a row. *)

HeldInvites(c) ==
  CASE call[c].step \in {"accept", "enter"} -> {call[c].invite}
    [] Is(c, "login") -> call[c].held
    [] OTHER -> {}

\* Variant: the login checks each invitation in a transaction of its own.
HeldProjectsButLogin(c) ==
  CASE call[c].step \in {"join", "reopen"} -> {call[c].project}
    [] Is(c, "enter") -> {invites[call[c].invite].project}
    [] OTHER -> {}

HeldProjects(c) ==
  CASE call[c].step \in {"join", "reopen"} -> {call[c].project}
    [] Is(c, "enter") -> {invites[call[c].invite].project}
    [] Is(c, "login") -> call[c].seen
    [] OTHER -> {}

HeldSubs(c) ==
  {OwnerOf[x] : x \in HeldProjects(c) \cup
                      (IF Is(c, "create") THEN {call[c].project} ELSE {})}

\* Variant: the invitation is read without FOR UPDATE.
InviteFreeUnlocked(i, c) == TRUE
InviteFree(i, c) == \A d \in Calls \ {c} : i \notin HeldInvites(d)

ProjectFree(x, c) == \A d \in Calls \ {c} : x \notin HeldProjects(d)

SubFree(p, c) == \A d \in Calls \ {c} : p \notin HeldSubs(d)

-----------------------------------------------------------------------------
(* The limits of a plan. *)

ActiveOf(p) == {x \in Projects : OwnerOf[x] = p /\ project[x] = "active"}
Invited(x) == {p \in People : role[p][x] \notin {"none", "owner"}}
InvitesOf(x, p) == {i \in DOMAIN invites : invites[i].project = x /\ invites[i].phone = p}
OpenInvites(x) == {i \in DOMAIN invites : invites[i].project = x /\ invites[i].status = "open"}

\* ensureProjectCreationAllowed
HasSlot(c, p) ==
  /\ SubFree(p, c)
  /\ plan[p] # NoPlan
  /\ Cardinality(ActiveOf(p)) < MaxProjects[plan[p]]

\* ensureProjectMemberCapacity, where the transaction itself has already
\* inserted `own' rows of project_members.
HasRoom(x, p, own) ==
  LET pending == {i \in OpenInvites(x) : invites[i].phone # p} IN
  /\ plan[OwnerOf[x]] # NoPlan
  /\ Cardinality(Invited(x)) + own + Cardinality(pending) < MaxInvited[plan[OwnerOf[x]]]

CapacityFree(c, x) == ProjectFree(x, c) /\ SubFree(OwnerOf[x], c)

Answered(S, status) ==
  [i \in DOMAIN invites |-> IF i \in S THEN [invites[i] EXCEPT !.status = status]
                                       ELSE invites[i]]
PreviousInvites(x, p) == {i \in InvitesOf(x, p) : invites[i].status \in Unanswered}

-----------------------------------------------------------------------------
Init ==
  /\ users = {}
  /\ plan = [p \in Owners |-> Trial]
  /\ project = [x \in Projects |-> "none"]
  /\ role = [p \in People |-> [x \in Projects |-> "none"]]
  /\ invites = <<>>
  /\ call = [c \in Calls |-> Idle]

(***************************************************************************)
(* CreateProjectInvite.  canManageProject and the two look-ups are         *)
(* statements of their own, before any transaction.                        *)
(***************************************************************************)
MayManage(a, x) == a \in users /\ Manages(role[a][x]) /\ project[x] = "active"

\* Variant: isAssignableProjectRole is not asked.
BeginInviteAnyRole(c, a, x, p, r) ==
  /\ Is(c, "idle") /\ MayManage(a, x)
  /\ role[p][x] = "none"
  /\ call' = [call EXCEPT ![c] = [step |-> IF p \in users THEN "add" ELSE "guard",
                                  project |-> x, person |-> p, role |-> r]]
  /\ UNCHANGED <<users, plan, project, role, invites>>

BeginInvite(c, a, x, p, r) ==
  /\ Is(c, "idle") /\ MayManage(a, x)
  /\ r \in Assignable /\ role[p][x] = "none"
  /\ call' = [call EXCEPT ![c] = [step |-> IF p \in users THEN "add" ELSE "guard",
                                  project |-> x, person |-> p, role |-> r]]
  /\ UNCHANGED <<users, plan, project, role, invites>>

LockForAdd(c) ==
  /\ Is(c, "add") /\ CapacityFree(c, call[c].project)
  /\ HasRoom(call[c].project, call[c].person, 0)
  /\ call' = [call EXCEPT ![c].step = "join"]
  /\ UNCHANGED <<users, plan, project, role, invites>>

CommitAdd(c) ==
  LET x == call[c].project  p == call[c].person IN
  /\ Is(c, "join")
  /\ role[p][x] = "none"
  /\ \A i \in PreviousInvites(x, p) : InviteFree(i, c)
  /\ role' = [role EXCEPT ![p][x] = call[c].role]
  /\ invites' = Answered(PreviousInvites(x, p), "revoked")
  /\ call' = [call EXCEPT ![c] = Idle]
  /\ UNCHANGED <<users, plan, project>>

\* The guard transaction commits, and its locks are gone, before the next two.
GuardInvite(c) ==
  /\ Is(c, "guard") /\ CapacityFree(c, call[c].project)
  /\ HasRoom(call[c].project, call[c].person, 0)
  /\ call' = [call EXCEPT ![c].step = "revoke"]
  /\ UNCHANGED <<users, plan, project, role, invites>>

RevokePrevious(c) ==
  LET previous == PreviousInvites(call[c].project, call[c].person) IN
  /\ Is(c, "revoke")
  /\ \A i \in previous : InviteFree(i, c)
  /\ invites' = Answered(previous, "revoked")
  /\ call' = [call EXCEPT ![c].step = "insert"]
  /\ UNCHANGED <<users, plan, project, role>>

\* The foreign key makes the INSERT wait for a locked project.
InsertInvite(c) ==
  /\ Is(c, "insert") /\ Len(invites) < MaxInvites
  /\ ProjectFree(call[c].project, c)
  /\ invites' = Append(invites, [project |-> call[c].project, phone |-> call[c].person,
                                 role |-> call[c].role, status |-> "open"])
  /\ call' = [call EXCEPT ![c] = Idle]
  /\ UNCHANGED <<users, plan, project, role>>

-----------------------------------------------------------------------------
(* AcceptProjectInvite. *)

BeginAccept(c, i) ==
  /\ Is(c, "idle")
  /\ invites[i].status = "open" /\ invites[i].phone \in users
  /\ InviteFree(i, c)
  /\ call' = [call EXCEPT ![c] = [step |-> "accept", person |-> invites[i].phone, invite |-> i]]
  /\ UNCHANGED <<users, plan, project, role, invites>>

LockForAccept(c) ==
  LET x == invites[call[c].invite].project IN
  /\ Is(c, "accept") /\ CapacityFree(c, x)
  /\ HasRoom(x, call[c].person, 0)
  /\ call' = [call EXCEPT ![c].step = "enter"]
  /\ UNCHANGED <<users, plan, project, role, invites>>

\* ON CONFLICT DO UPDATE: an invitation also replaces the role of a member.
CommitAccept(c) ==
  LET i == call[c].invite IN
  /\ Is(c, "enter")
  /\ role' = [role EXCEPT ![call[c].person][invites[i].project] = invites[i].role]
  /\ invites' = Answered({i}, "accepted")
  /\ call' = [call EXCEPT ![c] = Idle]
  /\ UNCHANGED <<users, plan, project>>

-----------------------------------------------------------------------------
(* VerifyCode, from the user's row to the commit: the open invitations of  *)
(* the phone are answered, oldest first, in the transaction of the login.  *)
(* Those without room are skipped; their locks stay until the commit.      *)

BeginLogin(c, p) ==
  LET mine == {i \in DOMAIN invites : invites[i].phone = p /\ invites[i].status = "open"} IN
  /\ Is(c, "idle")
  /\ \A d \in Calls : ~(Is(d, "login") /\ call[d].person = p)
  /\ \A i \in mine : InviteFree(i, c)
  /\ call' = [call EXCEPT ![c] = [step |-> "login", person |-> p, held |-> mine,
                                  todo |-> mine, taken |-> {}, seen |-> {},
                                  join |-> [x \in Projects |-> "none"]]]
  /\ UNCHANGED <<users, plan, project, role, invites>>

Oldest(S, i) == i \in S /\ \A j \in S : i <= j

LoginInvite(c, i) ==
  LET x == invites[i].project
      p == call[c].person
      own == IF call[c].join[x] = "none" THEN 0 ELSE 1
      new == own = 0 /\ role[p][x] = "none"
      tried == [call[c] EXCEPT !.todo = @ \ {i}, !.seen = @ \cup {x}]
  IN
  /\ Is(c, "login") /\ Oldest(call[c].todo, i)
  /\ CapacityFree(c, x)
  /\ \/ /\ ~HasRoom(x, p, own)
        /\ call' = [call EXCEPT ![c] = tried]
     \/ /\ HasRoom(x, p, own)
        /\ call' = [call EXCEPT ![c] =
                     [tried EXCEPT !.taken = @ \cup {i},
                                   !.join[x] = IF new THEN invites[i].role ELSE @]]
  /\ UNCHANGED <<users, plan, project, role, invites>>

CommitLogin(c) ==
  LET p == call[c].person IN
  /\ Is(c, "login") /\ call[c].todo = {}
  /\ users' = users \cup {p}
  /\ role' = [role EXCEPT ![p] = [x \in Projects |->
                IF call[c].join[x] = "none" THEN role[p][x] ELSE call[c].join[x]]]
  /\ invites' = Answered(call[c].taken, "accepted")
  /\ call' = [call EXCEPT ![c] = Idle]
  /\ UNCHANGED <<plan, project>>

-----------------------------------------------------------------------------
(* ProjectMember: the checks and the change are separate statements.       *)

\* Variant: the current role is not looked at.
BeginMemberAny(c, a, x, p) ==
  /\ Is(c, "idle") /\ MayManage(a, x)
  /\ role[p][x] # "none"
  /\ \/ \E r \in Asked \cap Assignable :
          call' = [call EXCEPT ![c] = [step |-> "change", project |-> x, person |-> p, role |-> r]]
     \/ call' = [call EXCEPT ![c] = [step |-> "remove", project |-> x, person |-> p]]
  /\ UNCHANGED <<users, plan, project, role, invites>>

BeginMember(c, a, x, p) ==
  /\ Is(c, "idle") /\ MayManage(a, x)
  /\ role[p][x] \notin {"none", "owner"}
  /\ \/ \E r \in Asked \cap Assignable :
          call' = [call EXCEPT ![c] = [step |-> "change", project |-> x, person |-> p, role |-> r]]
     \/ call' = [call EXCEPT ![c] = [step |-> "remove", project |-> x, person |-> p]]
  /\ UNCHANGED <<users, plan, project, role, invites>>

\* The UPDATE changes no row if the member has gone meanwhile.
SetRole(c) ==
  LET x == call[c].project  p == call[c].person IN
  /\ Is(c, "change")
  /\ role' = [role EXCEPT ![p][x] = IF @ = "none" THEN @ ELSE call[c].role]
  /\ call' = [call EXCEPT ![c] = Idle]
  /\ UNCHANGED <<users, plan, project, invites>>

RemoveMember(c) ==
  /\ Is(c, "remove")
  /\ role' = [role EXCEPT ![call[c].person][call[c].project] = "none"]
  /\ call' = [call EXCEPT ![c] = Idle]
  /\ UNCHANGED <<users, plan, project, invites>>

-----------------------------------------------------------------------------
(* createProject, CreateProjectWithCover, updateProject, deleteProject.    *)

BeginCreate(c, x) ==
  /\ Is(c, "idle") /\ OwnerOf[x] \in users
  /\ project[x] = "none"
  /\ \A d \in Calls : ~(Is(d, "create") /\ call[d].project = x)
  /\ HasSlot(c, OwnerOf[x])
  /\ call' = [call EXCEPT ![c] = [step |-> "create", project |-> x]]
  /\ UNCHANGED <<users, plan, project, role, invites>>

CommitCreate(c) ==
  LET x == call[c].project IN
  /\ Is(c, "create")
  /\ project' = [project EXCEPT ![x] = "active"]
  /\ role' = [role EXCEPT ![OwnerOf[x]][x] = "owner"]
  /\ call' = [call EXCEPT ![c] = Idle]
  /\ UNCHANGED <<users, plan, invites>>

BeginArchive(c, a, x) ==
  /\ Is(c, "idle") /\ MayManage(a, x)
  /\ call' = [call EXCEPT ![c] = [step |-> "archive", project |-> x]]
  /\ UNCHANGED <<users, plan, project, role, invites>>

ArchiveProject(c) ==
  /\ Is(c, "archive") /\ ProjectFree(call[c].project, c)
  /\ project' = [project EXCEPT ![call[c].project] = "archived"]
  /\ call' = [call EXCEPT ![c] = Idle]
  /\ UNCHANGED <<users, plan, role, invites>>

\* canManageProjectLifecycle does not ask for an active project.
BeginRestore(c, a, x) ==
  /\ Is(c, "idle") /\ a \in users /\ Manages(role[a][x])
  /\ call' = [call EXCEPT ![c] = [step |-> "restore", project |-> x]]
  /\ UNCHANGED <<users, plan, project, role, invites>>

\* Variant: an archived project is restored without a look at the plan.
LockRestoreUnchecked(c) ==
  /\ Is(c, "restore") /\ ProjectFree(call[c].project, c)
  /\ project[call[c].project] = "archived"
  /\ call' = [call EXCEPT ![c].step = "reopen"]
  /\ UNCHANGED <<users, plan, project, role, invites>>

LockRestore(c) ==
  /\ Is(c, "restore") /\ ProjectFree(call[c].project, c)
  /\ project[call[c].project] = "archived"
  /\ HasSlot(c, OwnerOf[call[c].project])
  /\ call' = [call EXCEPT ![c].step = "reopen"]
  /\ UNCHANGED <<users, plan, project, role, invites>>

CommitRestore(c) ==
  /\ Is(c, "reopen")
  /\ project' = [project EXCEPT ![call[c].project] = "active"]
  /\ call' = [call EXCEPT ![c] = Idle]
  /\ UNCHANGED <<users, plan, role, invites>>

-----------------------------------------------------------------------------
(* A request that fails, is refused or loses its connection is rolled back *)
(* from where it is: every request above can stop at any of its steps.     *)
Abort(c) ==
  /\ ~Is(c, "idle")
  /\ call' = [call EXCEPT ![c] = Idle]
  /\ UNCHANGED <<users, plan, project, role, invites>>

\* SQL's now() is the start of the transaction; here an invitation is compared
\* with the time of the statement.
ExpireInvite(i) ==
  /\ invites[i].status = "open"
  /\ invites' = Answered({i}, "expired")
  /\ UNCHANGED <<users, plan, project, role, call>>

\* A payment (Billing) or a lapse is written under the row lock.
ChangePlan(p, to) ==
  /\ p \in users /\ to # plan[p]
  /\ \A c \in Calls : p \notin HeldSubs(c)
  /\ plan' = [plan EXCEPT ![p] = to]
  /\ UNCHANGED <<users, project, role, invites, call>>

-----------------------------------------------------------------------------
Inviting(c) ==
  \/ \E a, p \in People, x \in Projects, r \in Asked : BeginInvite(c, a, x, p, r)
  \/ LockForAdd(c) \/ CommitAdd(c)
  \/ GuardInvite(c) \/ RevokePrevious(c) \/ InsertInvite(c)

Entering(c) ==
  \/ \E i \in DOMAIN invites : BeginAccept(c, i) \/ LoginInvite(c, i)
  \/ LockForAccept(c) \/ CommitAccept(c)
  \/ \E p \in People : BeginLogin(c, p)
  \/ CommitLogin(c)

Managing(c) ==
  \/ \E a, p \in People, x \in Projects : BeginMember(c, a, x, p)
  \/ SetRole(c) \/ RemoveMember(c)
  \/ \E x \in Projects : BeginCreate(c, x)
  \/ \E a \in People, x \in Projects : BeginArchive(c, a, x) \/ BeginRestore(c, a, x)
  \/ CommitCreate(c) \/ ArchiveProject(c) \/ LockRestore(c) \/ CommitRestore(c)

Next ==
  \/ \E c \in Calls : Inviting(c) \/ Entering(c) \/ Managing(c) \/ Abort(c)
  \/ \E i \in DOMAIN invites : ExpireInvite(i)
  \/ \E p \in Owners, to \in (Plans \ {Trial}) \cup {NoPlan} : ChangePlan(p, to)

Spec == Init /\ [][Next]_vars

-----------------------------------------------------------------------------
(* Properties. *)

\* Every row and every request has the shape the schema and the handlers give
\* it; in particular no request asks for the role of the owner.
TypeOK ==
  /\ users \subseteq People
  /\ plan \in [Owners -> Plans \cup {NoPlan}]
  /\ project \in [Projects -> {"none", "active", "archived"}]
  /\ role \in [People -> [Projects -> Roles \cup {"none"}]]
  /\ invites \in Seq(InviteRow) /\ Len(invites) <= MaxInvites
  /\ call \in [Calls -> {Idle} \cup Assignment \cup Removal \cup Lifecycle
                        \cup Acceptance \cup Login]

\* A project has one owner, the account that created it, whatever invitations,
\* logins and changes of roles cross each other: CommitAccept overwrites roles
\* and ProjectMember changes them after an unlocked check.
OwnerKeepsRole ==
  \A x \in Projects :
    {p \in People : role[p][x] = "owner"} =
      (IF project[x] = "none" THEN {} ELSE {OwnerOf[x]})

\* ensureProjectCreationAllowed: concurrent creations and restorations cannot
\* push an account over the limit of the plan it has at that moment.
ProjectsWithinPlan ==
  [][\A p \in Owners :
       Cardinality(ActiveOf(p)') > Cardinality(ActiveOf(p)) =>
         /\ plan[p] # NoPlan
         /\ Cardinality(ActiveOf(p)') <= MaxProjects[plan[p]]]_vars

\* ensureProjectMemberCapacity: whichever of the three ways in is taken, nobody
\* joins a project beyond the limit of its owner's plan at that moment.
MembersWithinPlan ==
  [][\A x \in Projects :
       Cardinality(Invited(x)') > Cardinality(Invited(x)) =>
         /\ plan[OwnerOf[x]] # NoPlan
         /\ Cardinality(Invited(x)') <= MaxInvited[plan[OwnerOf[x]]]]_vars

\* An invitation is answered once: one that was accepted does not admit again,
\* one that was revoked does not admit at all, although logins, acceptances and
\* replacements race for it.
InvitesFinal ==
  [][\A i \in DOMAIN invites :
       invites[i].status \in {"accepted", "revoked"} => invites'[i] = invites[i]]_vars
=============================================================================
