----------------------------- MODULE TeamProofs -----------------------------
(***************************************************************************)
(* Proofs about Team, for every number of people, projects, invitations,   *)
(* plans and concurrent requests.                                          *)
(***************************************************************************)
EXTENDS Team, SequenceTheorems, FiniteSetTheorems, TLAPS

-----------------------------------------------------------------------------
(* The inductive invariant. *)

OwnerRoles ==
  \A x \in Projects, p \in People :
    /\ role[p][x] = "owner" <=> (project[x] # "none" /\ p = OwnerOf[x])
    /\ role[p][x] # "none" => project[x] # "none"

\* Nobody invites the owner of a project.
InvitesToOthers ==
  \A i \in DOMAIN invites :
    /\ invites[i].phone # OwnerOf[invites[i].project]
    /\ project[invites[i].project] # "none"

\* What a request works on: a project that exists, a member who is not the
\* owner, an invitation of the person that answers it.
RequestOK(c) ==
  /\ call[c].step \in {"add", "join", "guard", "revoke", "insert", "change", "remove"} =>
       /\ project[call[c].project] # "none"
       /\ call[c].person # OwnerOf[call[c].project]
  /\ call[c].step \in {"archive", "restore", "reopen"} => project[call[c].project] # "none"
  /\ call[c].step \in {"accept", "enter"} =>
       /\ call[c].invite \in DOMAIN invites
       /\ invites[call[c].invite].phone = call[c].person
  /\ call[c].step = "login" =>
       /\ call[c].held \subseteq DOMAIN invites
       /\ call[c].todo \subseteq call[c].held
       /\ call[c].taken \subseteq call[c].held
       /\ \A i \in call[c].held : invites[i].phone = call[c].person
       /\ \A x \in Projects : call[c].join[x] # "none" =>
            call[c].person # OwnerOf[x] /\ project[x] # "none"

TeamInv == TypeOK /\ OwnerRoles /\ InvitesToOthers /\ \A c \in Calls : RequestOK(c)

-----------------------------------------------------------------------------
(* Rows of project_invites. *)

LEMMA InviteTyped ==
  ASSUME TypeOK, NEW i \in DOMAIN invites
  PROVE  invites[i] \in InviteRow
  BY DEF TypeOK

LEMMA AnsweredTyped ==
  ASSUME TypeOK, NEW S, NEW st \in {"open", "expired", "accepted", "revoked"}
  PROVE  /\ Answered(S, st) \in Seq(InviteRow)
         /\ Len(Answered(S, st)) = Len(invites)
         /\ DOMAIN Answered(S, st) = DOMAIN invites
         /\ \A i \in DOMAIN invites :
              IF i \in S THEN Answered(S, st)[i].status = st
                         ELSE Answered(S, st)[i] = invites[i]
         /\ \A i \in DOMAIN invites :
              /\ Answered(S, st)[i].phone = invites[i].phone
              /\ Answered(S, st)[i].project = invites[i].project
  <1>1. invites \in Seq(InviteRow) /\ Len(invites) \in Nat /\ DOMAIN invites = 1..Len(invites)
    BY DEF TypeOK
  <1>2. ASSUME NEW i \in DOMAIN invites PROVE Answered(S, st)[i] \in InviteRow
    BY InviteTyped DEF Answered, InviteRow
  <1>3. Answered(S, st) \in [1..Len(invites) -> InviteRow]
    BY <1>1, <1>2 DEF Answered
  <1>4. Answered(S, st) \in Seq(InviteRow) /\ Len(Answered(S, st)) = Len(invites)
    BY <1>1, <1>3, LenProperties, SeqDef
  <1>5. ASSUME NEW i \in DOMAIN invites
        PROVE  /\ Answered(S, st)[i].phone = invites[i].phone
               /\ Answered(S, st)[i].project = invites[i].project
    BY InviteTyped DEF Answered, InviteRow
  <1>6. ASSUME NEW i \in DOMAIN invites
        PROVE  IF i \in S THEN Answered(S, st)[i].status = st
                          ELSE Answered(S, st)[i] = invites[i]
    BY InviteTyped DEF Answered, InviteRow
  <1>7. DOMAIN Answered(S, st) = DOMAIN invites
    BY DEF Answered
  <1>8. QED BY <1>4, <1>5, <1>6, <1>7

-----------------------------------------------------------------------------
(* What a request carries at each of its steps. *)

CallState == {Idle} \cup Assignment \cup Removal \cup Lifecycle \cup Acceptance \cup Login

LEMMA CallShape ==
  ASSUME TypeOK, NEW c \in Calls
  PROVE  /\ call[c] \in CallState
         /\ call[c].step \in {"add", "join", "guard", "revoke", "insert", "change"} =>
              call[c] \in Assignment
         /\ Is(c, "remove") => call[c] \in Removal
         /\ call[c].step \in {"create", "archive", "restore", "reopen"} => call[c] \in Lifecycle
         /\ call[c].step \in {"accept", "enter"} => call[c] \in Acceptance
         /\ Is(c, "login") => call[c] \in Login
  BY DEF TypeOK, CallState, Is, Idle, Assignment, Removal, Lifecycle, Acceptance, Login

\* Every step but those of time and payment moves one request.
Moves(c, state) == call' = [call EXCEPT ![c] = state]

LEMMA MovesTyped ==
  ASSUME TypeOK, NEW c \in Calls, NEW state \in CallState, Moves(c, state)
  PROVE  call' \in [Calls -> CallState] /\ call'[c] = state
         /\ \A d \in Calls \ {c} : call'[d] = call[d]
  BY DEF Moves, TypeOK, CallState

LEMMA AdvancesTyped ==
  ASSUME TypeOK, NEW c \in Calls, NEW s,
         \/ call[c] \in Assignment /\ s \in {"join", "revoke", "insert"}
         \/ call[c] \in Lifecycle /\ s = "reopen"
         \/ call[c] \in Acceptance /\ s = "enter",
         call' = [call EXCEPT ![c].step = s]
  PROVE  /\ call' \in [Calls -> CallState]
         /\ call'[c].step = s
         /\ call[c] \in Assignment => call'[c].project = call[c].project
                                      /\ call'[c].person = call[c].person
         /\ call[c] \in Lifecycle => call'[c].project = call[c].project
         /\ call[c] \in Acceptance => call'[c].invite = call[c].invite
                                      /\ call'[c].person = call[c].person
         /\ \A d \in Calls \ {c} : call'[d] = call[d]
  <1> DEFINE state == [call[c] EXCEPT !.step = s]
  <1>1. Moves(c, state)
    BY DEF Moves, TypeOK
  <1>2. state \in CallState
    <2>1. CASE call[c] \in Assignment /\ s \in {"join", "revoke", "insert"}
      BY <2>1 DEF Assignment, CallState
    <2>2. CASE call[c] \in Lifecycle /\ s = "reopen"
      BY <2>2 DEF Lifecycle, CallState
    <2>3. CASE call[c] \in Acceptance /\ s = "enter"
      BY <2>3 DEF Acceptance, CallState
    <2>4. QED BY <2>1, <2>2, <2>3
  <1>3. call'[c] = state /\ call' \in [Calls -> CallState]
        /\ \A d \in Calls \ {c} : call'[d] = call[d]
    BY <1>1, <1>2, MovesTyped
  <1>4. call[c] \in Assignment => state.step = s /\ state.project = call[c].project
                                  /\ state.person = call[c].person
    BY DEF Assignment
  <1>5. call[c] \in Lifecycle => state.step = s /\ state.project = call[c].project
    BY DEF Lifecycle
  <1>6. call[c] \in Acceptance => state.step = s /\ state.invite = call[c].invite
                                  /\ state.person = call[c].person
    BY DEF Acceptance
  <1>7. QED BY <1>3, <1>4, <1>5, <1>6

-----------------------------------------------------------------------------
(* Types. *)

Data == <<users, plan, project, role, invites>>

LEMMA TypeFromCall ==
  ASSUME TypeOK, UNCHANGED Data, call' \in [Calls -> CallState]
  PROVE  TypeOK'
  BY DEF TypeOK, Data, CallState

LEMMA IdleTyped == Idle \in CallState
  BY DEF CallState

LEMMA RoleTyped ==
  ASSUME TypeOK, NEW p \in People, NEW x \in Projects, NEW r \in Roles \cup {"none"}
  PROVE  [role EXCEPT ![p][x] = r] \in [People -> [Projects -> Roles \cup {"none"}]]
  BY DEF TypeOK

LEMMA AssignableRoles == Assignable \subseteq Roles /\ "owner" \notin Assignable
                         /\ "none" \notin Assignable
  BY DEF Assignable, Roles

LEMMA InvitingTyped ==
  ASSUME TypeOK, NEW c \in Calls, Inviting(c)
  PROVE  TypeOK'
  <1>1. ASSUME NEW a \in People, NEW p \in People, NEW x \in Projects, NEW r \in Asked,
               BeginInvite(c, a, x, p, r)
        PROVE  TypeOK'
    <2> DEFINE state == [step |-> IF p \in users THEN "add" ELSE "guard",
                         project |-> x, person |-> p, role |-> r]
    <2>1. state \in CallState
      BY <1>1 DEF BeginInvite, CallState, Assignment
    <2>2. Moves(c, state)
      BY <1>1 DEF BeginInvite, Moves
    <2>3. QED BY <1>1, <2>1, <2>2, MovesTyped, TypeFromCall DEF BeginInvite, Data
  <1>2. CASE LockForAdd(c)
    BY <1>2, CallShape, AdvancesTyped, TypeFromCall DEF LockForAdd, Data, Is
  <1>3. CASE CommitAdd(c)
    <2>1. call[c] \in Assignment
      BY <1>3, CallShape DEF CommitAdd, Is
    <2>2. call[c].person \in People /\ call[c].project \in Projects /\ call[c].role \in Roles
      BY <2>1, AssignableRoles DEF Assignment
    <2>3. role' \in [People -> [Projects -> Roles \cup {"none"}]]
      BY <1>3, <2>2, RoleTyped DEF CommitAdd
    <2>4. invites' \in Seq(InviteRow) /\ Len(invites') <= MaxInvites
      BY <1>3, AnsweredTyped DEF CommitAdd, TypeOK
    <2>5. call' \in [Calls -> CallState]
      BY <1>3, IdleTyped, MovesTyped DEF CommitAdd, Moves
    <2>6. QED BY <1>3, <2>3, <2>4, <2>5 DEF CommitAdd, TypeOK, CallState
  <1>4. CASE GuardInvite(c)
    BY <1>4, CallShape, AdvancesTyped, TypeFromCall DEF GuardInvite, Data, Is
  <1>5. CASE RevokePrevious(c)
    <2>1. call' \in [Calls -> CallState]
      BY <1>5, CallShape, AdvancesTyped DEF RevokePrevious, Is
    <2>2. invites' \in Seq(InviteRow) /\ Len(invites') <= MaxInvites
      BY <1>5, AnsweredTyped DEF RevokePrevious, TypeOK
    <2>3. QED BY <1>5, <2>1, <2>2 DEF RevokePrevious, TypeOK, CallState
  <1>6. CASE InsertInvite(c)
    <2> DEFINE row == [project |-> call[c].project, phone |-> call[c].person,
                       role |-> call[c].role, status |-> "open"]
    <2>1. row \in InviteRow
      BY <1>6, CallShape DEF InsertInvite, Is, Assignment, InviteRow
    <2>2. Append(invites, row) \in Seq(InviteRow) /\ Len(Append(invites, row)) = Len(invites) + 1
      BY <2>1, AppendProperties DEF TypeOK
    <2>3. invites' = Append(invites, row)
      BY <1>6 DEF InsertInvite
    <2>4. invites' \in Seq(InviteRow) /\ Len(invites') <= MaxInvites
      BY <1>6, <2>2, <2>3, LenProperties, TeamAssumption DEF InsertInvite, TypeOK
    <2>5. call' \in [Calls -> CallState]
      BY <1>6, IdleTyped, MovesTyped DEF InsertInvite, Moves
    <2>6. QED BY <1>6, <2>4, <2>5 DEF InsertInvite, TypeOK, CallState
  <1>7. QED BY <1>1, <1>2, <1>3, <1>4, <1>5, <1>6 DEF Inviting

LEMMA EnteringTyped ==
  ASSUME TypeOK, NEW c \in Calls, RequestOK(c), Entering(c)
  PROVE  TypeOK'
  <1>0. DOMAIN invites = 1..Len(invites) /\ Len(invites) \in Nat
        /\ \A i \in DOMAIN invites : i \in 1..MaxInvites
    BY LenProperties, TeamAssumption DEF TypeOK
  <1>1. ASSUME NEW i \in DOMAIN invites, BeginAccept(c, i)
        PROVE  TypeOK'
    <2> DEFINE state == [step |-> "accept", person |-> invites[i].phone, invite |-> i]
    <2>1. state \in CallState
      BY <1>0, <1>1, InviteTyped DEF InviteRow, CallState, Acceptance
    <2>2. Moves(c, state)
      BY <1>1 DEF BeginAccept, Moves
    <2>3. QED BY <1>1, <2>1, <2>2, MovesTyped, TypeFromCall DEF BeginAccept, Data
  <1>2. ASSUME NEW i \in DOMAIN invites, LoginInvite(c, i)
        PROVE  TypeOK'
    <2>1. call[c] \in Login
      BY <1>2, CallShape DEF LoginInvite
    <2>2. invites[i].project \in Projects /\ invites[i].role \in Assignable
      BY <1>2, InviteTyped DEF InviteRow
    <2> DEFINE x == invites[i].project
               tried == [call[c] EXCEPT !.todo = @ \ {i}, !.seen = @ \cup {x}]
    <2>3. tried \in Login
      BY <2>1, <2>2 DEF Login
    <2>4. ASSUME NEW r \in Assignable \cup {"none"}
          PROVE  [tried EXCEPT !.taken = @ \cup {i}, !.join[x] = r] \in Login
      BY <1>0, <1>2, <2>2, <2>3 DEF Login
    <2>5. tried.join[x] \in Assignable \cup {"none"}
      BY <2>2, <2>3 DEF Login
    <2>6. PICK state \in Login : Moves(c, state)
      <3> DEFINE own == IF call[c].join[x] = "none" THEN 0 ELSE 1
                 new == own = 0 /\ role[call[c].person][x] = "none"
                 r == IF new THEN invites[i].role ELSE tried.join[x]
                 joined == [tried EXCEPT !.taken = @ \cup {i}, !.join[x] = r]
      <3>1. joined \in Login
        BY <2>2, <2>4, <2>5
      <3>2. call' = [call EXCEPT ![c] = tried] \/ call' = [call EXCEPT ![c] = joined]
        BY <1>2 DEF LoginInvite
      <3>3. QED BY <2>3, <3>1, <3>2 DEF Moves
    <2>7. QED BY <1>2, <2>6, MovesTyped, TypeFromCall DEF LoginInvite, Data, CallState
  <1>3. CASE LockForAccept(c)
    BY <1>3, CallShape, AdvancesTyped, TypeFromCall DEF LockForAccept, Data, Is
  <1>4. CASE CommitAccept(c)
    <2>1. call[c] \in Acceptance /\ call[c].invite \in DOMAIN invites
      BY <1>4, CallShape DEF CommitAccept, Is, RequestOK
    <2>2. invites[call[c].invite] \in InviteRow
      BY <2>1, InviteTyped
    <2>3. role' \in [People -> [Projects -> Roles \cup {"none"}]]
      BY <1>4, <2>1, <2>2, RoleTyped, AssignableRoles DEF CommitAccept, Acceptance, InviteRow
    <2>4. invites' \in Seq(InviteRow) /\ Len(invites') <= MaxInvites
      BY <1>4, AnsweredTyped DEF CommitAccept, TypeOK
    <2>5. call' \in [Calls -> CallState]
      BY <1>4, IdleTyped, MovesTyped DEF CommitAccept, Moves
    <2>6. QED BY <1>4, <2>3, <2>4, <2>5 DEF CommitAccept, TypeOK, CallState
  <1>5. ASSUME NEW p \in People, BeginLogin(c, p)
        PROVE  TypeOK'
    <2> DEFINE mine == {i \in DOMAIN invites : invites[i].phone = p /\ invites[i].status = "open"}
               state == [step |-> "login", person |-> p, held |-> mine, todo |-> mine,
                         taken |-> {}, seen |-> {}, join |-> [x \in Projects |-> "none"]]
    <2>1. mine \subseteq 1..MaxInvites
      BY <1>0
    <2>2. state \in Login
      BY <2>1 DEF Login
    <2>3. Moves(c, state)
      BY <1>5 DEF BeginLogin, Moves
    <2>4. QED BY <1>5, <2>2, <2>3, MovesTyped, TypeFromCall DEF BeginLogin, Data, CallState
  <1>6. CASE CommitLogin(c)
    <2>1. call[c] \in Login
      BY <1>6, CallShape DEF CommitLogin
    <2>2. role' \in [People -> [Projects -> Roles \cup {"none"}]]
      BY <1>6, <2>1, AssignableRoles DEF CommitLogin, Login, TypeOK
    <2>3. invites' \in Seq(InviteRow) /\ Len(invites') <= MaxInvites
      BY <1>6, AnsweredTyped DEF CommitLogin, TypeOK
    <2>4. call' \in [Calls -> CallState]
      BY <1>6, IdleTyped, MovesTyped DEF CommitLogin, Moves
    <2>5. users' \subseteq People
      BY <1>6, <2>1 DEF CommitLogin, Login, TypeOK
    <2>6. QED BY <1>6, <2>2, <2>3, <2>4, <2>5 DEF CommitLogin, TypeOK, CallState
  <1>7. QED BY <1>1, <1>2, <1>3, <1>4, <1>5, <1>6 DEF Entering

LEMMA ManagingTyped ==
  ASSUME TypeOK, NEW c \in Calls, Managing(c)
  PROVE  TypeOK'
  <1>1. ASSUME NEW a \in People, NEW p \in People, NEW x \in Projects, BeginMember(c, a, x, p)
        PROVE  TypeOK'
    <2>1. ASSUME NEW r \in Assignable
          PROVE  [step |-> "change", project |-> x, person |-> p, role |-> r] \in CallState
      BY DEF CallState, Assignment
    <2>2. [step |-> "remove", project |-> x, person |-> p] \in CallState
      BY DEF CallState, Removal
    <2>3. PICK state \in CallState : Moves(c, state)
      BY <1>1, <2>1, <2>2 DEF BeginMember, Moves
    <2>4. QED BY <1>1, <2>3, MovesTyped, TypeFromCall DEF BeginMember, Data
  <1>2. CASE SetRole(c)
    <2>1. call[c].person \in People /\ call[c].project \in Projects /\ call[c].role \in Roles
      BY <1>2, CallShape, AssignableRoles DEF SetRole, Is, Assignment
    <2>2. role' \in [People -> [Projects -> Roles \cup {"none"}]]
      BY <1>2, <2>1 DEF SetRole, TypeOK
    <2>3. call' \in [Calls -> CallState]
      BY <1>2, IdleTyped, MovesTyped DEF SetRole, Moves
    <2>4. QED BY <1>2, <2>2, <2>3 DEF SetRole, TypeOK, CallState
  <1>3. CASE RemoveMember(c)
    <2>1. call[c].person \in People /\ call[c].project \in Projects
      BY <1>3, CallShape DEF RemoveMember, Is, Removal
    <2>2. role' \in [People -> [Projects -> Roles \cup {"none"}]]
      BY <1>3, <2>1, RoleTyped DEF RemoveMember
    <2>3. call' \in [Calls -> CallState]
      BY <1>3, IdleTyped, MovesTyped DEF RemoveMember, Moves
    <2>4. QED BY <1>3, <2>2, <2>3 DEF RemoveMember, TypeOK, CallState
  <1>4. ASSUME NEW x \in Projects, BeginCreate(c, x)
        PROVE  TypeOK'
    <2>1. [step |-> "create", project |-> x] \in CallState
      BY DEF CallState, Lifecycle
    <2>2. QED BY <1>4, <2>1, MovesTyped, TypeFromCall DEF BeginCreate, Data, Moves
  <1>5. ASSUME NEW a \in People, NEW x \in Projects, BeginArchive(c, a, x)
        PROVE  TypeOK'
    <2>1. [step |-> "archive", project |-> x] \in CallState
      BY DEF CallState, Lifecycle
    <2>2. QED BY <1>5, <2>1, MovesTyped, TypeFromCall DEF BeginArchive, Data, Moves
  <1>6. ASSUME NEW a \in People, NEW x \in Projects, BeginRestore(c, a, x)
        PROVE  TypeOK'
    <2>1. [step |-> "restore", project |-> x] \in CallState
      BY DEF CallState, Lifecycle
    <2>2. QED BY <1>6, <2>1, MovesTyped, TypeFromCall DEF BeginRestore, Data, Moves
  <1>7. CASE CommitCreate(c)
    <2>1. call[c].project \in Projects /\ OwnerOf[call[c].project] \in People
      BY <1>7, CallShape, TeamAssumption DEF CommitCreate, Is, Lifecycle
    <2>2. role' \in [People -> [Projects -> Roles \cup {"none"}]]
      BY <1>7, <2>1, RoleTyped DEF CommitCreate, Roles
    <2>3. call' \in [Calls -> CallState]
      BY <1>7, IdleTyped, MovesTyped DEF CommitCreate, Moves
    <2>4. QED BY <1>7, <2>1, <2>2, <2>3 DEF CommitCreate, TypeOK, CallState
  <1>8. CASE ArchiveProject(c)
    <2>1. call' \in [Calls -> CallState]
      BY <1>8, IdleTyped, MovesTyped DEF ArchiveProject, Moves
    <2>2. QED BY <1>8, <2>1 DEF ArchiveProject, TypeOK, CallState
  <1>9. CASE LockRestore(c)
    BY <1>9, CallShape, AdvancesTyped, TypeFromCall DEF LockRestore, Data, Is
  <1>10. CASE CommitRestore(c)
    <2>1. call' \in [Calls -> CallState]
      BY <1>10, IdleTyped, MovesTyped DEF CommitRestore, Moves
    <2>2. QED BY <1>10, <2>1 DEF CommitRestore, TypeOK, CallState
  <1>11. QED
    BY <1>1, <1>2, <1>3, <1>4, <1>5, <1>6, <1>7, <1>8, <1>9, <1>10 DEF Managing

LEMMA OtherStepsTyped ==
  ASSUME TypeOK,
         \/ \E c \in Calls : Abort(c)
         \/ \E i \in DOMAIN invites : ExpireInvite(i)
         \/ \E p \in Owners, to \in (Plans \ {Trial}) \cup {NoPlan} : ChangePlan(p, to)
         \/ UNCHANGED vars
  PROVE  TypeOK'
  <1>1. ASSUME NEW c \in Calls, Abort(c) PROVE TypeOK'
    BY <1>1, IdleTyped, MovesTyped, TypeFromCall DEF Abort, Data, Moves
  <1>2. ASSUME NEW i \in DOMAIN invites, ExpireInvite(i) PROVE TypeOK'
    <2>1. invites' \in Seq(InviteRow) /\ Len(invites') <= MaxInvites
      BY <1>2, AnsweredTyped DEF ExpireInvite, TypeOK
    <2>2. QED BY <1>2, <2>1 DEF ExpireInvite, TypeOK
  <1>3. ASSUME NEW p \in Owners, NEW to \in (Plans \ {Trial}) \cup {NoPlan}, ChangePlan(p, to)
        PROVE  TypeOK'
    BY <1>3 DEF ChangePlan, TypeOK
  <1>4. CASE UNCHANGED vars
    BY <1>4 DEF vars, TypeOK
  <1>5. QED BY <1>1, <1>2, <1>3, <1>4

LEMMA TypeStep ==
  ASSUME TypeOK, \A c \in Calls : RequestOK(c), [Next]_vars
  PROVE  TypeOK'
  BY InvitingTyped, EnteringTyped, ManagingTyped, OtherStepsTyped DEF Next

-----------------------------------------------------------------------------
(* The owner's role. *)

\* No step loses a project or changes whom an invitation is for.
Monotone ==
  /\ \A x \in Projects : project[x] # "none" => project'[x] # "none"
  /\ DOMAIN invites \subseteq DOMAIN invites'
  /\ \A i \in DOMAIN invites : /\ invites'[i].phone = invites[i].phone
                              /\ invites'[i].project = invites[i].project

LEMMA Frame ==
  ASSUME TypeOK, Monotone, NEW d \in Calls, RequestOK(d), call'[d] = call[d]
  PROVE  RequestOK(d)'
  <1>1. call[d].step \in {"add", "join", "guard", "revoke", "insert", "change", "remove",
                         "archive", "restore", "reopen"} => call[d].project \in Projects
    BY CallShape DEF Is, Assignment, Removal, Lifecycle
  <1>2. QED BY <1>1 DEF RequestOK, Monotone

LEMMA IdleOK ==
  ASSUME NEW c \in Calls, call'[c] = Idle
  PROVE  RequestOK(c)'
  BY DEF RequestOK, Idle

LEMMA SameRows ==
  ASSUME UNCHANGED <<project, invites>>
  PROVE  Monotone /\ (InvitesToOthers => InvitesToOthers')
  BY DEF Monotone, InvitesToOthers

LEMMA SameRoles ==
  ASSUME OwnerRoles, UNCHANGED <<role, project>>
  PROVE  OwnerRoles'
  BY DEF OwnerRoles

LEMMA AnsweredRows ==
  ASSUME TypeOK, InvitesToOthers, UNCHANGED project,
         NEW S, NEW st \in {"open", "expired", "accepted", "revoked"},
         invites' = Answered(S, st)
  PROVE  Monotone /\ InvitesToOthers'
  <1>1. /\ DOMAIN invites' = DOMAIN invites
        /\ \A i \in DOMAIN invites : /\ invites'[i].phone = invites[i].phone
                                    /\ invites'[i].project = invites[i].project
    BY AnsweredTyped
  <1>2. QED BY <1>1 DEF Monotone, InvitesToOthers

LEMMA OtherRole ==
  ASSUME TypeOK, OwnerRoles, UNCHANGED project,
         NEW p \in People, NEW x \in Projects, NEW r \in Roles \cup {"none"},
         p # OwnerOf[x], r # "owner", r # "none" => project[x] # "none",
         role' = [role EXCEPT ![p][x] = r]
  PROVE  OwnerRoles'
  <1>1. ASSUME NEW y \in Projects, NEW q \in People
        PROVE  role'[q][y] = IF q = p /\ y = x THEN r ELSE role[q][y]
    BY DEF TypeOK
  <1>2. QED BY <1>1 DEF OwnerRoles

LEMMA ManagedProject ==
  ASSUME OwnerRoles, NEW a \in People, NEW p \in People, NEW x \in Projects,
         MayManage(a, x), role[p][x] # "owner"
  PROVE  project[x] # "none" /\ p # OwnerOf[x]
  BY TeamAssumption DEF MayManage, OwnerRoles

OwnerInv == TypeOK /\ OwnerRoles /\ InvitesToOthers

LEMMA InvitingSparesOwner ==
  ASSUME OwnerInv, NEW c \in Calls, RequestOK(c), Inviting(c)
  PROVE  Monotone /\ OwnerRoles' /\ InvitesToOthers' /\ RequestOK(c)'
  <1> USE DEF OwnerInv
  <1>1. ASSUME NEW a \in People, NEW p \in People, NEW x \in Projects, NEW r \in Asked,
               BeginInvite(c, a, x, p, r)
        PROVE  Monotone /\ OwnerRoles' /\ InvitesToOthers' /\ RequestOK(c)'
    <2> DEFINE state == [step |-> IF p \in users THEN "add" ELSE "guard",
                         project |-> x, person |-> p, role |-> r]
    <2>1. project[x] # "none" /\ p # OwnerOf[x]
      BY <1>1, ManagedProject DEF BeginInvite
    <2>2. call'[c] = state /\ UNCHANGED <<role, project, invites>>
      BY <1>1 DEF BeginInvite, TypeOK
    <2>3. RequestOK(c)'
      BY <2>1, <2>2 DEF RequestOK
    <2>4. QED BY <2>2, <2>3, SameRows, SameRoles
  <1>2. CASE LockForAdd(c) \/ GuardInvite(c)
    <2>1. PICK s \in {"join", "revoke"} : call' = [call EXCEPT ![c].step = s]
      BY <1>2 DEF LockForAdd, GuardInvite
    <2>2. call[c] \in Assignment
      BY <1>2, CallShape DEF LockForAdd, GuardInvite, Is
    <2>3. UNCHANGED <<role, project, invites>>
      BY <1>2 DEF LockForAdd, GuardInvite
    <2>4. /\ call'[c].step = s /\ call'[c].project = call[c].project
          /\ call'[c].person = call[c].person
      BY <2>1, <2>2, AdvancesTyped
    <2>5. RequestOK(c)'
      BY <2>2, <2>3, <2>4 DEF RequestOK, Assignment
    <2>6. QED BY <2>3, <2>5, SameRows, SameRoles
  <1>3. CASE CommitAdd(c)
    <2>1. call[c] \in Assignment /\ call[c].person # OwnerOf[call[c].project]
          /\ project[call[c].project] # "none"
      BY <1>3, CallShape DEF CommitAdd, Is, RequestOK
    <2>2. Monotone /\ InvitesToOthers'
      BY <1>3, AnsweredRows DEF CommitAdd
    <2>3. OwnerRoles'
      BY <1>3, <2>1, OtherRole, AssignableRoles DEF CommitAdd, Assignment
    <2>4. call'[c] = Idle
      BY <1>3 DEF CommitAdd, TypeOK
    <2>5. QED BY <2>2, <2>3, <2>4, IdleOK
  <1>4. CASE RevokePrevious(c)
    <2>1. call[c] \in Assignment
      BY <1>4, CallShape DEF RevokePrevious, Is
    <2>2. Monotone /\ InvitesToOthers'
      BY <1>4, AnsweredRows DEF RevokePrevious
    <2>3. UNCHANGED <<role, project>>
      BY <1>4 DEF RevokePrevious
    <2>4. /\ call'[c].step = "insert" /\ call'[c].project = call[c].project
          /\ call'[c].person = call[c].person
      BY <1>4, <2>1, AdvancesTyped DEF RevokePrevious
    <2>5. call[c].step = "revoke"
      BY <1>4 DEF RevokePrevious, Is
    <2>6. RequestOK(c)'
      BY <2>3, <2>4, <2>5 DEF RequestOK
    <2>7. QED BY <2>2, <2>3, <2>6, SameRoles
  <1>5. CASE InsertInvite(c)
    <2> DEFINE row == [project |-> call[c].project, phone |-> call[c].person,
                       role |-> call[c].role, status |-> "open"]
    <2>1. call[c] \in Assignment /\ call[c].person # OwnerOf[call[c].project]
          /\ project[call[c].project] # "none"
      BY <1>5, CallShape DEF InsertInvite, Is, RequestOK
    <2>2. row \in InviteRow
      BY <2>1 DEF Assignment, InviteRow
    <2>3. invites \in Seq(InviteRow) /\ invites' = Append(invites, row)
      BY <1>5 DEF InsertInvite, TypeOK
    <2>4. DOMAIN invites = 1..Len(invites) /\ Len(invites) \in Nat
      BY <2>3, LenProperties
    <2>5. /\ DOMAIN invites' = 1..(Len(invites) + 1)
          /\ \A i \in DOMAIN invites : invites'[i] = invites[i]
          /\ invites'[Len(invites) + 1] = row
      BY <2>2, <2>3, <2>4, AppendProperties, LenProperties
    <2>6. UNCHANGED <<role, project>>
      BY <1>5 DEF InsertInvite
    <2>7. Monotone
      BY <2>4, <2>5, <2>6 DEF Monotone
    <2>8. InvitesToOthers'
      <3>1. ASSUME NEW i \in DOMAIN invites'
            PROVE  /\ invites'[i].phone # OwnerOf[invites'[i].project]
                   /\ project'[invites'[i].project] # "none"
        <4>1. CASE i \in DOMAIN invites
          BY <2>5, <2>6, <4>1 DEF InvitesToOthers
        <4>2. CASE i = Len(invites) + 1
          BY <2>1, <2>5, <2>6, <4>2
        <4>3. QED BY <2>4, <2>5, <3>1, <4>1, <4>2
      <3>2. QED BY <3>1 DEF InvitesToOthers
    <2>9. call'[c] = Idle
      BY <1>5 DEF InsertInvite, TypeOK
    <2>10. QED BY <2>6, <2>7, <2>8, <2>9, SameRoles, IdleOK
  <1>6. QED BY <1>1, <1>2, <1>3, <1>4, <1>5 DEF Inviting

LEMMA EnteringSparesOwner ==
  ASSUME OwnerInv, NEW c \in Calls, RequestOK(c), Entering(c)
  PROVE  Monotone /\ OwnerRoles' /\ InvitesToOthers' /\ RequestOK(c)'
  <1> USE DEF OwnerInv
  <1>1. ASSUME NEW i \in DOMAIN invites, BeginAccept(c, i)
        PROVE  Monotone /\ OwnerRoles' /\ InvitesToOthers' /\ RequestOK(c)'
    <2>1. call'[c] = [step |-> "accept", person |-> invites[i].phone, invite |-> i]
      BY <1>1 DEF BeginAccept, TypeOK
    <2>2. UNCHANGED <<role, project, invites>>
      BY <1>1 DEF BeginAccept
    <2>3. RequestOK(c)'
      BY <2>1, <2>2 DEF RequestOK
    <2>4. QED BY <2>2, <2>3, SameRows, SameRoles
  <1>2. ASSUME NEW i \in DOMAIN invites, LoginInvite(c, i)
        PROVE  Monotone /\ OwnerRoles' /\ InvitesToOthers' /\ RequestOK(c)'
    <2>1. call[c] \in Login /\ Is(c, "login") /\ i \in call[c].todo
      BY <1>2, CallShape DEF LoginInvite, Oldest
    <2>2. i \in call[c].held /\ invites[i].phone = call[c].person
      BY <2>1 DEF RequestOK, Is
    <2> DEFINE x == invites[i].project
               tried == [call[c] EXCEPT !.todo = @ \ {i}, !.seen = @ \cup {x}]
               own == IF call[c].join[x] = "none" THEN 0 ELSE 1
               new == own = 0 /\ role[call[c].person][x] = "none"
               r == IF new THEN invites[i].role ELSE tried.join[x]
               joined == [tried EXCEPT !.taken = @ \cup {i}, !.join[x] = r]
    <2>3. call'[c] = tried \/ call'[c] = joined
      BY <1>2 DEF LoginInvite, TypeOK
    <2>4. UNCHANGED <<role, project, invites>>
      BY <1>2 DEF LoginInvite
    <2>5. call[c].person # OwnerOf[x] /\ project[x] # "none"
      BY <2>2 DEF InvitesToOthers
    <2>6. /\ tried.step = "login" /\ tried.person = call[c].person
          /\ tried.held = call[c].held /\ tried.todo \subseteq call[c].todo
          /\ tried.taken = call[c].taken /\ tried.join = call[c].join
      BY <2>1 DEF Login, Is
    <2>7. /\ joined.step = "login" /\ joined.person = call[c].person
          /\ joined.held = call[c].held /\ joined.todo \subseteq call[c].todo
          /\ joined.taken = call[c].taken \cup {i}
          /\ \A y \in Projects : y # x => joined.join[y] = call[c].join[y]
      BY <2>1, <2>6 DEF Login
    <2>8. /\ call[c].held \subseteq DOMAIN invites
          /\ call[c].todo \subseteq call[c].held /\ call[c].taken \subseteq call[c].held
          /\ \A j \in call[c].held : invites[j].phone = call[c].person
          /\ \A y \in Projects : call[c].join[y] # "none" =>
               call[c].person # OwnerOf[y] /\ project[y] # "none"
      BY <2>1 DEF RequestOK, Is
    <2>9. CASE call'[c] = tried
      BY <2>4, <2>6, <2>8, <2>9, SameRows, SameRoles DEF RequestOK
    <2>10. CASE call'[c] = joined
      <3>1. \A y \in Projects : joined.join[y] # "none" =>
              call[c].person # OwnerOf[y] /\ project[y] # "none"
        BY <2>5, <2>7, <2>8
      <3>2. call[c].taken \cup {i} \subseteq call[c].held
        BY <2>2, <2>8
      <3> HIDE DEF joined
      <3>3. RequestOK(c)'
        BY <2>4, <2>7, <2>8, <2>10, <3>1, <3>2 DEF RequestOK
      <3>4. QED BY <2>4, <3>3, SameRows, SameRoles
    <2>11. QED BY <2>3, <2>9, <2>10
  <1>3. CASE LockForAccept(c)
    <2>1. call[c] \in Acceptance /\ call[c].step = "accept"
      BY <1>3, CallShape DEF LockForAccept, Is
    <2>2. UNCHANGED <<role, project, invites>>
      BY <1>3 DEF LockForAccept
    <2>3. /\ call'[c].step = "enter" /\ call'[c].invite = call[c].invite
          /\ call'[c].person = call[c].person
      BY <1>3, <2>1, AdvancesTyped DEF LockForAccept
    <2>4. RequestOK(c)'
      BY <2>1, <2>2, <2>3 DEF RequestOK
    <2>5. QED BY <2>2, <2>4, SameRows, SameRoles
  <1>4. CASE CommitAccept(c)
    <2> DEFINE i == call[c].invite
    <2>1. /\ call[c] \in Acceptance /\ i \in DOMAIN invites
          /\ invites[i].phone = call[c].person
      BY <1>4, CallShape DEF CommitAccept, Is, RequestOK
    <2>2. invites[i] \in InviteRow
      BY <2>1, InviteTyped
    <2>3. /\ call[c].person # OwnerOf[invites[i].project]
          /\ project[invites[i].project] # "none"
      BY <2>1 DEF InvitesToOthers
    <2>4. Monotone /\ InvitesToOthers'
      BY <1>4, AnsweredRows DEF CommitAccept
    <2>5. OwnerRoles'
      <3> DEFINE p == call[c].person
                 x == invites[i].project
                 r == invites[i].role
      <3>1. p \in People /\ x \in Projects /\ r \in Assignable
        BY <2>1, <2>2 DEF Acceptance, InviteRow
      <3>2. role' = [role EXCEPT ![p][x] = r] /\ UNCHANGED project
        BY <1>4 DEF CommitAccept
      <3>3. p # OwnerOf[x] /\ project[x] # "none" /\ r # "owner" /\ r \in Roles
        BY <2>3, <3>1, AssignableRoles
      <3> HIDE DEF p, x, r
      <3>4. QED BY <3>1, <3>2, <3>3, OtherRole
    <2>6. call'[c] = Idle
      BY <1>4 DEF CommitAccept, TypeOK
    <2>7. QED BY <2>4, <2>5, <2>6, IdleOK
  <1>5. ASSUME NEW p \in People, BeginLogin(c, p)
        PROVE  Monotone /\ OwnerRoles' /\ InvitesToOthers' /\ RequestOK(c)'
    <2> DEFINE mine == {i \in DOMAIN invites : invites[i].phone = p /\ invites[i].status = "open"}
    <2>1. call'[c] = [step |-> "login", person |-> p, held |-> mine, todo |-> mine,
                      taken |-> {}, seen |-> {}, join |-> [x \in Projects |-> "none"]]
      BY <1>5 DEF BeginLogin, TypeOK
    <2>2. UNCHANGED <<role, project, invites>>
      BY <1>5 DEF BeginLogin
    <2>3. RequestOK(c)'
      BY <2>1, <2>2 DEF RequestOK
    <2>4. QED BY <2>2, <2>3, SameRows, SameRoles
  <1>6. CASE CommitLogin(c)
    <2> DEFINE p == call[c].person
    <2>1. call[c] \in Login /\ Is(c, "login")
      BY <1>6, CallShape DEF CommitLogin
    <2>2. \A x \in Projects : call[c].join[x] # "none" =>
            p # OwnerOf[x] /\ project[x] # "none" /\ call[c].join[x] # "owner"
      BY <2>1, AssignableRoles DEF RequestOK, Is, Login
    <2>3. \A q \in People, x \in Projects :
            role'[q][x] = IF q = p /\ call[c].join[x] # "none" THEN call[c].join[x]
                                                             ELSE role[q][x]
      BY <1>6, <2>1 DEF CommitLogin, TypeOK, Login
    <2>4. UNCHANGED project
      BY <1>6 DEF CommitLogin
    <2>5. OwnerRoles'
      BY <2>2, <2>3, <2>4 DEF OwnerRoles
    <2>6. Monotone /\ InvitesToOthers'
      BY <1>6, AnsweredRows DEF CommitLogin
    <2>7. call'[c] = Idle
      BY <1>6 DEF CommitLogin, TypeOK
    <2>8. QED BY <2>5, <2>6, <2>7, IdleOK
  <1>7. QED BY <1>1, <1>2, <1>3, <1>4, <1>5, <1>6 DEF Entering

LEMMA ManagingSparesOwner ==
  ASSUME OwnerInv, NEW c \in Calls, RequestOK(c), Managing(c)
  PROVE  Monotone /\ OwnerRoles' /\ InvitesToOthers' /\ RequestOK(c)'
  <1> USE DEF OwnerInv
  <1>1. ASSUME NEW a \in People, NEW p \in People, NEW x \in Projects, BeginMember(c, a, x, p)
        PROVE  Monotone /\ OwnerRoles' /\ InvitesToOthers' /\ RequestOK(c)'
    <2>1. project[x] # "none" /\ p # OwnerOf[x]
      BY <1>1, ManagedProject DEF BeginMember
    <2>2. call'[c].step \in {"change", "remove"} /\ call'[c].project = x /\ call'[c].person = p
      BY <1>1 DEF BeginMember, TypeOK
    <2>3. UNCHANGED <<role, project, invites>>
      BY <1>1 DEF BeginMember
    <2>4. RequestOK(c)'
      BY <2>1, <2>2, <2>3 DEF RequestOK
    <2>5. QED BY <2>3, <2>4, SameRows, SameRoles
  <1>2. CASE SetRole(c) \/ RemoveMember(c)
    <2> DEFINE p == call[c].person
               x == call[c].project
    <2>1. p \in People /\ x \in Projects /\ p # OwnerOf[x] /\ project[x] # "none"
      BY <1>2, CallShape DEF SetRole, RemoveMember, Is, Assignment, Removal, RequestOK
    <2>2. PICK r \in Assignable \cup {"none"} : role' = [role EXCEPT ![p][x] = r]
      <3>1. CASE SetRole(c)
        <4>1. call[c].role \in Assignable
          BY <3>1, CallShape DEF SetRole, Is, Assignment
        <4>2. role' = [role EXCEPT ![p][x] = IF role[p][x] = "none" THEN "none" ELSE call[c].role]
          BY <2>1, <3>1 DEF SetRole, TypeOK
        <4>3. QED BY <4>1, <4>2
      <3>2. CASE RemoveMember(c)
        BY <3>2 DEF RemoveMember
      <3>3. QED BY <1>2, <3>1, <3>2
    <2>3. UNCHANGED <<project, invites>> /\ call'[c] = Idle
      BY <1>2 DEF SetRole, RemoveMember, TypeOK
    <2>4. OwnerRoles'
      BY <2>1, <2>2, <2>3, OtherRole, AssignableRoles
    <2>5. QED BY <2>3, <2>4, SameRows, IdleOK
  <1>3. ASSUME NEW x \in Projects, BeginCreate(c, x)
        PROVE  Monotone /\ OwnerRoles' /\ InvitesToOthers' /\ RequestOK(c)'
    <2>1. call'[c] = [step |-> "create", project |-> x] /\ UNCHANGED <<role, project, invites>>
      BY <1>3 DEF BeginCreate, TypeOK
    <2>2. QED BY <2>1, SameRows, SameRoles DEF RequestOK
  <1>4. ASSUME NEW a \in People, NEW x \in Projects,
               BeginArchive(c, a, x) \/ BeginRestore(c, a, x)
        PROVE  Monotone /\ OwnerRoles' /\ InvitesToOthers' /\ RequestOK(c)'
    <2>1. PICK s \in {"archive", "restore"} : call'[c] = [step |-> s, project |-> x]
      BY <1>4 DEF BeginArchive, BeginRestore, TypeOK
    <2>2. UNCHANGED <<role, project, invites>>
      BY <1>4 DEF BeginArchive, BeginRestore
    <2>3. project[x] # "none"
      <3>1. CASE BeginArchive(c, a, x)
        BY <3>1 DEF BeginArchive, MayManage
      <3>2. CASE BeginRestore(c, a, x)
        <4>1. role[a][x] \in {"owner", "manager"}
          BY <3>2 DEF BeginRestore, Manages
        <4>2. QED BY <4>1 DEF OwnerRoles
      <3>3. QED BY <1>4, <3>1, <3>2
    <2>4. RequestOK(c)'
      BY <2>1, <2>2, <2>3 DEF RequestOK
    <2>5. QED BY <2>2, <2>4, SameRows, SameRoles
  <1>5. CASE CommitCreate(c)
    <2> DEFINE x == call[c].project
    <2>1. x \in Projects /\ OwnerOf[x] \in People
      BY <1>5, CallShape, TeamAssumption DEF CommitCreate, Is, Lifecycle
    <2>2. /\ \A q \in People, y \in Projects :
               role'[q][y] = IF q = OwnerOf[x] /\ y = x THEN "owner" ELSE role[q][y]
          /\ \A y \in Projects : project'[y] = IF y = x THEN "active" ELSE project[y]
          /\ UNCHANGED invites /\ call'[c] = Idle
      BY <1>5, <2>1 DEF CommitCreate, TypeOK
    <2>3. OwnerRoles'
      BY <2>1, <2>2 DEF OwnerRoles
    <2>4. \A i \in DOMAIN invites : invites[i].project \in Projects
      BY InviteTyped DEF InviteRow
    <2>5. Monotone /\ InvitesToOthers'
      BY <2>2, <2>4 DEF Monotone, InvitesToOthers
    <2>6. QED BY <2>2, <2>3, <2>5, IdleOK
  <1>6. CASE ArchiveProject(c) \/ CommitRestore(c)
    <2> DEFINE x == call[c].project
    <2>1. x \in Projects /\ project[x] # "none"
      BY <1>6, CallShape DEF ArchiveProject, CommitRestore, Is, Lifecycle, RequestOK
    <2>2. PICK s \in {"archived", "active"} : project' = [project EXCEPT ![x] = s]
      BY <1>6 DEF ArchiveProject, CommitRestore
    <2>3. UNCHANGED <<role, invites>> /\ call'[c] = Idle
      BY <1>6 DEF ArchiveProject, CommitRestore, TypeOK
    <2>4. \A y \in Projects : project'[y] = IF y = x THEN s ELSE project[y]
      BY <2>1, <2>2 DEF TypeOK
    <2>5. OwnerRoles'
      BY <2>1, <2>3, <2>4 DEF OwnerRoles
    <2>6. \A i \in DOMAIN invites : invites[i].project \in Projects
      BY InviteTyped DEF InviteRow
    <2>7. Monotone /\ InvitesToOthers'
      BY <2>3, <2>4, <2>6 DEF Monotone, InvitesToOthers
    <2>8. QED BY <2>3, <2>5, <2>7, IdleOK
  <1>7. CASE LockRestore(c)
    <2>1. call[c] \in Lifecycle /\ call[c].step = "restore"
      BY <1>7, CallShape DEF LockRestore, Is
    <2>2. UNCHANGED <<role, project, invites>>
      BY <1>7 DEF LockRestore
    <2>3. call'[c].step = "reopen" /\ call'[c].project = call[c].project
      BY <1>7, <2>1, AdvancesTyped DEF LockRestore
    <2>4. RequestOK(c)'
      BY <2>1, <2>2, <2>3 DEF RequestOK
    <2>5. QED BY <2>2, <2>4, SameRows, SameRoles
  <1>8. QED BY <1>1, <1>2, <1>3, <1>4, <1>5, <1>6, <1>7 DEF Managing

\* Every step of a request leaves the others where they are.
LEMMA OneMoves ==
  ASSUME TypeOK, NEW c \in Calls, Inviting(c) \/ Entering(c) \/ Managing(c) \/ Abort(c)
  PROVE  \A d \in Calls \ {c} : call'[d] = call[d]
  <1>1. CASE Inviting(c)
    BY <1>1 DEF Inviting, BeginInvite, LockForAdd, CommitAdd, GuardInvite, RevokePrevious,
                InsertInvite, TypeOK
  <1>2. CASE Entering(c)
    BY <1>2 DEF Entering, BeginAccept, LoginInvite, LockForAccept, CommitAccept, BeginLogin,
                CommitLogin, TypeOK
  <1>3. CASE Managing(c)
    BY <1>3 DEF Managing, BeginMember, SetRole, RemoveMember, BeginCreate, BeginArchive,
                BeginRestore, CommitCreate, ArchiveProject, LockRestore, CommitRestore, TypeOK
  <1>4. CASE Abort(c)
    BY <1>4 DEF Abort, TypeOK
  <1>5. QED BY <1>1, <1>2, <1>3, <1>4

LEMMA TeamStep ==
  ASSUME TeamInv, [Next]_vars
  PROVE  TeamInv'
  <1>1. TypeOK'
    BY TypeStep DEF TeamInv
  <1> DEFINE Goal == OwnerRoles' /\ InvitesToOthers' /\ \A c \in Calls : RequestOK(c)'
  <1>2. ASSUME NEW c \in Calls, Inviting(c) \/ Entering(c) \/ Managing(c) \/ Abort(c)
        PROVE  Goal
    <2>1. Monotone /\ OwnerRoles' /\ InvitesToOthers' /\ RequestOK(c)'
      <3>1. CASE Abort(c)
        <4>1. UNCHANGED <<role, project, invites>> /\ call'[c] = Idle
          BY <3>1 DEF Abort, TeamInv, TypeOK
        <4>2. QED BY <4>1, SameRows, SameRoles, IdleOK DEF TeamInv
      <3>2. QED
        BY <1>2, <3>1, InvitingSparesOwner, EnteringSparesOwner, ManagingSparesOwner
          DEF TeamInv, OwnerInv
    <2>2. ASSUME NEW d \in Calls, d # c PROVE RequestOK(d)'
      BY <1>2, <2>1, <2>2, OneMoves, Frame DEF TeamInv
    <2>3. QED BY <2>1, <2>2
  <1>3. ASSUME UNCHANGED <<role, project, call>>, Monotone /\ InvitesToOthers'
        PROVE  Goal
    <2>1. OwnerRoles'
      BY <1>3, SameRoles DEF TeamInv
    <2>2. ASSUME NEW d \in Calls PROVE RequestOK(d)'
      BY <1>3, Frame DEF TeamInv
    <2>3. QED BY <1>3, <2>1, <2>2
  <1>4. ASSUME NEW i \in DOMAIN invites, ExpireInvite(i) PROVE Goal
    <2>1. Monotone /\ InvitesToOthers'
      BY <1>4, AnsweredRows DEF ExpireInvite, TeamInv
    <2>2. QED BY <1>3, <1>4, <2>1 DEF ExpireInvite
  <1>5. ASSUME UNCHANGED <<role, project, invites, call>> PROVE Goal
    BY <1>3, <1>5, SameRows DEF TeamInv
  <1>6. Goal
    BY <1>2, <1>4, <1>5 DEF Next, ChangePlan, vars
  <1>7. QED BY <1>1, <1>6 DEF TeamInv

LEMMA TeamInit ==
  ASSUME Init
  PROVE  TeamInv
  <1>1. TypeOK
    BY TeamAssumption, EmptySeq DEF Init, TypeOK, Roles, Idle
  <1>2. OwnerRoles /\ InvitesToOthers
    BY DEF Init, OwnerRoles, InvitesToOthers
  <1>3. ASSUME NEW c \in Calls PROVE RequestOK(c)
    BY DEF Init, RequestOK, Idle
  <1>4. QED BY <1>1, <1>2, <1>3 DEF TeamInv

LEMMA TeamInvariant == Spec => []TeamInv
  BY TeamInit, TeamStep, PTL DEF Spec

\* No sequence of requests stores a role, a row or an invitation outside its
\* type; in particular nobody is ever asked to become an owner (project_team.go).
THEOREM TeamTypeCorrect == Spec => []TypeOK
  <1>1. TeamInv => TypeOK
    BY DEF TeamInv
  <1>2. QED BY <1>1, TeamInvariant, PTL

\* A project keeps exactly one owner, the account that created it: the handlers
\* that overwrite, set or remove roles after an unlocked check never reach it.
THEOREM OneOwner == Spec => []OwnerKeepsRole
  <1>1. TeamInv => OwnerKeepsRole
    BY TeamAssumption DEF TeamInv, OwnerRoles, OwnerKeepsRole
  <1>2. QED BY <1>1, TeamInvariant, PTL

-----------------------------------------------------------------------------
(* The answers to invitations: an accepted or revoked one stays as it is,  *)
(* because every handler that answers one holds its row, or waits for it,  *)
(* and looks at it again when it has it.                                   *)

\* A locked invitation is unanswered, and one request has it locked.
HeldUnanswered ==
  \A c \in Calls : \A i \in HeldInvites(c) :
    i \in DOMAIN invites /\ invites[i].status \in Unanswered
HeldOnce ==
  \A c, d \in Calls : c # d => HeldInvites(c) \cap HeldInvites(d) = {}

LockInv == HeldUnanswered /\ HeldOnce

\* What a step may do to the rows.
FinalKept ==
  \A i \in DOMAIN invites :
    invites[i].status \in {"accepted", "revoked"} => invites'[i] = invites[i]

LEMMA Held ==
  ASSUME NEW c \in Calls
  PROVE  /\ call[c].step \in {"accept", "enter"} => HeldInvites(c) = {call[c].invite}
         /\ call[c].step = "login" => HeldInvites(c) = call[c].held
         /\ call[c].step \notin {"accept", "enter", "login"} => HeldInvites(c) = {}
  BY DEF HeldInvites, Is

LEMMA HeldNext ==
  ASSUME NEW c \in Calls
  PROVE  /\ call'[c].step \in {"accept", "enter"} => HeldInvites(c)' = {call'[c].invite}
         /\ call'[c].step = "login" => HeldInvites(c)' = call'[c].held
         /\ call'[c].step \notin {"accept", "enter", "login"} => HeldInvites(c)' = {}
         /\ call'[c] = call[c] => HeldInvites(c)' = HeldInvites(c)
  BY DEF HeldInvites, Is

\* The one argument all steps share: what c takes is free and unanswered, and
\* what the others hold stays unanswered.
LEMMA LockFrame ==
  ASSUME LockInv, NEW c \in Calls,
         \A d \in Calls \ {c} : call'[d] = call[d],
         \A i \in HeldInvites(c)' :
           /\ i \in DOMAIN invites' /\ invites'[i].status \in Unanswered
           /\ InviteFree(i, c),
         \A d \in Calls \ {c} : \A i \in HeldInvites(d) :
           i \in DOMAIN invites' /\ invites'[i].status \in Unanswered
  PROVE  LockInv'
  <1>1. \A d \in Calls \ {c} : HeldInvites(d)' = HeldInvites(d)
    BY HeldNext
  <1>2. HeldUnanswered'
    BY <1>1 DEF HeldUnanswered
  <1>3. ASSUME NEW d \in Calls, NEW e \in Calls, d # e
        PROVE  HeldInvites(d)' \cap HeldInvites(e)' = {}
    <2>1. CASE d # c /\ e # c
      BY <1>1, <1>3, <2>1 DEF LockInv, HeldOnce
    <2>2. CASE d = c
      BY <1>1, <1>3, <2>2 DEF InviteFree
    <2>3. CASE e = c
      BY <1>1, <1>3, <2>3 DEF InviteFree
    <2>4. QED BY <2>1, <2>2, <2>3
  <1>4. QED BY <1>2, <1>3 DEF LockInv, HeldOnce

\* A step that answers the invitations S, which no other request holds, and
\* leaves c holding none.
LEMMA AnswerFrame ==
  ASSUME TypeOK, LockInv, NEW c \in Calls,
         \A d \in Calls \ {c} : call'[d] = call[d],
         call'[c].step \notin {"accept", "enter", "login"},
         NEW S, NEW st \in {"accepted", "revoked"},
         invites' = Answered(S, st),
         \A i \in S : InviteFree(i, c),
         \A i \in S \cap DOMAIN invites : invites[i].status \in Unanswered
  PROVE  LockInv' /\ FinalKept
  <1>1. /\ DOMAIN invites' = DOMAIN invites
        /\ \A i \in DOMAIN invites : i \notin S => invites'[i] = invites[i]
    BY AnsweredTyped
  <1>2. HeldInvites(c)' = {}
    BY HeldNext
  <1>3. \A d \in Calls \ {c} : \A i \in HeldInvites(d) : i \notin S
    BY DEF InviteFree
  <1>4. \A d \in Calls \ {c} : \A i \in HeldInvites(d) :
          i \in DOMAIN invites' /\ invites'[i].status \in Unanswered
    BY <1>1, <1>3 DEF LockInv, HeldUnanswered
  <1>5. LockInv'
    BY <1>2, <1>4, LockFrame
  <1>6. FinalKept
    BY <1>1 DEF FinalKept, Unanswered
  <1>7. QED BY <1>5, <1>6

\* A step that only moves c and takes no invitation.
LEMMA MoveFrame ==
  ASSUME LockInv, NEW c \in Calls, UNCHANGED invites,
         \A d \in Calls \ {c} : call'[d] = call[d],
         HeldInvites(c)' \subseteq HeldInvites(c)
  PROVE  LockInv' /\ FinalKept
  <1>1. \A d \in Calls : \A i \in HeldInvites(d) :
          i \in DOMAIN invites' /\ invites'[i].status \in Unanswered
    BY DEF LockInv, HeldUnanswered
  <1>2. \A i \in HeldInvites(c)' : InviteFree(i, c)
    BY DEF LockInv, HeldOnce, InviteFree
  <1>3. LockInv'
    BY <1>1, <1>2, LockFrame
  <1>4. QED BY <1>3 DEF FinalKept

LEMMA InvitingAnswersOnce ==
  ASSUME TypeOK, LockInv, NEW c \in Calls, Inviting(c)
  PROVE  LockInv' /\ FinalKept
  <1>0. \A d \in Calls \ {c} : call'[d] = call[d]
    BY OneMoves
  <1>1. ASSUME NEW a \in People, NEW p \in People, NEW x \in Projects, NEW r \in Asked,
               BeginInvite(c, a, x, p, r)
        PROVE  LockInv' /\ FinalKept
    <2>1. call'[c].step \in {"add", "guard"} /\ UNCHANGED invites
      BY <1>1 DEF BeginInvite, TypeOK
    <2>2. QED BY <1>0, <2>1, HeldNext, MoveFrame
  <1>2. CASE LockForAdd(c) \/ GuardInvite(c)
    <2>1. call'[c].step \in {"join", "revoke"} /\ UNCHANGED invites
      BY <1>2, CallShape, AdvancesTyped DEF LockForAdd, GuardInvite, Is
    <2>2. QED BY <1>0, <2>1, HeldNext, MoveFrame
  <1>3. CASE CommitAdd(c) \/ RevokePrevious(c)
    <2> DEFINE S == PreviousInvites(call[c].project, call[c].person)
    <2>1. \A i \in S : InviteFree(i, c)
      BY <1>3 DEF CommitAdd, RevokePrevious
    <2>2. \A i \in S : invites[i].status \in Unanswered
      BY DEF PreviousInvites
    <2>3. invites' = Answered(S, "revoked")
      BY <1>3 DEF CommitAdd, RevokePrevious
    <2>4. call'[c].step \in {"idle", "insert"}
      <3>1. CASE CommitAdd(c)
        BY <3>1 DEF CommitAdd, TypeOK, Idle
      <3>2. CASE RevokePrevious(c)
        BY <3>2, CallShape, AdvancesTyped DEF RevokePrevious, Is
      <3>3. QED BY <1>3, <3>1, <3>2
    <2> HIDE DEF S
    <2>5. QED BY <1>0, <2>1, <2>2, <2>3, <2>4, AnswerFrame
  <1>4. CASE InsertInvite(c)
    <2> DEFINE row == [project |-> call[c].project, phone |-> call[c].person,
                       role |-> call[c].role, status |-> "open"]
    <2>1. row \in InviteRow
      BY <1>4, CallShape DEF InsertInvite, Is, Assignment, InviteRow
    <2>2. invites \in Seq(InviteRow) /\ invites' = Append(invites, row)
      BY <1>4 DEF InsertInvite, TypeOK
    <2>3. DOMAIN invites = 1..Len(invites) /\ Len(invites) \in Nat
      BY <2>2, LenProperties
    <2>4. /\ DOMAIN invites \subseteq DOMAIN invites'
          /\ \A i \in DOMAIN invites : invites'[i] = invites[i]
      BY <2>1, <2>2, <2>3, AppendProperties, LenProperties
    <2>5. call'[c].step = "idle"
      BY <1>4 DEF InsertInvite, TypeOK, Idle
    <2>6. \A d \in Calls \ {c} : \A i \in HeldInvites(d) :
            i \in DOMAIN invites' /\ invites'[i].status \in Unanswered
      BY <2>4 DEF LockInv, HeldUnanswered
    <2>7. LockInv'
      BY <1>0, <2>5, <2>6, HeldNext, LockFrame
    <2>8. QED BY <2>4, <2>7 DEF FinalKept
  <1>5. QED BY <1>1, <1>2, <1>3, <1>4 DEF Inviting

LEMMA EnteringAnswersOnce ==
  ASSUME TypeOK, LockInv, NEW c \in Calls, RequestOK(c), Entering(c)
  PROVE  LockInv' /\ FinalKept
  <1>0. /\ \A d \in Calls \ {c} : call'[d] = call[d]
        /\ \A i \in HeldInvites(c) : InviteFree(i, c)
        /\ \A d \in Calls : \A i \in HeldInvites(d) :
             i \in DOMAIN invites /\ invites[i].status \in Unanswered
    BY OneMoves DEF LockInv, HeldUnanswered, HeldOnce, InviteFree
  <1>1. ASSUME NEW i \in DOMAIN invites, BeginAccept(c, i)
        PROVE  LockInv' /\ FinalKept
    <2>1. /\ call'[c].step = "accept" /\ call'[c].invite = i /\ UNCHANGED invites
          /\ invites[i].status = "open" /\ InviteFree(i, c)
      BY <1>1 DEF BeginAccept, TypeOK
    <2>2. HeldInvites(c)' = {i}
      BY <2>1, HeldNext
    <2>3. LockInv'
      BY <1>0, <2>1, <2>2, LockFrame DEF Unanswered
    <2>4. QED BY <2>1, <2>3 DEF FinalKept
  <1>2. ASSUME NEW i \in DOMAIN invites, LoginInvite(c, i)
        PROVE  LockInv' /\ FinalKept
    <2>1. call[c] \in Login /\ Is(c, "login")
      BY <1>2, CallShape DEF LoginInvite
    <2> DEFINE x == invites[i].project
               tried == [call[c] EXCEPT !.todo = @ \ {i}, !.seen = @ \cup {x}]
               own == IF call[c].join[x] = "none" THEN 0 ELSE 1
               new == own = 0 /\ role[call[c].person][x] = "none"
               r == IF new THEN invites[i].role ELSE tried.join[x]
               joined == [tried EXCEPT !.taken = @ \cup {i}, !.join[x] = r]
    <2>2. call'[c] = tried \/ call'[c] = joined
      BY <1>2 DEF LoginInvite, TypeOK
    <2>3. tried.step = "login" /\ tried.held = call[c].held
      BY <2>1 DEF Login, Is
    <2>4. joined.step = "login" /\ joined.held = call[c].held
      BY <2>1, <2>3 DEF Login
    <2> HIDE DEF tried, joined
    <2>5. HeldInvites(c)' = HeldInvites(c)
      <3>1. call'[c].step = "login" /\ call'[c].held = call[c].held
        BY <2>2, <2>3, <2>4
      <3>2. QED BY <2>1, <3>1, Held, HeldNext DEF Is
    <2>6. UNCHANGED invites
      BY <1>2 DEF LoginInvite
    <2>7. QED BY <1>0, <2>5, <2>6, MoveFrame
  <1>3. CASE LockForAccept(c)
    <2>1. call[c] \in Acceptance /\ call[c].step = "accept" /\ UNCHANGED invites
      BY <1>3, CallShape DEF LockForAccept, Is
    <2>2. call'[c].step = "enter" /\ call'[c].invite = call[c].invite
      BY <1>3, <2>1, AdvancesTyped DEF LockForAccept
    <2>3. HeldInvites(c)' = HeldInvites(c)
      BY <2>1, <2>2, Held, HeldNext
    <2>4. QED BY <1>0, <2>1, <2>3, MoveFrame
  <1>4. CASE CommitAccept(c)
    <2>1. HeldInvites(c) = {call[c].invite}
      BY <1>4, Held DEF CommitAccept, Is
    <2>2. call'[c].step = "idle" /\ invites' = Answered(HeldInvites(c), "accepted")
      BY <1>4, <2>1 DEF CommitAccept, TypeOK, Idle
    <2>3. QED BY <1>0, <2>2, AnswerFrame
  <1>5. ASSUME NEW p \in People, BeginLogin(c, p)
        PROVE  LockInv' /\ FinalKept
    <2> DEFINE mine == {i \in DOMAIN invites : invites[i].phone = p /\ invites[i].status = "open"}
    <2>1. /\ call'[c].step = "login" /\ call'[c].held = mine /\ UNCHANGED invites
          /\ \A i \in mine : InviteFree(i, c)
      BY <1>5 DEF BeginLogin, TypeOK
    <2>2. HeldInvites(c)' = mine
      BY <2>1, HeldNext
    <2>3. \A i \in mine : i \in DOMAIN invites' /\ invites'[i].status \in Unanswered
      BY <2>1 DEF Unanswered
    <2> HIDE DEF mine
    <2>4. LockInv'
      BY <1>0, <2>1, <2>2, <2>3, LockFrame
    <2>5. QED BY <2>1, <2>4 DEF FinalKept
  <1>6. CASE CommitLogin(c)
    <2>1. HeldInvites(c) = call[c].held /\ call[c].taken \subseteq call[c].held
      BY <1>6, Held DEF CommitLogin, Is, RequestOK
    <2>2. call'[c].step = "idle" /\ invites' = Answered(call[c].taken, "accepted")
      BY <1>6 DEF CommitLogin, TypeOK, Idle
    <2>3. QED BY <1>0, <2>1, <2>2, AnswerFrame
  <1>7. QED BY <1>1, <1>2, <1>3, <1>4, <1>5, <1>6 DEF Entering

LEMMA ManagingAnswersNone ==
  ASSUME TypeOK, LockInv, NEW c \in Calls, Managing(c) \/ Abort(c)
  PROVE  LockInv' /\ FinalKept
  <1>1. UNCHANGED invites
    BY DEF Managing, Abort, BeginMember, SetRole, RemoveMember, BeginCreate, BeginArchive,
           BeginRestore, CommitCreate, ArchiveProject, LockRestore, CommitRestore
  <1>2. call'[c].step \notin {"accept", "enter", "login"}
    <2>1. CASE LockRestore(c)
      BY <2>1, CallShape, AdvancesTyped DEF LockRestore, Is
    <2>2. CASE ~LockRestore(c)
      BY <2>2 DEF Managing, Abort, BeginMember, SetRole, RemoveMember, BeginCreate,
           BeginArchive, BeginRestore, CommitCreate, ArchiveProject, CommitRestore,
           TypeOK, Idle
    <2>3. QED BY <2>1, <2>2
  <1>3. QED BY <1>1, <1>2, OneMoves, HeldNext, MoveFrame

LEMMA AnswerStep ==
  ASSUME TeamInv, LockInv, [Next]_vars
  PROVE  LockInv' /\ FinalKept
  <1>1. ASSUME NEW c \in Calls, Inviting(c) \/ Entering(c) \/ Managing(c) \/ Abort(c)
        PROVE  LockInv' /\ FinalKept
    BY <1>1, InvitingAnswersOnce, EnteringAnswersOnce, ManagingAnswersNone DEF TeamInv
  <1>2. ASSUME NEW i \in DOMAIN invites, ExpireInvite(i)
        PROVE  LockInv' /\ FinalKept
    <2>1. UNCHANGED call /\ invites[i].status = "open"
      BY <1>2 DEF ExpireInvite
    <2>2. /\ DOMAIN invites' = DOMAIN invites
          /\ \A j \in DOMAIN invites : j # i => invites'[j] = invites[j]
          /\ invites'[i].status = "expired"
      <3>1. invites' = Answered({i}, "expired")
        BY <1>2 DEF ExpireInvite
      <3>2. QED BY <3>1, AnsweredTyped DEF TeamInv
    <2>3. \A c \in Calls : HeldInvites(c)' = HeldInvites(c)
      BY <2>1, HeldNext
    <2>4. LockInv'
      BY <2>2, <2>3 DEF LockInv, HeldUnanswered, HeldOnce, Unanswered
    <2>5. QED BY <2>1, <2>2, <2>4 DEF FinalKept
  <1>3. ASSUME UNCHANGED <<invites, call>>
        PROVE  LockInv' /\ FinalKept
    <2>1. \A c \in Calls : HeldInvites(c)' = HeldInvites(c)
      BY <1>3, HeldNext
    <2>2. QED BY <1>3, <2>1 DEF LockInv, HeldUnanswered, HeldOnce, FinalKept
  <1>4. QED BY <1>1, <1>2, <1>3 DEF Next, ChangePlan, vars

LEMMA LockInit ==
  ASSUME Init
  PROVE  LockInv
  BY Held DEF Init, Idle, LockInv, HeldUnanswered, HeldOnce

\* An invitation that was accepted or revoked is never answered again, whatever
\* logins, acceptances, direct additions and new invitations race for it
\* (auth.go, project_team.go).
THEOREM InvitationsAnsweredOnce == Spec => InvitesFinal
  <1> DEFINE Kept == \A i \in DOMAIN invites :
                       invites[i].status \in {"accepted", "revoked"} => invites'[i] = invites[i]
  <1>1. Init => TeamInv /\ LockInv
    BY TeamInit, LockInit
  <1>2. TeamInv /\ LockInv /\ [Next]_vars => (TeamInv /\ LockInv)'
    BY TeamStep, AnswerStep
  <1>3. TeamInv /\ LockInv /\ [Next]_vars => [Kept]_vars
    BY AnswerStep DEF FinalKept
  <1>4. QED BY <1>1, <1>2, <1>3, PTL DEF Spec, InvitesFinal
-----------------------------------------------------------------------------
(* The limits of a plan: no step makes a project or an account exceed what *)
(* the plan of that moment allows.  The count is taken under row locks and *)
(* used in a later statement; the proof is that nobody else can add to the *)
(* count, or change the plan, while the locks are held.                    *)

\* The projects request c is about to let somebody join, or to activate.
Joining(c) ==
  CASE Is(c, "join") -> {call[c].project}
    [] Is(c, "enter") -> {invites[call[c].invite].project}
    [] Is(c, "login") -> {x \in Projects : call[c].join[x] # "none"}
    [] OTHER -> {}
Opening(c) == IF call[c].step \in {"create", "reopen"} THEN {call[c].project} ELSE {}

Room(x) == /\ plan[OwnerOf[x]] # NoPlan
           /\ Cardinality(Invited(x)) < MaxInvited[plan[OwnerOf[x]]]
Slot(p) == /\ plan[p] # NoPlan
           /\ Cardinality(ActiveOf(p)) < MaxProjects[plan[p]]

Locked == \A c \in Calls : /\ HeldProjects(c) \subseteq Projects
                           /\ Joining(c) \subseteq HeldProjects(c)
                           /\ Opening(c) \subseteq Projects
                           /\ \A x \in Opening(c) : OwnerOf[x] \in HeldSubs(c)
                           /\ \A x \in HeldProjects(c) : OwnerOf[x] \in HeldSubs(c)
Exclusive == \A c, d \in Calls : c # d =>
               /\ HeldProjects(c) \cap HeldProjects(d) = {}
               /\ HeldSubs(c) \cap HeldSubs(d) = {}
Counted == \A c \in Calls : /\ \A x \in Joining(c) : Room(x)
                            /\ \A x \in Opening(c) : Slot(OwnerOf[x])

LimitInv == Locked /\ Exclusive /\ Counted

-----------------------------------------------------------------------------
(* Counting. *)

LEMMA PeopleCounted ==
  ASSUME NEW x \in Projects
  PROVE  IsFiniteSet(Invited(x)) /\ Cardinality(Invited(x)) \in Nat
  BY TeamAssumption, FS_Subset, FS_CardinalityType DEF Invited

LEMMA ProjectsCounted ==
  ASSUME NEW p
  PROVE  IsFiniteSet(ActiveOf(p)) /\ Cardinality(ActiveOf(p)) \in Nat
  BY TeamAssumption, FS_Subset, FS_CardinalityType DEF ActiveOf

LEMMA LimitsTyped ==
  ASSUME TypeOK, NEW p \in Owners, plan[p] # NoPlan
  PROVE  MaxInvited[plan[p]] \in Nat /\ MaxProjects[plan[p]] \in Nat
  BY TeamAssumption DEF TypeOK

LEMMA AtMostOneMore ==
  ASSUME NEW S, NEW R, NEW e, IsFiniteSet(S), R \subseteq S \cup {e}
  PROVE  /\ IsFiniteSet(R) /\ Cardinality(R) \in Nat /\ Cardinality(S) \in Nat
         /\ Cardinality(R) <= Cardinality(S) + 1
  <1>1. /\ IsFiniteSet(S \cup {e})
        /\ Cardinality(S \cup {e}) \in {Cardinality(S), Cardinality(S) + 1}
    BY FS_AddElement
  <1>2. IsFiniteSet(R) /\ Cardinality(R) <= Cardinality(S \cup {e})
    BY <1>1, FS_Subset
  <1>3. Cardinality(R) \in Nat /\ Cardinality(S) \in Nat
    BY <1>2, FS_CardinalityType
  <1>4. QED BY <1>1, <1>2, <1>3

LEMMA NoMore ==
  ASSUME NEW S, NEW R, IsFiniteSet(S), R \subseteq S
  PROVE  /\ Cardinality(R) \in Nat /\ Cardinality(S) \in Nat
         /\ Cardinality(R) <= Cardinality(S)
  BY FS_Subset, FS_CardinalityType

\* HasRoom also counts pending invitations: the count of members is below it.
LEMMA RoomCounted ==
  ASSUME TypeOK, NEW x \in Projects, NEW p, NEW own \in Nat, HasRoom(x, p, own)
  PROVE  Room(x)
  <1> DEFINE pending == {i \in OpenInvites(x) : invites[i].phone # p}
  <1>1. pending \subseteq 1..Len(invites) /\ Len(invites) \in Nat
    BY LenProperties DEF OpenInvites, TypeOK
  <1>2. IsFiniteSet(1..Len(invites))
    BY <1>1, FS_Interval
  <1>3. Cardinality(pending) \in Nat
    BY <1>1, <1>2, FS_Subset, FS_CardinalityType
  <1>4. OwnerOf[x] \in Owners
    BY DEF Owners
  <1>5. /\ plan[OwnerOf[x]] # NoPlan
        /\ Cardinality(Invited(x)) + own + Cardinality(pending) < MaxInvited[plan[OwnerOf[x]]]
    BY DEF HasRoom
  <1> HIDE DEF pending
  <1>6. QED BY <1>3, <1>4, <1>5, PeopleCounted, LimitsTyped DEF Room

-----------------------------------------------------------------------------
(* What a request holds, and what it is about to add to, at each step.     *)

Holding == {"join", "enter", "login", "create", "reopen"}

LEMMA Locks ==
  ASSUME NEW c \in Calls
  PROVE  /\ call[c].step = "join" =>
              /\ HeldProjects(c) = {call[c].project} /\ Joining(c) = {call[c].project}
              /\ Opening(c) = {} /\ HeldSubs(c) = {OwnerOf[call[c].project]}
         /\ call[c].step = "reopen" =>
              /\ HeldProjects(c) = {call[c].project} /\ Opening(c) = {call[c].project}
              /\ Joining(c) = {} /\ HeldSubs(c) = {OwnerOf[call[c].project]}
         /\ call[c].step = "create" =>
              /\ HeldProjects(c) = {} /\ Opening(c) = {call[c].project}
              /\ Joining(c) = {} /\ HeldSubs(c) = {OwnerOf[call[c].project]}
         /\ call[c].step = "enter" =>
              /\ HeldProjects(c) = {invites[call[c].invite].project}
              /\ Joining(c) = {invites[call[c].invite].project}
              /\ Opening(c) = {} /\ HeldSubs(c) = {OwnerOf[invites[call[c].invite].project]}
         /\ call[c].step = "login" =>
              /\ HeldProjects(c) = call[c].seen
              /\ Joining(c) = {x \in Projects : call[c].join[x] # "none"}
              /\ Opening(c) = {} /\ HeldSubs(c) = {OwnerOf[x] : x \in call[c].seen}
         /\ call[c].step \notin Holding =>
              /\ HeldProjects(c) = {} /\ HeldSubs(c) = {}
              /\ Joining(c) = {} /\ Opening(c) = {}
  BY DEF HeldProjects, HeldSubs, Joining, Opening, Is, Holding

LEMMA LocksNext ==
  ASSUME NEW c \in Calls
  PROVE  /\ call'[c].step = "join" =>
              /\ HeldProjects(c)' = {call'[c].project} /\ Joining(c)' = {call'[c].project}
              /\ Opening(c)' = {} /\ HeldSubs(c)' = {OwnerOf[call'[c].project]}
         /\ call'[c].step = "reopen" =>
              /\ HeldProjects(c)' = {call'[c].project} /\ Opening(c)' = {call'[c].project}
              /\ Joining(c)' = {} /\ HeldSubs(c)' = {OwnerOf[call'[c].project]}
         /\ call'[c].step = "create" =>
              /\ HeldProjects(c)' = {} /\ Opening(c)' = {call'[c].project}
              /\ Joining(c)' = {} /\ HeldSubs(c)' = {OwnerOf[call'[c].project]}
         /\ call'[c].step = "enter" =>
              /\ HeldProjects(c)' = {invites'[call'[c].invite].project}
              /\ Joining(c)' = {invites'[call'[c].invite].project}
              /\ Opening(c)' = {}
              /\ HeldSubs(c)' = {OwnerOf[invites'[call'[c].invite].project]}
         /\ call'[c].step = "login" =>
              /\ HeldProjects(c)' = call'[c].seen
              /\ Joining(c)' = {x \in Projects : call'[c].join[x] # "none"}
              /\ Opening(c)' = {} /\ HeldSubs(c)' = {OwnerOf[x] : x \in call'[c].seen}
         /\ call'[c].step \notin Holding =>
              /\ HeldProjects(c)' = {} /\ HeldSubs(c)' = {}
              /\ Joining(c)' = {} /\ Opening(c)' = {}
  BY DEF HeldProjects, HeldSubs, Joining, Opening, Is, Holding

LEMMA LocksKept ==
  ASSUME Monotone, NEW d \in Calls, RequestOK(d), call'[d] = call[d]
  PROVE  /\ HeldProjects(d)' = HeldProjects(d) /\ HeldSubs(d)' = HeldSubs(d)
         /\ Joining(d)' = Joining(d) /\ Opening(d)' = Opening(d)
  <1>1. HeldProjects(d)' = HeldProjects(d)
    <2>1. CASE call[d].step = "enter"
      <3>1. invites'[call[d].invite].project = invites[call[d].invite].project
        BY <2>1 DEF RequestOK, Monotone
      <3>2. QED BY <2>1, <3>1 DEF HeldProjects, Is
    <2>2. CASE call[d].step # "enter"
      BY <2>2 DEF HeldProjects, Is
    <2>3. QED BY <2>1, <2>2
  <1>2. Joining(d)' = Joining(d)
    <2>1. CASE call[d].step = "enter"
      <3>1. invites'[call[d].invite].project = invites[call[d].invite].project
        BY <2>1 DEF RequestOK, Monotone
      <3>2. QED BY <2>1, <3>1 DEF Joining, Is
    <2>2. CASE call[d].step # "enter"
      BY <2>2 DEF Joining, Is
    <2>3. QED BY <2>1, <2>2
  <1>3. Opening(d)' = Opening(d)
    BY DEF Opening
  <1>4. HeldSubs(d)' = HeldSubs(d)
    BY <1>1 DEF HeldSubs, Is
  <1>5. QED BY <1>1, <1>2, <1>3, <1>4

-----------------------------------------------------------------------------
(* The argument all steps share: a request adds only where it holds the    *)
(* rows and has counted, so what another request counted stays true.       *)

RoomKept(c) ==
  \A x \in Projects :
    \/ Invited(x)' \subseteq Invited(x)
    \/ x \in Joining(c) /\ \E p \in People : Invited(x)' \subseteq Invited(x) \cup {p}
SlotKept(c) ==
  \A p \in Owners :
    \/ ActiveOf(p)' \subseteq ActiveOf(p)
    \/ \E x \in Opening(c) : OwnerOf[x] = p /\ ActiveOf(p)' \subseteq ActiveOf(p) \cup {x}

MembersLimited ==
  \A x \in Projects :
    Cardinality(Invited(x)') > Cardinality(Invited(x)) =>
      /\ plan[OwnerOf[x]] # NoPlan
      /\ Cardinality(Invited(x)') <= MaxInvited[plan[OwnerOf[x]]]
ProjectsLimited ==
  \A p \in Owners :
    Cardinality(ActiveOf(p)') > Cardinality(ActiveOf(p)) =>
      /\ plan[p] # NoPlan
      /\ Cardinality(ActiveOf(p)') <= MaxProjects[plan[p]]

LEMMA KeptLimited ==
  ASSUME TypeOK, LimitInv, NEW c \in Calls, RoomKept(c), SlotKept(c)
  PROVE  MembersLimited /\ ProjectsLimited
  <1>1. ASSUME NEW x \in Projects, Cardinality(Invited(x)') > Cardinality(Invited(x))
        PROVE  /\ plan[OwnerOf[x]] # NoPlan
               /\ Cardinality(Invited(x)') <= MaxInvited[plan[OwnerOf[x]]]
    <2> DEFINE now == Invited(x)
               after == Invited(x)'
    <2>1. IsFiniteSet(now) /\ OwnerOf[x] \in Owners
      BY PeopleCounted DEF Owners
    <2>2. Cardinality(after) > Cardinality(now)
      BY <1>1
    <2>3. ~(after \subseteq now)
      <3> HIDE DEF now, after
      <3>1. QED BY <2>1, <2>2, NoMore
    <2>4. x \in Joining(c)
      BY <2>3 DEF RoomKept
    <2>5. PICK p \in People : after \subseteq now \cup {p}
      BY <2>3 DEF RoomKept
    <2>6. plan[OwnerOf[x]] # NoPlan /\ Cardinality(now) < MaxInvited[plan[OwnerOf[x]]]
      BY <2>4 DEF LimitInv, Counted, Room
    <2>7. MaxInvited[plan[OwnerOf[x]]] \in Nat
      BY <2>1, <2>6, LimitsTyped
    <2> HIDE DEF now, after
    <2>8. /\ Cardinality(after) \in Nat /\ Cardinality(now) \in Nat
          /\ Cardinality(after) <= Cardinality(now) + 1
      BY <2>1, <2>5, AtMostOneMore
    <2>9. Cardinality(after) <= MaxInvited[plan[OwnerOf[x]]]
      BY <2>6, <2>7, <2>8
    <2>10. QED BY <2>6, <2>9 DEF after
  <1>2. ASSUME NEW p \in Owners, Cardinality(ActiveOf(p)') > Cardinality(ActiveOf(p))
        PROVE  /\ plan[p] # NoPlan
               /\ Cardinality(ActiveOf(p)') <= MaxProjects[plan[p]]
    <2> DEFINE now == ActiveOf(p)
               after == ActiveOf(p)'
    <2>1. IsFiniteSet(now)
      BY ProjectsCounted
    <2>2. Cardinality(after) > Cardinality(now)
      BY <1>2
    <2>3. ~(after \subseteq now)
      <3> HIDE DEF now, after
      <3>1. QED BY <2>1, <2>2, NoMore
    <2>4. PICK x \in Opening(c) : OwnerOf[x] = p /\ after \subseteq now \cup {x}
      BY <2>3 DEF SlotKept
    <2>5. plan[p] # NoPlan /\ Cardinality(now) < MaxProjects[plan[p]]
      BY <2>4 DEF LimitInv, Counted, Slot
    <2>6. MaxProjects[plan[p]] \in Nat
      BY <2>5, LimitsTyped
    <2> HIDE DEF now, after
    <2>7. /\ Cardinality(after) \in Nat /\ Cardinality(now) \in Nat
          /\ Cardinality(after) <= Cardinality(now) + 1
      BY <2>1, <2>4, AtMostOneMore
    <2>8. Cardinality(after) <= MaxProjects[plan[p]]
      BY <2>5, <2>6, <2>7
    <2>9. QED BY <2>5, <2>8 DEF after
  <1>3. QED BY <1>1, <1>2 DEF MembersLimited, ProjectsLimited

LEMMA RoomLater ==
  ASSUME TypeOK, NEW x \in Projects, Room(x), UNCHANGED plan, Invited(x)' \subseteq Invited(x)
  PROVE  Room(x)'
  <1> DEFINE now == Invited(x)
             after == Invited(x)'
             most == MaxInvited[plan[OwnerOf[x]]]
  <1>1. plan[OwnerOf[x]] # NoPlan /\ Cardinality(now) < most
    BY DEF Room
  <1>2. most \in Nat
    BY <1>1, LimitsTyped DEF Owners
  <1>3. IsFiniteSet(now)
    BY PeopleCounted
  <1>4. Cardinality(after) < most
    <2> HIDE DEF now, after, most
    <2>1. after \subseteq now
      BY DEF now, after
    <2>2. QED BY <1>1, <1>2, <1>3, <2>1, NoMore
  <1>5. QED BY <1>1, <1>4 DEF Room

LEMMA SlotLater ==
  ASSUME TypeOK, NEW p \in Owners, Slot(p), UNCHANGED plan, ActiveOf(p)' \subseteq ActiveOf(p)
  PROVE  Slot(p)'
  <1> DEFINE now == ActiveOf(p)
             after == ActiveOf(p)'
             most == MaxProjects[plan[p]]
  <1>1. plan[p] # NoPlan /\ Cardinality(now) < most
    BY DEF Slot
  <1>2. most \in Nat
    BY <1>1, LimitsTyped
  <1>3. IsFiniteSet(now)
    BY ProjectsCounted
  <1>4. Cardinality(after) < most
    <2> HIDE DEF now, after, most
    <2>1. after \subseteq now
      BY DEF now, after
    <2>2. QED BY <1>1, <1>2, <1>3, <2>1, NoMore
  <1>5. QED BY <1>1, <1>4 DEF Slot

\* What c may take: free rows, with a place counted in each it will add to.
Taken(c) ==
  /\ HeldProjects(c) \subseteq Projects
  /\ Joining(c) \subseteq HeldProjects(c)
  /\ Opening(c) \subseteq Projects
  /\ \A x \in Opening(c) : OwnerOf[x] \in HeldSubs(c)
  /\ \A x \in HeldProjects(c) : OwnerOf[x] \in HeldSubs(c)
  /\ \A x \in Joining(c) : Room(x)
  /\ \A x \in Opening(c) : Slot(OwnerOf[x])

LEMMA LimitFrame ==
  ASSUME TeamInv, LimitInv, NEW c \in Calls, Monotone, UNCHANGED plan,
         \A d \in Calls \ {c} : call'[d] = call[d],
         RoomKept(c), SlotKept(c), Taken(c)',
         \A x \in HeldProjects(c)' : ProjectFree(x, c),
         \A p \in HeldSubs(c)' : SubFree(p, c)
  PROVE  LimitInv'
  <1>1. ASSUME NEW d \in Calls, d # c
        PROVE  /\ HeldProjects(d)' = HeldProjects(d) /\ HeldSubs(d)' = HeldSubs(d)
               /\ Joining(d)' = Joining(d) /\ Opening(d)' = Opening(d)
    BY <1>1, LocksKept DEF TeamInv
  <1>2. Locked'
    <2>1. ASSUME NEW d \in Calls
          PROVE  /\ HeldProjects(d)' \subseteq Projects
                 /\ Joining(d)' \subseteq HeldProjects(d)'
                 /\ Opening(d)' \subseteq Projects
                 /\ \A x \in Opening(d)' : OwnerOf[x] \in HeldSubs(d)'
                 /\ \A x \in HeldProjects(d)' : OwnerOf[x] \in HeldSubs(d)'
      <3>1. CASE d = c
        BY <3>1 DEF Taken
      <3>2. CASE d # c
        BY <1>1, <3>2 DEF LimitInv, Locked
      <3>3. QED BY <3>1, <3>2
    <2>2. QED BY <2>1 DEF Locked
  <1>3. Exclusive'
    <2>1. ASSUME NEW d \in Calls, NEW e \in Calls, d # e
          PROVE  /\ HeldProjects(d)' \cap HeldProjects(e)' = {}
                 /\ HeldSubs(d)' \cap HeldSubs(e)' = {}
      <3>1. CASE d # c /\ e # c
        BY <1>1, <2>1, <3>1 DEF LimitInv, Exclusive
      <3>2. CASE d = c
        BY <1>1, <2>1, <3>2 DEF ProjectFree, SubFree
      <3>3. CASE e = c
        BY <1>1, <2>1, <3>3 DEF ProjectFree, SubFree
      <3>4. QED BY <3>1, <3>2, <3>3
    <2>2. QED BY <2>1 DEF Exclusive
  <1>4. Counted'
    <2>1. ASSUME NEW d \in Calls, NEW x \in Joining(d)'
          PROVE  Room(x)'
      <3>1. CASE d = c
        BY <2>1, <3>1 DEF Taken
      <3>2. CASE d # c
        <4>1. x \in Joining(d)
          BY <1>1, <2>1, <3>2
        <4>2. x \in HeldProjects(d) /\ x \in Projects /\ Room(x)
          BY <4>1 DEF LimitInv, Locked, Counted
        <4>3. x \notin Joining(c)
          BY <3>2, <4>2 DEF LimitInv, Locked, Exclusive
        <4>4. Invited(x)' \subseteq Invited(x)
          BY <4>2, <4>3 DEF RoomKept
        <4>5. QED BY <4>2, <4>4, RoomLater DEF TeamInv
      <3>3. QED BY <3>1, <3>2
    <2>2. ASSUME NEW d \in Calls, NEW x \in Opening(d)'
          PROVE  Slot(OwnerOf[x])'
      <3>1. CASE d = c
        BY <2>2, <3>1 DEF Taken
      <3>2. CASE d # c
        <4>1. x \in Opening(d)
          BY <1>1, <2>2, <3>2
        <4>2. x \in Projects /\ OwnerOf[x] \in HeldSubs(d) /\ Slot(OwnerOf[x])
          BY <4>1 DEF LimitInv, Locked, Counted
        <4>3. OwnerOf[x] \notin HeldSubs(c) /\ OwnerOf[x] \in Owners
          BY <3>2, <4>2 DEF LimitInv, Exclusive, Owners
        <4>4. \A y \in Opening(c) : OwnerOf[y] # OwnerOf[x]
          BY <4>3 DEF LimitInv, Locked
        <4>5. ActiveOf(OwnerOf[x])' \subseteq ActiveOf(OwnerOf[x])
          BY <4>3, <4>4 DEF SlotKept
        <4>6. QED BY <4>2, <4>3, <4>5, SlotLater DEF TeamInv
      <3>3. QED BY <3>1, <3>2
    <2>3. QED BY <2>1, <2>2 DEF Counted
  <1>5. QED BY <1>2, <1>3, <1>4 DEF LimitInv

\* A step after which c holds nothing.
LEMMA QuietFrame ==
  ASSUME TeamInv, LimitInv, NEW c \in Calls, Monotone, UNCHANGED plan,
         \A d \in Calls \ {c} : call'[d] = call[d],
         RoomKept(c), SlotKept(c), call'[c].step \notin Holding
  PROVE  LimitInv'
  <1>1. /\ HeldProjects(c)' = {} /\ HeldSubs(c)' = {}
        /\ Joining(c)' = {} /\ Opening(c)' = {}
    BY LocksNext
  <1>2. Taken(c)'
    BY <1>1 DEF Taken
  <1>3. QED BY <1>1, <1>2, LimitFrame

LEMMA SameCounts ==
  ASSUME UNCHANGED <<role, project>>, NEW c \in Calls
  PROVE  RoomKept(c) /\ SlotKept(c)
  BY DEF RoomKept, SlotKept, Invited, ActiveOf

\* A step that takes rows: the count was made on the data it leaves alone.
LEMMA TakeFrame ==
  ASSUME TeamInv, LimitInv, NEW c \in Calls, Monotone, UNCHANGED <<plan, role, project>>,
         \A d \in Calls \ {c} : call'[d] = call[d],
         HeldProjects(c)' \subseteq Projects,
         Joining(c)' \subseteq HeldProjects(c)',
         Opening(c)' \subseteq Projects,
         \A x \in Opening(c)' : OwnerOf[x] \in HeldSubs(c)',
         \A x \in HeldProjects(c)' : OwnerOf[x] \in HeldSubs(c)',
         \A x \in Joining(c)' : Room(x),
         \A x \in Opening(c)' : Slot(OwnerOf[x]),
         \A x \in HeldProjects(c)' : ProjectFree(x, c),
         \A p \in HeldSubs(c)' : SubFree(p, c)
  PROVE  LimitInv' /\ RoomKept(c) /\ SlotKept(c)
  <1>1. RoomKept(c) /\ SlotKept(c)
    BY SameCounts
  <1>2. \A x \in Joining(c)' : Room(x)'
    BY DEF Room, Invited
  <1>3. \A x \in Opening(c)' : Slot(OwnerOf[x])'
    BY DEF Slot, ActiveOf
  <1>4. Taken(c)'
    BY <1>2, <1>3 DEF Taken
  <1>5. QED BY <1>1, <1>4, LimitFrame

LEMMA RoleKept ==
  ASSUME TypeOK, NEW c \in Calls, NEW p \in People, NEW x \in Projects, NEW r,
         role' = [role EXCEPT ![p][x] = r],
         r \in {"none", "owner"} \/ p \in Invited(x) \/ x \in Joining(c)
  PROVE  RoomKept(c)
  <1>1. \A q \in People, y \in Projects : ~(q = p /\ y = x) => role'[q][y] = role[q][y]
    BY DEF TypeOK
  <1>2. role'[p][x] = r
    BY DEF TypeOK
  <1>3. ASSUME NEW y \in Projects, y # x
        PROVE  Invited(y)' \subseteq Invited(y)
    BY <1>1, <1>3 DEF Invited
  <1>4. Invited(x)' \subseteq Invited(x) \cup {p}
    BY <1>1 DEF Invited
  <1>5. CASE r \in {"none", "owner"} \/ p \in Invited(x)
    <2>1. Invited(x)' \subseteq Invited(x)
      BY <1>1, <1>2, <1>5 DEF Invited
    <2>2. QED BY <1>3, <2>1 DEF RoomKept
  <1>6. CASE x \in Joining(c)
    BY <1>3, <1>4, <1>6 DEF RoomKept
  <1>7. QED BY <1>5, <1>6

LEMMA SameRoleKept ==
  ASSUME UNCHANGED role, NEW c \in Calls
  PROVE  RoomKept(c)
  BY DEF RoomKept, Invited

LEMMA SameStateKept ==
  ASSUME UNCHANGED project, NEW c \in Calls
  PROVE  SlotKept(c)
  BY DEF SlotKept, ActiveOf

LEMMA StateKept ==
  ASSUME TypeOK, NEW c \in Calls, NEW x \in Projects, NEW s,
         project' = [project EXCEPT ![x] = s],
         s = "archived" \/ x \in Opening(c)
  PROVE  SlotKept(c)
  <1>1. \A y \in Projects : y # x => project'[y] = project[y]
    BY DEF TypeOK
  <1>2. project'[x] = s
    BY DEF TypeOK
  <1>3. ASSUME NEW p \in Owners
        PROVE  \/ ActiveOf(p)' \subseteq ActiveOf(p)
               \/ \E z \in Opening(c) : OwnerOf[z] = p /\ ActiveOf(p)' \subseteq ActiveOf(p) \cup {z}
    <2>1. CASE OwnerOf[x] # p \/ s = "archived"
      <3>1. ActiveOf(p)' \subseteq ActiveOf(p)
        BY <1>1, <1>2, <2>1 DEF ActiveOf
      <3>2. QED BY <3>1
    <2>2. CASE OwnerOf[x] = p /\ x \in Opening(c)
      <3>1. ActiveOf(p)' \subseteq ActiveOf(p) \cup {x}
        BY <1>1 DEF ActiveOf
      <3>2. QED BY <2>2, <3>1
    <2>3. QED BY <2>1, <2>2
  <1>4. QED BY <1>3 DEF SlotKept

-----------------------------------------------------------------------------
(* Each step. *)

Kept(c) == RoomKept(c) /\ SlotKept(c)

LEMMA InvitingKeepsLimits ==
  ASSUME TeamInv, LimitInv, NEW c \in Calls, Inviting(c)
  PROVE  LimitInv' /\ Kept(c)
  <1>0. TypeOK /\ RequestOK(c) /\ Monotone /\ \A d \in Calls \ {c} : call'[d] = call[d]
    BY InvitingSparesOwner, OneMoves DEF TeamInv, OwnerInv
  <1>1. CASE \/ \E a, p \in People, x \in Projects, r \in Asked : BeginInvite(c, a, x, p, r)
             \/ GuardInvite(c) \/ RevokePrevious(c) \/ InsertInvite(c)
    <2>1. UNCHANGED <<plan, role, project>>
      BY <1>1 DEF BeginInvite, GuardInvite, RevokePrevious, InsertInvite
    <2>2. call'[c].step \in {"add", "guard", "revoke", "insert", "idle"}
      <3>1. CASE GuardInvite(c)
        BY <1>0, <3>1, CallShape, AdvancesTyped DEF GuardInvite, Is
      <3>2. CASE RevokePrevious(c)
        BY <1>0, <3>2, CallShape, AdvancesTyped DEF RevokePrevious, Is
      <3>3. CASE InsertInvite(c)
        BY <1>0, <3>3 DEF InsertInvite, TypeOK, Idle
      <3>4. ASSUME NEW a \in People, NEW p \in People, NEW x \in Projects, NEW r \in Asked,
                   BeginInvite(c, a, x, p, r)
            PROVE  call'[c].step \in {"add", "guard"}
        BY <1>0, <3>4 DEF BeginInvite, TypeOK
      <3>5. QED BY <1>1, <3>1, <3>2, <3>3, <3>4
    <2>3. QED BY <1>0, <2>1, <2>2, SameCounts, QuietFrame DEF Holding, Kept
  <1>2. CASE LockForAdd(c)
    <2> DEFINE x == call[c].project
    <2>1. call[c] \in Assignment /\ x \in Projects
      BY <1>0, <1>2, CallShape DEF LockForAdd, Is, Assignment
    <2>2. call'[c].step = "join" /\ call'[c].project = x
      BY <1>0, <1>2, <2>1, AdvancesTyped DEF LockForAdd
    <2>3. Room(x) /\ ProjectFree(x, c) /\ SubFree(OwnerOf[x], c)
      BY <1>0, <1>2, <2>1, RoomCounted DEF LockForAdd, CapacityFree
    <2>4. UNCHANGED <<plan, role, project>>
      BY <1>2 DEF LockForAdd
    <2> HIDE DEF x
    <2>5. /\ HeldProjects(c)' = {x} /\ Joining(c)' = {x}
          /\ Opening(c)' = {} /\ HeldSubs(c)' = {OwnerOf[x]}
      BY <2>2, LocksNext
    <2>6. QED BY <1>0, <2>1, <2>3, <2>4, <2>5, TakeFrame DEF Kept
  <1>3. CASE CommitAdd(c)
    <2>1. call[c] \in Assignment /\ call[c].step = "join"
      BY <1>0, <1>3, CallShape DEF CommitAdd, Is
    <2>2. call[c].project \in Joining(c)
      BY <2>1, Locks
    <2>3. RoomKept(c)
      BY <1>0, <1>3, <2>1, <2>2, RoleKept DEF CommitAdd, Assignment
    <2>4. UNCHANGED <<plan, project>> /\ call'[c].step = "idle"
      BY <1>0, <1>3 DEF CommitAdd, TypeOK, Idle
    <2>5. QED BY <1>0, <2>3, <2>4, SameStateKept, QuietFrame DEF Holding, Kept
  <1>4. QED BY <1>1, <1>2, <1>3 DEF Inviting

LEMMA LoginKeepsLimits ==
  ASSUME TeamInv, LimitInv, NEW c \in Calls, Monotone,
         \A d \in Calls \ {c} : call'[d] = call[d],
         NEW i \in DOMAIN invites, LoginInvite(c, i)
  PROVE  LimitInv' /\ Kept(c)
  <1> DEFINE x == invites[i].project
             p == call[c].person
             own == IF call[c].join[x] = "none" THEN 0 ELSE 1
             new == own = 0 /\ role[p][x] = "none"
             tried == [call[c] EXCEPT !.todo = @ \ {i}, !.seen = @ \cup {x}]
             r == IF new THEN invites[i].role ELSE tried.join[x]
             joined == [tried EXCEPT !.taken = @ \cup {i}, !.join[x] = r]
  <1>1. TypeOK /\ call[c] \in Login /\ call[c].step = "login" /\ x \in Projects
    BY CallShape, InviteTyped DEF TeamInv, LoginInvite, Is, InviteRow
  <1>2. UNCHANGED <<plan, role, project>> /\ ProjectFree(x, c) /\ SubFree(OwnerOf[x], c)
    BY DEF LoginInvite, CapacityFree
  <1>3. /\ tried.step = "login" /\ tried.seen = call[c].seen \cup {x}
        /\ tried.join = call[c].join
    BY <1>1 DEF Login
  <1>4. /\ joined.step = "login" /\ joined.seen = call[c].seen \cup {x}
        /\ \A y \in Projects : y # x => joined.join[y] = call[c].join[y]
    BY <1>1, <1>3 DEF Login
  <1>5. call'[c] = tried \/ (call'[c] = joined /\ HasRoom(x, p, own))
    BY <1>1 DEF LoginInvite, TypeOK
  <1>6. HasRoom(x, p, own) => Room(x)
    <2>1. own \in Nat
      OBVIOUS
    <2> HIDE DEF own, x, p
    <2>2. QED BY <1>1, <2>1, RoomCounted
  <1> HIDE DEF tried, joined, own, new, r, x, p
  <1>7. /\ call'[c].step = "login" /\ call'[c].seen = call[c].seen \cup {x}
        /\ \A y \in Projects : call'[c].join[y] # "none" =>
             (y = x /\ Room(x)) \/ call[c].join[y] # "none"
    BY <1>3, <1>4, <1>5, <1>6
  <1>8. /\ HeldProjects(c) = call[c].seen
        /\ Joining(c) = {y \in Projects : call[c].join[y] # "none"}
        /\ HeldSubs(c) = {OwnerOf[y] : y \in call[c].seen}
    BY <1>1, Locks
  <1>9. /\ HeldProjects(c)' = call[c].seen \cup {x}
        /\ Joining(c)' = {y \in Projects : call'[c].join[y] # "none"}
        /\ HeldSubs(c)' = {OwnerOf[y] : y \in call[c].seen \cup {x}}
        /\ Opening(c)' = {}
    BY <1>7, LocksNext
  <1>10. /\ \A y \in HeldProjects(c) : ProjectFree(y, c)
         /\ \A q \in HeldSubs(c) : SubFree(q, c)
    BY DEF LimitInv, Exclusive, ProjectFree, SubFree
  <1>11. /\ HeldProjects(c) \subseteq Projects /\ Joining(c) \subseteq HeldProjects(c)
         /\ \A y \in Joining(c) : Room(y)
    BY DEF LimitInv, Locked, Counted
  <1>12. \A y \in Joining(c)' : (y = x /\ Room(x)) \/ y \in Joining(c)
    BY <1>7, <1>8, <1>9
  <1>13. /\ HeldProjects(c)' \subseteq Projects
         /\ \A y \in HeldProjects(c)' : OwnerOf[y] \in HeldSubs(c)'
         /\ \A y \in HeldProjects(c)' : ProjectFree(y, c)
         /\ \A q \in HeldSubs(c)' : SubFree(q, c)
    BY <1>1, <1>2, <1>8, <1>9, <1>10, <1>11
  <1>14. Joining(c)' \subseteq HeldProjects(c)' /\ \A y \in Joining(c)' : Room(y)
    <2>1. HeldProjects(c)' = HeldProjects(c) \cup {x}
      BY <1>8, <1>9
    <2>2. QED BY <1>11, <1>12, <2>1
  <1>15. QED BY <1>2, <1>9, <1>13, <1>14, TakeFrame DEF Kept

LEMMA EnteringKeepsLimits ==
  ASSUME TeamInv, LimitInv, NEW c \in Calls, Entering(c)
  PROVE  LimitInv' /\ Kept(c)
  <1>0. TypeOK /\ RequestOK(c) /\ Monotone /\ \A d \in Calls \ {c} : call'[d] = call[d]
    BY EnteringSparesOwner, OneMoves DEF TeamInv, OwnerInv
  <1>1. ASSUME NEW i \in DOMAIN invites, BeginAccept(c, i)
        PROVE  LimitInv' /\ Kept(c)
    <2>1. UNCHANGED <<plan, role, project>> /\ call'[c].step = "accept"
      BY <1>0, <1>1 DEF BeginAccept, TypeOK
    <2>2. QED BY <1>0, <2>1, SameCounts, QuietFrame DEF Holding, Kept
  <1>2. ASSUME NEW i \in DOMAIN invites, LoginInvite(c, i)
        PROVE  LimitInv' /\ Kept(c)
    BY <1>0, <1>2, LoginKeepsLimits
  <1>3. CASE LockForAccept(c)
    <2> DEFINE i == call[c].invite
               x == invites[i].project
    <2>1. call[c] \in Acceptance /\ i \in DOMAIN invites
      BY <1>0, <1>3, CallShape DEF LockForAccept, Is, RequestOK
    <2>2. x \in Projects
      BY <1>0, <2>1, InviteTyped DEF InviteRow
    <2>3. call'[c].step = "enter" /\ call'[c].invite = i
      BY <1>0, <1>3, <2>1, AdvancesTyped DEF LockForAccept
    <2>4. Room(x) /\ ProjectFree(x, c) /\ SubFree(OwnerOf[x], c)
      BY <1>0, <1>3, <2>2, RoomCounted DEF LockForAccept, CapacityFree
    <2>5. UNCHANGED <<plan, role, project, invites>>
      BY <1>3 DEF LockForAccept
    <2>6. /\ HeldProjects(c)' = {x} /\ Joining(c)' = {x}
          /\ Opening(c)' = {} /\ HeldSubs(c)' = {OwnerOf[x]}
      BY <2>3, <2>5, LocksNext
    <2> HIDE DEF x
    <2>7. QED BY <1>0, <2>2, <2>4, <2>5, <2>6, TakeFrame DEF Kept
  <1>4. CASE CommitAccept(c)
    <2> DEFINE i == call[c].invite
    <2>1. call[c] \in Acceptance /\ call[c].step = "enter" /\ i \in DOMAIN invites
      BY <1>0, <1>4, CallShape DEF CommitAccept, Is, RequestOK
    <2>2. invites[i] \in InviteRow
      BY <1>0, <2>1, InviteTyped
    <2>3. invites[i].project \in Joining(c)
      BY <2>1, Locks
    <2>4. RoomKept(c)
      BY <1>0, <1>4, <2>1, <2>2, <2>3, RoleKept DEF CommitAccept, Acceptance, InviteRow
    <2>5. UNCHANGED <<plan, project>> /\ call'[c].step = "idle"
      BY <1>0, <1>4 DEF CommitAccept, TypeOK, Idle
    <2>6. QED BY <1>0, <2>4, <2>5, SameStateKept, QuietFrame DEF Holding, Kept
  <1>5. ASSUME NEW p \in People, BeginLogin(c, p)
        PROVE  LimitInv' /\ Kept(c)
    <2>1. /\ call'[c].step = "login" /\ call'[c].seen = {}
          /\ \A x \in Projects : call'[c].join[x] = "none"
      BY <1>0, <1>5 DEF BeginLogin, TypeOK
    <2>2. UNCHANGED <<plan, role, project>>
      BY <1>5 DEF BeginLogin
    <2>3. /\ HeldProjects(c)' = {} /\ Joining(c)' = {}
          /\ Opening(c)' = {} /\ HeldSubs(c)' = {}
      BY <2>1, LocksNext
    <2>4. QED BY <1>0, <2>2, <2>3, TakeFrame DEF Kept
  <1>6. CASE CommitLogin(c)
    <2> DEFINE p == call[c].person
    <2>1. call[c] \in Login /\ call[c].step = "login" /\ p \in People
      BY <1>0, <1>6, CallShape DEF CommitLogin, Is, Login
    <2>2. \A q \in People, x \in Projects :
            ~(q = p /\ call[c].join[x] # "none") => role'[q][x] = role[q][x]
      BY <1>0, <1>6, <2>1 DEF CommitLogin, TypeOK, Login
    <2>3. Joining(c) = {x \in Projects : call[c].join[x] # "none"}
      BY <2>1, Locks
    <2>4. ASSUME NEW x \in Projects
          PROVE  \/ Invited(x)' \subseteq Invited(x)
                 \/ x \in Joining(c) /\ Invited(x)' \subseteq Invited(x) \cup {p}
      BY <2>2, <2>3 DEF Invited
    <2>5. RoomKept(c)
      BY <2>1, <2>4 DEF RoomKept
    <2>6. UNCHANGED <<plan, project>> /\ call'[c].step = "idle"
      BY <1>0, <1>6 DEF CommitLogin, TypeOK, Idle
    <2>7. QED BY <1>0, <2>5, <2>6, SameStateKept, QuietFrame DEF Holding, Kept
  <1>7. QED BY <1>1, <1>2, <1>3, <1>4, <1>5, <1>6 DEF Entering

LEMMA ManagingKeepsLimits ==
  ASSUME TeamInv, LimitInv, NEW c \in Calls, Managing(c)
  PROVE  LimitInv' /\ Kept(c)
  <1>0. TypeOK /\ RequestOK(c) /\ Monotone /\ \A d \in Calls \ {c} : call'[d] = call[d]
    BY ManagingSparesOwner, OneMoves DEF TeamInv, OwnerInv
  <1>1. CASE \/ \E a, p \in People, x \in Projects : BeginMember(c, a, x, p)
             \/ \E a \in People, x \in Projects : BeginArchive(c, a, x) \/ BeginRestore(c, a, x)
    <2>1. UNCHANGED <<plan, role, project>>
      BY <1>1 DEF BeginMember, BeginArchive, BeginRestore
    <2>2. call'[c].step \in {"change", "remove", "archive", "restore"}
      BY <1>0, <1>1 DEF BeginMember, BeginArchive, BeginRestore, TypeOK
    <2>3. QED BY <1>0, <2>1, <2>2, SameCounts, QuietFrame DEF Holding, Kept
  <1>2. CASE SetRole(c) \/ RemoveMember(c)
    <2> DEFINE p == call[c].person
               x == call[c].project
    <2>1. p \in People /\ x \in Projects /\ p # OwnerOf[x]
      BY <1>0, <1>2, CallShape DEF SetRole, RemoveMember, Is, Assignment, Removal, RequestOK
    <2>2. role[p][x] # "owner"
      BY <2>1 DEF TeamInv, OwnerRoles
    <2>3. PICK r : role' = [role EXCEPT ![p][x] = r] /\ (r = "none" \/ role[p][x] # "none")
      <3>1. CASE SetRole(c)
        <4>1. role' = [role EXCEPT ![p][x] = IF role[p][x] = "none" THEN "none" ELSE call[c].role]
          BY <1>0, <2>1, <3>1 DEF SetRole, TypeOK
        <4>2. QED BY <4>1
      <3>2. CASE RemoveMember(c)
        BY <3>2 DEF RemoveMember
      <3>3. QED BY <1>2, <3>1, <3>2
    <2>4. r = "none" \/ p \in Invited(x)
      BY <2>1, <2>2, <2>3 DEF Invited
    <2> HIDE DEF p, x
    <2>5. RoomKept(c)
      BY <1>0, <2>1, <2>3, <2>4, RoleKept
    <2>6. UNCHANGED <<plan, project>> /\ call'[c].step = "idle"
      BY <1>0, <1>2 DEF SetRole, RemoveMember, TypeOK, Idle
    <2>7. QED BY <1>0, <2>5, <2>6, SameStateKept, QuietFrame DEF Holding, Kept
  <1>3. ASSUME NEW x \in Projects, BeginCreate(c, x) \/ (LockRestore(c) /\ call[c].project = x)
        PROVE  LimitInv' /\ Kept(c)
    <2>1. UNCHANGED <<plan, role, project>>
      BY <1>3 DEF BeginCreate, LockRestore
    <2>2. Slot(OwnerOf[x]) /\ SubFree(OwnerOf[x], c)
      BY <1>3 DEF BeginCreate, LockRestore, HasSlot, Slot
    <2>3. CASE BeginCreate(c, x)
      <3>1. call'[c].step = "create" /\ call'[c].project = x
        BY <1>0, <2>3 DEF BeginCreate, TypeOK
      <3>2. /\ HeldProjects(c)' = {} /\ Joining(c)' = {}
            /\ Opening(c)' = {x} /\ HeldSubs(c)' = {OwnerOf[x]}
        BY <3>1, LocksNext
      <3>3. QED BY <1>0, <2>1, <2>2, <3>2, TakeFrame DEF Kept
    <2>4. CASE LockRestore(c) /\ call[c].project = x
      <3>1. call[c] \in Lifecycle /\ ProjectFree(x, c)
        BY <1>0, <2>4, CallShape DEF LockRestore, Is
      <3>2. call'[c].step = "reopen" /\ call'[c].project = x
        BY <1>0, <2>4, <3>1, AdvancesTyped DEF LockRestore
      <3>3. /\ HeldProjects(c)' = {x} /\ Joining(c)' = {}
            /\ Opening(c)' = {x} /\ HeldSubs(c)' = {OwnerOf[x]}
        BY <3>2, LocksNext
      <3>4. QED BY <1>0, <2>1, <2>2, <3>1, <3>3, TakeFrame DEF Kept
    <2>5. QED BY <1>3, <2>3, <2>4
  <1>4. CASE LockRestore(c)
    <2>1. call[c].project \in Projects
      BY <1>0, <1>4, CallShape DEF LockRestore, Is, Lifecycle
    <2>2. QED BY <1>3, <1>4, <2>1
  <1>5. CASE CommitCreate(c)
    <2> DEFINE x == call[c].project
    <2>1. call[c].step = "create" /\ x \in Projects /\ OwnerOf[x] \in People
      BY <1>0, <1>5, CallShape, TeamAssumption DEF CommitCreate, Is, Lifecycle
    <2>2. x \in Opening(c)
      BY <2>1, Locks
    <2>3. RoomKept(c)
      BY <1>0, <1>5, <2>1, RoleKept DEF CommitCreate
    <2>4. SlotKept(c)
      BY <1>0, <1>5, <2>1, <2>2, StateKept DEF CommitCreate
    <2>5. UNCHANGED plan /\ call'[c].step = "idle"
      BY <1>0, <1>5 DEF CommitCreate, TypeOK, Idle
    <2>6. QED BY <1>0, <2>3, <2>4, <2>5, QuietFrame DEF Holding, Kept
  <1>6. CASE ArchiveProject(c) \/ CommitRestore(c)
    <2> DEFINE x == call[c].project
    <2>1. x \in Projects
      BY <1>0, <1>6, CallShape DEF ArchiveProject, CommitRestore, Is, Lifecycle
    <2>2. CommitRestore(c) => x \in Opening(c)
      BY Locks DEF CommitRestore, Is
    <2>3. PICK s : project' = [project EXCEPT ![x] = s] /\ (s = "archived" \/ CommitRestore(c))
      BY <1>6 DEF ArchiveProject, CommitRestore
    <2>4. SlotKept(c)
      BY <1>0, <2>1, <2>2, <2>3, StateKept
    <2>5. UNCHANGED <<plan, role>> /\ call'[c].step = "idle"
      BY <1>0, <1>6 DEF ArchiveProject, CommitRestore, TypeOK, Idle
    <2>6. QED BY <1>0, <2>4, <2>5, SameRoleKept, QuietFrame DEF Holding, Kept
  <1>7. QED BY <1>1, <1>2, <1>3, <1>4, <1>5, <1>6 DEF Managing

\* The steps that move no request: they add nothing, and a plan changes only
\* while no request holds its row.
LEMMA OtherStepsKeepLimits ==
  ASSUME TeamInv, LimitInv, Monotone, UNCHANGED <<role, project, call>>,
         \A x \in Projects : \A c \in Calls :
           OwnerOf[x] \in HeldSubs(c) => plan'[OwnerOf[x]] = plan[OwnerOf[x]]
  PROVE  LimitInv'
  <1>1. ASSUME NEW c \in Calls
        PROVE  /\ HeldProjects(c)' = HeldProjects(c) /\ HeldSubs(c)' = HeldSubs(c)
               /\ Joining(c)' = Joining(c) /\ Opening(c)' = Opening(c)
    BY LocksKept DEF TeamInv
  <1>2. Locked' /\ Exclusive'
    BY <1>1 DEF LimitInv, Locked, Exclusive
  <1>3. ASSUME NEW c \in Calls, NEW x \in Joining(c)
        PROVE  Room(x)'
    <2>1. x \in Projects /\ OwnerOf[x] \in HeldSubs(c) /\ Room(x)
      BY <1>3 DEF LimitInv, Locked, Counted
    <2>2. plan'[OwnerOf[x]] = plan[OwnerOf[x]]
      BY <2>1
    <2>3. QED BY <2>1, <2>2 DEF Room, Invited
  <1>4. ASSUME NEW c \in Calls, NEW x \in Opening(c)
        PROVE  Slot(OwnerOf[x])'
    <2>1. x \in Projects /\ OwnerOf[x] \in HeldSubs(c) /\ Slot(OwnerOf[x])
      BY <1>4 DEF LimitInv, Locked, Counted
    <2>2. plan'[OwnerOf[x]] = plan[OwnerOf[x]]
      BY <2>1
    <2>3. QED BY <2>1, <2>2 DEF Slot, ActiveOf
  <1>5. Counted'
    BY <1>1, <1>3, <1>4 DEF Counted
  <1>6. QED BY <1>2, <1>5 DEF LimitInv

LEMMA NothingAdded ==
  ASSUME TypeOK, UNCHANGED <<role, project>>
  PROVE  MembersLimited /\ ProjectsLimited
  <1>1. ASSUME NEW x \in Projects PROVE ~(Cardinality(Invited(x)') > Cardinality(Invited(x)))
    <2>1. Invited(x)' = Invited(x)
      BY DEF Invited
    <2>2. QED BY <2>1, PeopleCounted
  <1>2. ASSUME NEW p \in Owners PROVE ~(Cardinality(ActiveOf(p)') > Cardinality(ActiveOf(p)))
    <2>1. ActiveOf(p)' = ActiveOf(p)
      BY DEF ActiveOf
    <2>2. QED BY <2>1, ProjectsCounted
  <1>3. QED BY <1>1, <1>2 DEF MembersLimited, ProjectsLimited

LEMMA LimitStep ==
  ASSUME TeamInv, LimitInv, [Next]_vars
  PROVE  LimitInv' /\ MembersLimited /\ ProjectsLimited
  <1>0. TypeOK
    BY DEF TeamInv
  <1>1. ASSUME NEW c \in Calls, Inviting(c) \/ Entering(c) \/ Managing(c)
        PROVE  LimitInv' /\ MembersLimited /\ ProjectsLimited
    <2>1. LimitInv' /\ Kept(c)
      BY <1>1, InvitingKeepsLimits, EnteringKeepsLimits, ManagingKeepsLimits
    <2>2. QED BY <1>0, <2>1, KeptLimited DEF Kept
  <1>2. ASSUME NEW c \in Calls, Abort(c)
        PROVE  LimitInv' /\ MembersLimited /\ ProjectsLimited
    <2>1. UNCHANGED <<plan, role, project, invites>> /\ call'[c].step = "idle"
      BY <1>0, <1>2 DEF Abort, TypeOK, Idle
    <2>2. Monotone /\ \A d \in Calls \ {c} : call'[d] = call[d]
      BY <1>0, <1>2, <2>1, SameRows, OneMoves
    <2>3. QED BY <1>0, <2>1, <2>2, SameCounts, QuietFrame, NothingAdded DEF Holding
  <1>3. ASSUME NEW i \in DOMAIN invites, ExpireInvite(i)
        PROVE  LimitInv' /\ MembersLimited /\ ProjectsLimited
    <2>1. UNCHANGED <<plan, role, project, call>> /\ invites' = Answered({i}, "expired")
      BY <1>3 DEF ExpireInvite
    <2>2. Monotone
      BY <2>1, AnsweredRows DEF TeamInv
    <2>3. QED BY <1>0, <2>1, <2>2, OtherStepsKeepLimits, NothingAdded
  <1>4. ASSUME NEW p \in Owners, NEW to, ChangePlan(p, to)
        PROVE  LimitInv' /\ MembersLimited /\ ProjectsLimited
    <2>1. /\ UNCHANGED <<role, project, invites, call>>
          /\ \A c \in Calls : p \notin HeldSubs(c)
          /\ plan' = [plan EXCEPT ![p] = to]
      BY <1>4 DEF ChangePlan
    <2>2. \A q \in Owners : q # p => plan'[q] = plan[q]
      BY <1>0, <2>1 DEF TypeOK
    <2>3. \A x \in Projects : OwnerOf[x] \in Owners
      BY DEF Owners
    <2>4. Monotone
      BY <2>1, SameRows
    <2>5. QED BY <1>0, <2>1, <2>2, <2>3, <2>4, OtherStepsKeepLimits, NothingAdded
  <1>5. CASE UNCHANGED vars
    <2>1. UNCHANGED <<plan, role, project, invites, call>>
      BY <1>5 DEF vars
    <2>2. QED BY <1>0, <2>1, SameRows, OtherStepsKeepLimits, NothingAdded
  <1>6. QED BY <1>1, <1>2, <1>3, <1>4, <1>5 DEF Next

LEMMA LimitInit ==
  ASSUME Init
  PROVE  LimitInv
  <1>1. \A c \in Calls : call[c].step \notin Holding
    BY DEF Init, Idle, Holding
  <1>2. \A c \in Calls : /\ HeldProjects(c) = {} /\ HeldSubs(c) = {}
                         /\ Joining(c) = {} /\ Opening(c) = {}
    BY <1>1, Locks
  <1>3. QED BY <1>2 DEF LimitInv, Locked, Exclusive, Counted

LEMMA LimitInvariant ==
  /\ Init => TeamInv /\ LimitInv
  /\ TeamInv /\ LimitInv /\ [Next]_vars => (TeamInv /\ LimitInv)'
  BY TeamInit, TeamStep, LimitInit, LimitStep

\* Nobody enters a project beyond the limit of its owner's plan, whichever of
\* the direct addition, the acceptance and the login brings them in and however
\* they cross each other and the payments (ensureProjectMemberCapacity).
THEOREM MembersStayWithinPlan == Spec => MembersWithinPlan
  <1> DEFINE Within ==
        \A x \in Projects :
          Cardinality(Invited(x)') > Cardinality(Invited(x)) =>
            /\ plan[OwnerOf[x]] # NoPlan
            /\ Cardinality(Invited(x)') <= MaxInvited[plan[OwnerOf[x]]]
  <1>1. TeamInv /\ LimitInv /\ [Next]_vars => [Within]_vars
    BY LimitStep DEF MembersLimited
  <1>2. QED BY <1>1, LimitInvariant, PTL DEF Spec, MembersWithinPlan

\* No account gets an active project beyond the limit of its plan, however
\* creations, restorations and payments cross each other
\* (ensureProjectCreationAllowed).
THEOREM ProjectsStayWithinPlan == Spec => ProjectsWithinPlan
  <1> DEFINE Within ==
        \A p \in Owners :
          Cardinality(ActiveOf(p)') > Cardinality(ActiveOf(p)) =>
            /\ plan[p] # NoPlan
            /\ Cardinality(ActiveOf(p)') <= MaxProjects[plan[p]]
  <1>1. TeamInv /\ LimitInv /\ [Next]_vars => [Within]_vars
    BY LimitStep DEF ProjectsLimited
  <1>2. QED BY <1>1, LimitInvariant, PTL DEF Spec, ProjectsWithinPlan
=============================================================================
