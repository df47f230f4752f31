----------------------------- MODULE Membership -----------------------------
(***************************************************************************)
(* The members of one account: the portal's edit and deactivate forms      *)
(* (portal_members.py with membership_policy.py), and the life of an       *)
(* invite (invite_service.py).                                             *)
(*                                                                         *)
(* No request locks a row.  Each of its queries is a step of its own, and  *)
(* what it saves rests on what it read: a membership row (row), its        *)
(* actor's role (as), the status of an invite.                             *)
(***************************************************************************)
EXTENDS Naturals, FiniteSets

CONSTANTS
    Users,          \* people, each with one e-mail address
    Requests,       \* web processes
    NumInvites,     \* bound: AccountInvite rows
    MaxRequests     \* bound: requests in one behaviour

ASSUME MembershipAssumption ==
    /\ IsFiniteSet(Users)
    /\ NumInvites \in Nat /\ MaxRequests \in Nat

\* Editors, viewers and billing users may do the same here: nothing.
Roles == {"owner", "admin", "viewer"}

Rows == [role : Roles, active : BOOLEAN] \cup {[role |-> "none", active |-> FALSE]}

Invites == 1..NumInvites

VARIABLES
    member,     \* AccountMembership by user; role "none": there is no row
    invite,     \* AccountInvite: status, whose address, role, past expires_at?
    req,        \* what a request is doing, and what it has read
    upset,      \* history: requests under which a row they had read was changed, or
                \*   the owners after they had counted them
    stray,      \* history: invites created by an upset request
    met,        \* history: invites whose status two requests had read, or that
                \*   expired under one that had
    begun       \* number of requests so far

vars == <<member, invite, req, upset, stray, met, begun>>

NoRow == [role |-> "none", active |-> FALSE]

Blank == [pc |-> "none", op |-> "none", actor |-> "none", user |-> "none", inv |-> 0,
          row |-> NoRow, as |-> "none"]

Owners == {u \in Users : member[u] = [role |-> "owner", active |-> TRUE]}

\* An account has at least one active owner when it is set up; the rest of its
\* members came by invites.
Init ==
    /\ member \in [Users -> Rows] /\ Owners # {}
    /\ invite = [i \in Invites |-> [status |-> "unused", user |-> "none",
                                    role |-> "none", lapsed |-> FALSE]]
    /\ req = [r \in Requests |-> Blank]
    /\ upset = {} /\ stray = {} /\ met = {}
    /\ begun = 0

----------------------------------------------------------------------------
(* membership_policy.py                                                    *)

ActorRole(u) == IF member[u].active THEN member[u].role ELSE "none"

Manages(u) == ActorRole(u) \in {"owner", "admin"}

\* Variant: an admin may touch anybody.
TouchAny(role, target) == role \in {"owner", "admin"}

AdminMayTouchTarget(role, target) ==
    role = "owner" \/ (role = "admin" /\ target.role # "owner")

MayAssignRole(role, new) == role = "owner" \/ (role = "admin" /\ new # "owner")

\* Variant: the owner at stake is not counted.
CountsOthers(target, new, deactivate) ==
    /\ target = [role |-> "owner", active |-> TRUE]
    /\ Cardinality(Owners) < 1
    /\ deactivate \/ new # "owner"

\* Counts the owners in the database, but looks at the row it is handed.
WouldRemoveLastOwner(target, new, deactivate) ==
    /\ target = [role |-> "owner", active |-> TRUE]
    /\ Cardinality(Owners) <= 1
    /\ deactivate \/ new # "owner"

----------------------------------------------------------------------------
(* Requests                                                                *)

At(r, op, pc) == req[r].op = op /\ req[r].pc = pc

Begin(r, op, actor, user, inv) ==
    /\ req[r] = Blank /\ begun < MaxRequests
    /\ begun' = begun + 1
    /\ req' = [req EXCEPT ![r] = [Blank EXCEPT !.pc = "entered", !.op = op,
                                    !.actor = actor, !.user = user, !.inv = inv]]

\* The answer, whatever it says, ends a request.
Done(r) == req' = [req EXCEPT ![r] = Blank] /\ upset' = upset \ {r}

\* A request that ends and has changed nothing.
Refuse(r) == Done(r) /\ UNCHANGED <<member, invite, stray, met, begun>>

\* Has r read the membership row of u?  Has it counted the owners?
HasRow(r, u) ==
    /\ req[r].user = u
    /\ \/ req[r].pc \in {"allowed", "decided"}
       \/ req[r].pc = "loaded" /\ req[r].op # "accept"
HasCount(r) == At(r, "deactivate", "decided")

\* A request that saves row as the membership of u, and ends.
SaveMember(r, u, row) ==
    /\ member' = [member EXCEPT ![u] = row]
    /\ req' = [req EXCEPT ![r] = Blank]
    /\ upset' = (upset \cup {q \in Requests : \/ row # member[u] /\ HasRow(q, u)
                                              \/ Owners' # Owners /\ HasCount(q)}) \ {r}

----------------------------------------------------------------------------
(* member_edit (POST) and member_deactivate                                *)

\* The decorator portal_manage_required; the form names a membership.
EnterMember(r, op, a, u) ==
    /\ Manages(a) /\ member[u].role # "none"
    /\ Begin(r, op, a, u, 0)
    /\ UNCHANGED <<member, invite, upset, stray, met>>

LoadMember(r) ==
    /\ At(r, "edit", "entered") \/ At(r, "deactivate", "entered")
    /\ req' = [req EXCEPT ![r].pc = "loaded", ![r].row = member[req[r].user]]
    /\ UNCHANGED <<member, invite, upset, stray, met, begun>>

\* _membership_for_actor, with actor_role a query after the row's; nobody
\* deactivates himself.
MembershipForActor(r) ==
    /\ At(r, "edit", "loaded") \/ At(r, "deactivate", "loaded")
    /\ LET as == ActorRole(req[r].actor)
           ok == /\ AdminMayTouchTarget(as, req[r].row)
                 /\ req[r].op = "deactivate" => req[r].actor # req[r].user
       IN  \/ /\ ok
              /\ req' = [req EXCEPT ![r].pc = "allowed", ![r].as = as]
              /\ UNCHANGED <<member, invite, upset, stray, met, begun>>
           \/ ~ok /\ Refuse(r)

\* The checks of member_edit on the row m it holds and the cleaned data.
EditRefused(as, m, new) ==
    \/ ~MayAssignRole(as, new.role)
    \/ ~new.active /\ WouldRemoveLastOwner(m, new.role, TRUE)
    \/ new.active /\ new.role # m.role /\ WouldRemoveLastOwner(m, new.role, FALSE)

\* The actor's role is read again.  is_valid() of the ModelForm has written the
\* cleaned data into the row before the checks look at it.
CheckEdit(r) ==
    /\ At(r, "edit", "allowed")
    /\ \E new \in Rows \ {NoRow} :
        \/ /\ ~EditRefused(ActorRole(req[r].actor), new, new)
           /\ req' = [req EXCEPT ![r].pc = "decided", ![r].row = new]
           /\ UNCHANGED <<member, invite, upset, stray, met, begun>>
        \/ EditRefused(ActorRole(req[r].actor), new, new) /\ Refuse(r)

SaveEdit(r) ==
    /\ At(r, "edit", "decided")
    /\ SaveMember(r, req[r].user, req[r].row)
    /\ UNCHANGED <<invite, stray, met, begun>>

CheckDeactivate(r) ==
    /\ At(r, "deactivate", "allowed")
    /\ \/ /\ ~WouldRemoveLastOwner(req[r].row, "none", TRUE)
          /\ req' = [req EXCEPT ![r].pc = "decided"]
          /\ UNCHANGED <<member, invite, upset, stray, met, begun>>
       \/ WouldRemoveLastOwner(req[r].row, "none", TRUE) /\ Refuse(r)

\* Only is_active is saved, not the role the request has read.
SaveDeactivate(r) ==
    /\ At(r, "deactivate", "decided")
    /\ SaveMember(r, req[r].user, [member[req[r].user] EXCEPT !.active = FALSE])
    /\ UNCHANGED <<invite, stray, met, begun>>

----------------------------------------------------------------------------
(* members_invite, invite_cancel, invite_resend                            *)

EnterInvite(r, a, u) ==
    /\ Manages(a)
    /\ Begin(r, "invite", a, u, 0)
    /\ UNCHANGED <<member, invite, upset, stray, met>>

\* The inviter's role is read again, for the choices of PortalInviteForm.
ChooseRole(r) ==
    /\ At(r, "invite", "entered")
    /\ \E role \in Roles :
        /\ role = "owner" => ActorRole(req[r].actor) = "owner"
        /\ req' = [req EXCEPT ![r].pc = "chosen", ![r].row.role = role]
    /\ UNCHANGED <<member, invite, upset, stray, met, begun>>

\* Variant: only active members are in the way, as when one accepts.
InviteInactive(r) ==
    /\ At(r, "invite", "chosen")
    /\ \/ /\ ~member[req[r].user].active
          /\ req' = [req EXCEPT ![r].pc = "loaded"]
          /\ UNCHANGED <<member, invite, upset, stray, met, begun>>
       \/ member[req[r].user].active /\ Refuse(r)

\* create_invite: no membership row with that address, not even an inactive one.
CheckLinked(r) ==
    /\ At(r, "invite", "chosen")
    /\ \/ /\ member[req[r].user].role = "none"
          /\ req' = [req EXCEPT ![r].pc = "loaded"]
          /\ UNCHANGED <<member, invite, upset, stray, met, begun>>
       \/ member[req[r].user].role # "none" /\ Refuse(r)

\* One pending invite per address: checked first, and a unique constraint.  The
\* plan's limit may refuse as well.
InsertInvite(r) ==
    /\ At(r, "invite", "loaded")
    /\ \/ /\ \A i \in Invites :
                ~(invite[i].status = "pending" /\ invite[i].user = req[r].user)
          /\ \E i \in Invites :
              /\ invite[i].status = "unused"
              /\ \A j \in Invites : j < i => invite[j].status # "unused"
              /\ invite' = [invite EXCEPT ![i] = [status |-> "pending",
                     user |-> req[r].user, role |-> req[r].row.role, lapsed |-> FALSE]]
              /\ stray' = IF r \in upset THEN stray \cup {i} ELSE stray
          /\ Done(r)
          /\ UNCHANGED <<member, met, begun>>
       \/ Refuse(r)

EnterInviteAction(r, op, a, i) ==
    /\ Manages(a) /\ invite[i].status # "unused"
    /\ Begin(r, op, a, "none", i)
    /\ UNCHANGED <<member, invite, upset, stray, met>>

\* Has r read the status of invite i, and will it save it?
HasInvite(r, i) == req[r].inv = i /\ req[r].pc \in {"loaded", "decided"}

ReadInvite(r, pc) ==
    /\ req' = [req EXCEPT ![r].pc = pc]
    /\ met' = IF \E q \in Requests : HasInvite(q, req[r].inv)
              THEN met \cup {req[r].inv} ELSE met
    /\ UNCHANGED <<member, invite, upset, stray, begun>>

\* Variant: cancelled whatever its status.
LoadAnyInvite(r) ==
    /\ At(r, "cancel", "entered") \/ At(r, "resend", "entered")
    /\ ReadInvite(r, "loaded")

\* get_object_or_404, and the status check on the row it returned.
LoadInvite(r) ==
    /\ At(r, "cancel", "entered") \/ At(r, "resend", "entered")
    /\ \/ invite[req[r].inv].status = "pending" /\ ReadInvite(r, "loaded")
       \/ invite[req[r].inv].status # "pending" /\ Refuse(r)

CancelInvite(r) ==
    /\ At(r, "cancel", "loaded")
    /\ invite' = [invite EXCEPT ![req[r].inv].status = "cancelled"]
    /\ Done(r)
    /\ UNCHANGED <<member, stray, met, begun>>

\* A new token and a new expires_at; the status is not saved.
ResendInvite(r) ==
    /\ At(r, "resend", "loaded")
    /\ invite' = [invite EXCEPT ![req[r].inv].lapsed = FALSE]
    /\ Done(r)
    /\ UNCHANGED <<member, stray, met, begun>>

----------------------------------------------------------------------------
(* The invited                                                             *)

TimePasses(i) ==
    /\ invite[i].status # "unused" /\ ~invite[i].lapsed
    /\ invite' = [invite EXCEPT ![i].lapsed = TRUE]
    /\ UNCHANGED <<member, req, upset, stray, met, begun>>

\* The link of a lapsed invite is opened: get_pending_invite_by_raw_token
\* expires it in one conditional UPDATE.
ExpireInvite(i) ==
    /\ invite[i].status = "pending" /\ invite[i].lapsed
    /\ invite' = [invite EXCEPT ![i].status = "expired"]
    /\ met' = IF \E q \in Requests : HasInvite(q, i) THEN met \cup {i} ELSE met
    /\ UNCHANGED <<member, req, upset, stray, begun>>

\* The accept page, or the sign-up page of a user who is created with it.
OpenLink(r, i) ==
    /\ invite[i].status = "pending" /\ ~invite[i].lapsed
    /\ Begin(r, "accept", invite[i].user, invite[i].user, i)
    /\ UNCHANGED <<member, invite, upset, stray, met>>

\* accept_invite looks the invite up again, in its transaction: what it would
\* expire here is rolled back with the ValueError.
ReadPending(r) ==
    /\ At(r, "accept", "entered")
    /\ LET inv == invite[req[r].inv] IN
        \/ inv.status = "pending" /\ ~inv.lapsed /\ ReadInvite(r, "loaded")
        \/ ~(inv.status = "pending" /\ ~inv.lapsed) /\ Refuse(r)

\* No active membership, and a seat left.
CheckMember(r) ==
    /\ At(r, "accept", "loaded")
    /\ \/ /\ ~member[req[r].user].active
          /\ req' = [req EXCEPT ![r].pc = "decided"]
          /\ UNCHANGED <<member, invite, upset, stray, met, begun>>
       \/ Refuse(r)

\* The row is created, or an existing one given the invite's role and made
\* active, and the invite is saved as accepted: one commit.
AcceptInvite(r) ==
    /\ At(r, "accept", "decided")
    /\ SaveMember(r, req[r].user, [role |-> invite[req[r].inv].role, active |-> TRUE])
    /\ invite' = [invite EXCEPT ![req[r].inv].status = "accepted"]
    /\ UNCHANGED <<stray, met, begun>>

----------------------------------------------------------------------------

ManageMember(r) ==
    \/ \E op \in {"edit", "deactivate"}, a, u \in Users : EnterMember(r, op, a, u)
    \/ LoadMember(r) \/ MembershipForActor(r)
    \/ CheckEdit(r) \/ SaveEdit(r)
    \/ CheckDeactivate(r) \/ SaveDeactivate(r)

ManageInvite(r) ==
    \/ \E a, u \in Users : EnterInvite(r, a, u)
    \/ ChooseRole(r) \/ CheckLinked(r) \/ InsertInvite(r)
    \/ \E op \in {"cancel", "resend"}, a \in Users, i \in Invites :
        EnterInviteAction(r, op, a, i)
    \/ LoadInvite(r) \/ CancelInvite(r) \/ ResendInvite(r)

Accept(r) ==
    \/ \E i \in Invites : OpenLink(r, i)
    \/ ReadPending(r) \/ CheckMember(r) \/ AcceptInvite(r)

Next ==
    \/ \E r \in Requests : ManageMember(r) \/ ManageInvite(r) \/ Accept(r)
    \/ \E i \in Invites : TimePasses(i) \/ ExpireInvite(i)

Spec == Init /\ [][Next]_vars

----------------------------------------------------------------------------
(* Properties                                                              *)

InviteRows ==
    [status : {"unused", "pending", "accepted", "cancelled", "expired"},
     user : Users \cup {"none"}, role : Roles \cup {"none"}, lapsed : BOOLEAN]

RequestRows ==
    [pc : {"none", "entered", "chosen", "loaded", "allowed", "decided"},
     op : {"none", "edit", "deactivate", "invite", "cancel", "resend", "accept"},
     actor : Users \cup {"none"}, user : Users \cup {"none"}, inv : {0} \cup Invites,
     row : [role : Roles \cup {"none"}, active : BOOLEAN], as : Roles \cup {"none"}]

\* What a request holds at each point.
Consistent(r) ==
    \/ req[r] = Blank
    \/ /\ req[r].op \in {"edit", "deactivate"} /\ req[r].inv = 0
       /\ req[r].pc \in {"entered", "loaded", "allowed", "decided"}
       /\ req[r].user \in Users /\ member[req[r].user].role # "none"
       /\ At(r, "edit", "decided") => req[r].row.role # "none"
    \/ /\ req[r].op = "invite" /\ req[r].inv = 0 /\ req[r].as = "none"
       /\ req[r].pc \in {"entered", "chosen", "loaded"}
       /\ req[r].user \in Users
       /\ req[r].pc # "entered" => req[r].row.role # "none"
    \/ /\ req[r].op \in {"cancel", "resend"} /\ req[r].as = "none"
       /\ req[r].pc \in {"entered", "loaded"}
       /\ req[r].inv \in Invites /\ invite[req[r].inv].status # "unused"
    \/ /\ req[r].op = "accept" /\ req[r].as = "none"
       /\ req[r].pc \in {"entered", "loaded", "decided"}
       /\ req[r].inv \in Invites /\ invite[req[r].inv].status # "unused"
       /\ req[r].user \in Users /\ req[r].user = invite[req[r].inv].user

\* Types, and what members, invites and requests have to do with each other.
TypeOK ==
    /\ member \in [Users -> Rows]
    /\ invite \in [Invites -> InviteRows]
    /\ \A i \in Invites : invite[i].status # "unused" =>
            invite[i].user \in Users /\ invite[i].role \in Roles
    /\ req \in [Requests -> RequestRows]
    /\ \A r \in Requests : Consistent(r)
    /\ upset \subseteq Requests /\ stray \subseteq Invites /\ met \subseteq Invites
    /\ begun \in 0..MaxRequests

Ends(r) == req[r] # Blank /\ req'[r] = Blank

\* The account loses its last owner only by the edit form, or by a request under
\* which the row it had read, or the owners it had counted, were changed: no
\* deactivation and no accepted invite does so on true information.
OwnerlessByFormOrRace ==
    [][Owners # {} /\ Owners' = {} =>
        \E r \in Requests : Ends(r) /\ (req[r].op = "edit" \/ r \in upset)]_vars

\* An admin's request never takes an owner's role or access away, unless the
\* row it had read was changed meanwhile.
AdminsSpareOwners ==
    [][\A r \in Requests : Ends(r) /\ req[r].as = "admin" /\ r \notin upset =>
        Owners \subseteq Owners']_vars

\* A deactivated member comes back by the edit form alone: no old invite lets him
\* in again, unless one to his address was created as he joined by another, or was
\* in the hands of two requests at once.
DeactivationSticks ==
    [][\A u \in Users :
        member[u].role # "none" /\ ~member[u].active /\ member'[u].active =>
            \/ \E r \in Requests : Ends(r) /\ req[r].op = "edit"
            \/ \E i \in stray \cup met : invite[i].user = u]_vars

\* An invite that was accepted, cancelled or has expired stays so, unless two
\* requests had read its status before either saved it, or it expired under one.
InviteSettlesOnce ==
    [][\A i \in Invites \ met' :
        invite[i].status \in {"accepted", "cancelled", "expired"} =>
            invite'[i].status = invite[i].status]_vars

\* portal_members.py:150 of any edit: "Cannot remove the last owner".
LastOwnerStays == Owners # {}
=============================================================================
