------------------------- MODULE Membership_proofs --------------------------
(* Proofs about Membership, for any users, requests and invites.           *)
EXTENDS Membership, FiniteSetTheorems, TLAPS

----------------------------------------------------------------------------
(* Types                                                                   *)

\* The row of a request that has just begun or has ended.
LEMMA BlankRow == Blank \in RequestRows
  BY DEF Blank, RequestRows, Roles, NoRow

\* What a request is, by its kind.
LEMMA Shape ==
    ASSUME TypeOK, NEW r \in Requests
    PROVE  /\ req[r] \in RequestRows
           /\ req[r].op \in {"edit", "deactivate"} =>
                /\ req[r].inv = 0
                /\ req[r].pc \in {"entered", "loaded", "allowed", "decided"}
                /\ req[r].user \in Users /\ member[req[r].user].role # "none"
                /\ req[r].op = "edit" /\ req[r].pc = "decided" => req[r].row.role # "none"
           /\ req[r].op = "invite" =>
                /\ req[r].inv = 0 /\ req[r].as = "none"
                /\ req[r].pc \in {"entered", "chosen", "loaded"}
                /\ req[r].user \in Users
                /\ req[r].pc # "entered" => req[r].row.role # "none"
           /\ req[r].op \in {"cancel", "resend", "accept"} =>
                /\ req[r].as = "none"
                /\ req[r].inv \in Invites /\ invite[req[r].inv].status # "unused"
           /\ req[r].op = "accept" =>
                req[r].user \in Users /\ req[r].user = invite[req[r].inv].user
           /\ req[r].op = "none" => req[r] = Blank
  BY DEF TypeOK, Consistent, At, Blank

\* A request that goes on with a row it has read.
LEMMA RequestFields ==
    ASSUME TypeOK, NEW r \in Requests, NEW pc \in {"chosen", "loaded", "decided"},
           NEW row \in [role : Roles \cup {"none"}, active : BOOLEAN]
    PROVE  [req[r] EXCEPT !.pc = pc, !.row = row] \in RequestRows
  <1>1. req[r] \in RequestRows
    BY DEF TypeOK
  <1> HIDE DEF TypeOK
  <1> QED BY <1>1 DEF RequestRows

\* An invite whose status or expiry is changed.
LEMMA InviteFields ==
    ASSUME TypeOK, NEW i \in Invites, invite[i].status # "unused", NEW lapsed \in BOOLEAN,
           NEW status \in {"accepted", "cancelled", "expired"},
           \/ invite' = [invite EXCEPT ![i].status = status]
           \/ invite' = [invite EXCEPT ![i].lapsed = lapsed]
    PROVE  /\ invite' \in [Invites -> InviteRows]
           /\ \A j \in Invites : /\ invite'[j].user = invite[j].user
                                 /\ invite'[j].role = invite[j].role
                                 /\ invite'[j].status # "unused" <=> invite[j].status # "unused"
                                 /\ j # i => invite'[j] = invite[j]
  <1>1. invite \in [Invites -> InviteRows]
    BY DEF TypeOK
  <1> HIDE DEF TypeOK
  <1>2. CASE invite' = [invite EXCEPT ![i].status = status]
    BY <1>1, <1>2 DEF InviteRows
  <1>3. CASE invite' = [invite EXCEPT ![i].lapsed = lapsed]
    BY <1>1, <1>3 DEF InviteRows
  <1> QED BY <1>2, <1>3

\* A step that moves one request, and leaves rows and invites what they need to
\* be for the others, keeps the requests consistent.
LEMMA KeepsConsistent ==
    ASSUME TypeOK, NEW r \in Requests, NEW q \in RequestRows,
           req' = [req EXCEPT ![r] = q], Consistent(r)',
           \A u \in Users : member[u].role # "none" => member'[u].role # "none",
           \A i \in Invites : invite[i].status # "unused" =>
                invite'[i].status # "unused" /\ invite'[i].user = invite[i].user
    PROVE  req' \in [Requests -> RequestRows] /\ \A p \in Requests : Consistent(p)'
  <1>1. req' \in [Requests -> RequestRows]
    BY DEF TypeOK
  <1>2. ASSUME NEW p \in Requests, p # r PROVE Consistent(p)'
    <2>1. req'[p] = req[p] /\ Consistent(p)
      BY <1>2 DEF TypeOK
    <2> QED BY <2>1 DEF Consistent, At
  <1> QED BY <1>1, <1>2

\* The type invariant holds at first.
LEMMA TypedInit == Init => TypeOK
  BY BlankRow, MembershipAssumption DEF Init, TypeOK, InviteRows, Consistent, Rows

\* Every step keeps the types.
LEMMA TypedStep == TypeOK /\ [Next]_vars => TypeOK'
  <1> SUFFICES ASSUME TypeOK, [Next]_vars PROVE TypeOK'
    OBVIOUS
  <1> USE MembershipAssumption
  <1>a. ASSUME NEW r \in Requests, NEW q \in RequestRows, req' = [req EXCEPT ![r] = q],
               Consistent(r)', UNCHANGED <<member, invite, stray>>,
               upset' \subseteq Requests, met' \subseteq Invites, begun' \in 0..MaxRequests
        PROVE  TypeOK'
    BY <1>a, KeepsConsistent, Shape DEF TypeOK
  <1>b. ASSUME NEW r \in Requests, Refuse(r) PROVE TypeOK'
    <2>1. req' = [req EXCEPT ![r] = Blank] /\ req'[r] = Blank
      BY <1>b DEF Refuse, Done, TypeOK
    <2>2. Consistent(r)'
      BY <2>1 DEF Consistent
    <2> QED BY <1>a, <1>b, <2>1, <2>2, BlankRow DEF Refuse, Done, TypeOK
  \* A request that begins.
  <1>c. ASSUME NEW r \in Requests,
               NEW op \in {"edit", "deactivate", "invite", "cancel", "resend", "accept"},
               NEW a \in Users, NEW u \in Users \cup {"none"}, NEW i \in {0} \cup Invites,
               Begin(r, op, a, u, i)
        PROVE  \E q \in RequestRows :
                /\ req' = [req EXCEPT ![r] = q] /\ req'[r] = q
                /\ q.pc = "entered" /\ q.op = op /\ q.actor = a /\ q.user = u /\ q.inv = i
                /\ q.as = "none"
                /\ begun' \in 0..MaxRequests
    <2> DEFINE q == [Blank EXCEPT !.pc = "entered", !.op = op, !.actor = a, !.user = u, !.inv = i]
    <2>1. q \in RequestRows /\ q.as = "none"
      BY DEF Blank, RequestRows, Roles, NoRow
    <2>2. req' = [req EXCEPT ![r] = q] /\ req'[r] = q
      BY <1>c DEF Begin, TypeOK
    <2>3. q.pc = "entered" /\ q.op = op /\ q.actor = a /\ q.user = u /\ q.inv = i
      BY DEF Blank
    <2>4. begun' \in 0..MaxRequests
      BY <1>c DEF Begin, TypeOK
    <2> QED BY <2>1, <2>2, <2>3, <2>4
  \* A request that goes on.
  <1>d. ASSUME NEW r \in Requests, NEW pc \in {"entered", "chosen", "loaded", "allowed", "decided"},
               req' = [req EXCEPT ![r].pc = pc]
        PROVE  \E q \in RequestRows :
                /\ req' = [req EXCEPT ![r] = q] /\ req'[r] = q
                /\ q.pc = pc /\ q.op = req[r].op /\ q.user = req[r].user
                /\ q.inv = req[r].inv /\ q.row = req[r].row /\ q.as = req[r].as
    <2> DEFINE q == [req[r] EXCEPT !.pc = pc]
    <2>1. q \in RequestRows /\ req' = [req EXCEPT ![r] = q] /\ req'[r] = q
      BY <1>d, SMTT(30) DEF TypeOK, RequestRows
    <2> QED BY <2>1, ZenonT(60) DEF TypeOK, RequestRows
  <1>1. ASSUME NEW r \in Requests, NEW op \in {"edit", "deactivate"}, NEW a \in Users,
               NEW u \in Users, EnterMember(r, op, a, u)
        PROVE  TypeOK'
    <2>1. PICK q \in RequestRows :
                /\ req' = [req EXCEPT ![r] = q] /\ req'[r] = q
                /\ q.pc = "entered" /\ q.op = op /\ q.actor = a /\ q.user = u /\ q.inv = 0
                /\ q.as = "none"
                /\ begun' \in 0..MaxRequests
      BY <1>1, <1>c DEF EnterMember
    <2>2. Consistent(r)'
      BY <1>1, <2>1 DEF EnterMember, Consistent, At
    <2> QED BY <1>1, <1>a, <2>1, <2>2 DEF EnterMember, TypeOK
  <1>2. ASSUME NEW r \in Requests, LoadMember(r) PROVE TypeOK'
    <2> DEFINE q == [req[r] EXCEPT !.pc = "loaded", !.row = member[req[r].user]]
    <2>1. req[r].user \in Users /\ member[req[r].user].role # "none" /\ req[r].inv = 0
      BY <1>2, Shape DEF LoadMember, At
    <2>a. member[req[r].user] \in [role : Roles \cup {"none"}, active : BOOLEAN]
      BY <2>1 DEF TypeOK, Rows
    <2>b. q \in RequestRows
      BY <2>a, RequestFields
    <2>2. q \in RequestRows /\ req' = [req EXCEPT ![r] = q] /\ req'[r] = q
      BY <1>2, <2>b DEF LoadMember, TypeOK
    <2>3. Consistent(r)'
      BY <1>2, <2>1, <2>2, Shape DEF LoadMember, At, TypeOK, Consistent, RequestRows
    <2> QED BY <1>2, <1>a, <2>2, <2>3 DEF LoadMember, TypeOK
  <1>3. ASSUME NEW r \in Requests, MembershipForActor(r) PROVE TypeOK'
    <2> DEFINE as == ActorRole(req[r].actor)
               q == [req[r] EXCEPT !.pc = "allowed", !.as = as]
    <2>1. CASE /\ AdminMayTouchTarget(as, req[r].row)
               /\ req' = [req EXCEPT ![r].pc = "allowed", ![r].as = as]
               /\ UNCHANGED <<member, invite, upset, stray, met, begun>>
      <3>1. as \in Roles
        BY <2>1 DEF AdminMayTouchTarget, Roles
      <3>2. q \in RequestRows /\ req' = [req EXCEPT ![r] = q] /\ req'[r] = q
        BY <2>1, <3>1, ZenonT(60) DEF TypeOK, RequestRows
      <3>3. Consistent(r)'
        BY <1>3, <2>1, <3>2, Shape DEF MembershipForActor, At, TypeOK, Consistent, RequestRows
      <3> HIDE DEF q, as
      <3> QED BY <2>1, <3>2, <3>3, <1>a DEF TypeOK
    <2> QED BY <1>3, <1>b, <2>1 DEF MembershipForActor
  <1>4. ASSUME NEW r \in Requests, CheckEdit(r) PROVE TypeOK'
    <2>1. ASSUME NEW new \in Rows \ {NoRow},
                 req' = [req EXCEPT ![r].pc = "decided", ![r].row = new],
                 UNCHANGED <<member, invite, upset, stray, met, begun>>
          PROVE  TypeOK'
      <3> DEFINE q == [req[r] EXCEPT !.pc = "decided", !.row = new]
      <3>1. new \in [role : Roles \cup {"none"}, active : BOOLEAN] /\ new.role # "none"
        BY DEF Rows, NoRow, Roles
      <3>2. q \in RequestRows /\ req' = [req EXCEPT ![r] = q] /\ req'[r] = q
        BY <2>1, <3>1, ZenonT(60) DEF TypeOK, RequestRows
      <3>3. Consistent(r)'
        BY <1>4, <2>1, <3>1, <3>2, Shape DEF CheckEdit, At, TypeOK, Consistent, RequestRows
      <3> HIDE DEF q
      <3> QED BY <2>1, <3>2, <3>3, <1>a DEF TypeOK
    <2> QED BY <1>4, <1>b, <2>1 DEF CheckEdit
  <1>5. ASSUME NEW r \in Requests, NEW u \in Users, NEW row \in Rows \ {NoRow},
               SaveMember(r, u, row), UNCHANGED <<stray, met, begun>>,
               invite' \in [Invites -> InviteRows],
               \A i \in Invites : /\ invite[i].status # "unused" => invite'[i].status # "unused"
                                  /\ invite'[i].user = invite[i].user
                                  /\ invite'[i].role = invite[i].role
                                  /\ invite'[i].status # "unused" => invite[i].status # "unused"
        PROVE  TypeOK'
    <2>1. member' \in [Users -> Rows]
      BY <1>5 DEF SaveMember, TypeOK
    <2>2. row.role # "none" /\ \A v \in Users : member[v].role # "none" => member'[v].role # "none"
      BY <1>5 DEF SaveMember, TypeOK, Rows, NoRow, Roles
    <2>3. req' = [req EXCEPT ![r] = Blank] /\ req'[r] = Blank
      BY <1>5 DEF SaveMember, TypeOK
    <2>4. Consistent(r)'
      BY <2>3 DEF Consistent
    <2>5. req' \in [Requests -> RequestRows] /\ \A p \in Requests : Consistent(p)'
      BY <1>5, <2>2, <2>3, <2>4, KeepsConsistent, BlankRow
    <2>6. upset' \subseteq Requests
      BY <1>5 DEF SaveMember, TypeOK
    <2> QED BY <1>5, <2>1, <2>5, <2>6 DEF TypeOK
  <1>6. ASSUME NEW r \in Requests, SaveEdit(r) PROVE TypeOK'
    <2>1. req[r].user \in Users /\ req[r].row \in Rows \ {NoRow}
      BY <1>6, Shape DEF SaveEdit, At, TypeOK, Consistent, RequestRows, Rows, NoRow, Blank
    <2> QED BY <1>5, <1>6, <2>1 DEF SaveEdit, TypeOK
  <1>7. ASSUME NEW r \in Requests, CheckDeactivate(r) PROVE TypeOK'
    <2>1. CASE /\ req' = [req EXCEPT ![r].pc = "decided"]
               /\ UNCHANGED <<member, invite, upset, stray, met, begun>>
      <3>1. PICK q \in RequestRows :
                /\ req' = [req EXCEPT ![r] = q] /\ req'[r] = q
                /\ q.pc = "decided" /\ q.op = req[r].op /\ q.user = req[r].user
                /\ q.inv = req[r].inv /\ q.row = req[r].row /\ q.as = req[r].as
        BY <2>1, <1>d
      <3>2. Consistent(r)'
        BY <1>7, <2>1, <3>1, Shape DEF CheckDeactivate, At, TypeOK, Consistent
      <3> QED BY <2>1, <3>1, <3>2, <1>a DEF TypeOK
    <2> QED BY <1>7, <1>b, <2>1 DEF CheckDeactivate
  <1>8. ASSUME NEW r \in Requests, SaveDeactivate(r) PROVE TypeOK'
    <2>1. req[r].user \in Users /\ member[req[r].user].role # "none"
      BY <1>8, Shape DEF SaveDeactivate, At, TypeOK, Consistent, Blank
    <2>a. member[req[r].user] \in [role : Roles, active : BOOLEAN]
      BY <2>1 DEF TypeOK, Rows
    <2>2. [member[req[r].user] EXCEPT !.active = FALSE] \in Rows \ {NoRow}
      BY <2>a DEF Rows, NoRow, Roles
    <2> QED BY <1>5, <1>8, <2>1, <2>2 DEF SaveDeactivate, TypeOK
  <1>9. ASSUME NEW r \in Requests, NEW a \in Users, NEW u \in Users, EnterInvite(r, a, u)
        PROVE  TypeOK'
    <2>1. PICK q \in RequestRows :
                /\ req' = [req EXCEPT ![r] = q] /\ req'[r] = q
                /\ q.pc = "entered" /\ q.op = "invite" /\ q.actor = a /\ q.user = u /\ q.inv = 0
                /\ q.as = "none"
                /\ begun' \in 0..MaxRequests
      BY <1>9, <1>c DEF EnterInvite
    <2>2. Consistent(r)'
      BY <1>9, <2>1 DEF EnterInvite, Consistent, At
    <2> QED BY <1>9, <1>a, <2>1, <2>2 DEF EnterInvite, TypeOK
  <1>10. ASSUME NEW r \in Requests, ChooseRole(r) PROVE TypeOK'
    <2>1. PICK role \in Roles : req' = [req EXCEPT ![r].pc = "chosen", ![r].row.role = role]
      BY <1>10 DEF ChooseRole
    <2> DEFINE q == [req[r] EXCEPT !.pc = "chosen", !.row.role = role]
    <2>a. [req[r].row EXCEPT !.role = role] \in [role : Roles \cup {"none"}, active : BOOLEAN]
      BY DEF TypeOK, RequestRows
    <2>b. q = [req[r] EXCEPT !.pc = "chosen", !.row = [req[r].row EXCEPT !.role = role]]
      BY DEF TypeOK, RequestRows
    <2>c. q \in RequestRows
      BY <2>a, <2>b, RequestFields
    <2>2. q \in RequestRows /\ req' = [req EXCEPT ![r] = q] /\ req'[r] = q
      BY <2>1, <2>c DEF TypeOK
    <2>3. Consistent(r)'
      BY <1>10, <2>1, <2>2, Shape DEF ChooseRole, At, TypeOK, Consistent, RequestRows, Roles
    <2> HIDE DEF q
    <2> QED BY <1>10, <2>2, <2>3, <1>a DEF ChooseRole, TypeOK
  <1>11. ASSUME NEW r \in Requests, CheckLinked(r) PROVE TypeOK'
    <2>1. CASE /\ req' = [req EXCEPT ![r].pc = "loaded"]
               /\ UNCHANGED <<member, invite, upset, stray, met, begun>>
      <3>1. PICK q \in RequestRows :
                /\ req' = [req EXCEPT ![r] = q] /\ req'[r] = q
                /\ q.pc = "loaded" /\ q.op = req[r].op /\ q.user = req[r].user
                /\ q.inv = req[r].inv /\ q.row = req[r].row /\ q.as = req[r].as
        BY <2>1, <1>d
      <3>2. Consistent(r)'
        BY <1>11, <2>1, <3>1, Shape DEF CheckLinked, At, TypeOK, Consistent
      <3> QED BY <2>1, <3>1, <3>2, <1>a DEF TypeOK
    <2> QED BY <1>11, <1>b, <2>1 DEF CheckLinked
  <1>12. ASSUME NEW r \in Requests, InsertInvite(r) PROVE TypeOK'
    <2>1. ASSUME NEW i \in Invites, invite[i].status = "unused",
                 invite' = [invite EXCEPT ![i] = [status |-> "pending",
                     user |-> req[r].user, role |-> req[r].row.role, lapsed |-> FALSE]],
                 stray' = IF r \in upset THEN stray \cup {i} ELSE stray,
                 Done(r), UNCHANGED <<member, met, begun>>
          PROVE  TypeOK'
      <3>1. req[r].user \in Users /\ req[r].row.role \in Roles
        BY <1>12, Shape DEF InsertInvite, At, TypeOK, Consistent, RequestRows, Blank
      <3>2. invite' \in [Invites -> InviteRows]
        BY <2>1, <3>1 DEF TypeOK, InviteRows
      <3>3. \A j \in Invites : invite'[j].status # "unused" =>
                invite'[j].user \in Users /\ invite'[j].role \in Roles
        BY <2>1, <3>1 DEF TypeOK
      <3>4. \A j \in Invites : invite[j].status # "unused" =>
                invite'[j].status # "unused" /\ invite'[j].user = invite[j].user
        BY <2>1 DEF TypeOK
      <3>5. req' = [req EXCEPT ![r] = Blank] /\ req'[r] = Blank
        BY <2>1 DEF Done, TypeOK
      <3>6. Consistent(r)'
        BY <3>5 DEF Consistent
      <3>7. req' \in [Requests -> RequestRows] /\ \A p \in Requests : Consistent(p)'
        BY <2>1, <3>4, <3>5, <3>6, KeepsConsistent, BlankRow
      <3> QED BY <2>1, <3>2, <3>3, <3>7 DEF TypeOK, Done
    <2> QED BY <1>12, <1>b, <2>1 DEF InsertInvite
  <1>13. ASSUME NEW r \in Requests, NEW op \in {"cancel", "resend"}, NEW a \in Users,
                NEW i \in Invites, EnterInviteAction(r, op, a, i)
         PROVE  TypeOK'
    <2>1. PICK q \in RequestRows :
                /\ req' = [req EXCEPT ![r] = q] /\ req'[r] = q
                /\ q.pc = "entered" /\ q.op = op /\ q.actor = a /\ q.user = "none" /\ q.inv = i
                /\ q.as = "none"
                /\ begun' \in 0..MaxRequests
      BY <1>13, <1>c, Invites \subseteq {0} \cup Invites DEF EnterInviteAction
    <2>2. Consistent(r)'
      BY <1>13, <2>1 DEF EnterInviteAction, Consistent, At
    <2> QED BY <1>13, <1>a, <2>1, <2>2 DEF EnterInviteAction, TypeOK
  <1>14. ASSUME NEW r \in Requests, req[r].op \in {"cancel", "resend", "accept"},
                req[r].pc = "entered", ReadInvite(r, "loaded")
         PROVE  TypeOK'
    <2>1. PICK q \in RequestRows :
              /\ req' = [req EXCEPT ![r] = q] /\ req'[r] = q
              /\ q.pc = "loaded" /\ q.op = req[r].op /\ q.user = req[r].user
              /\ q.inv = req[r].inv /\ q.row = req[r].row /\ q.as = req[r].as
      BY <1>14, <1>d DEF ReadInvite
    <2>2. Consistent(r)' /\ req[r].inv \in Invites
      BY <1>14, <2>1, Shape DEF ReadInvite, At, TypeOK, Consistent, Blank
    <2> QED BY <1>14, <2>1, <2>2, <1>a DEF TypeOK, ReadInvite
  <1>15. ASSUME NEW r \in Requests, LoadInvite(r) PROVE TypeOK'
    BY <1>15, <1>14, <1>b DEF LoadInvite, At
  <1>16. ASSUME NEW r \in Requests, CancelInvite(r) \/ ResendInvite(r) PROVE TypeOK'
    <2>1. req[r].inv \in Invites /\ invite[req[r].inv].status # "unused"
      BY <1>16, Shape DEF CancelInvite, ResendInvite, At, TypeOK, Consistent, Blank
    <2>2. /\ invite' \in [Invites -> InviteRows]
          /\ \A j \in Invites : /\ invite'[j].user = invite[j].user
                                /\ invite'[j].role = invite[j].role
                                /\ invite'[j].status # "unused" <=> invite[j].status # "unused"
      <3>1. CASE CancelInvite(r)
        BY <2>1, <3>1, InviteFields, invite' = [invite EXCEPT ![req[r].inv].status = "cancelled"]
        DEF CancelInvite
      <3>2. CASE ResendInvite(r)
        BY <2>1, <3>2, InviteFields, invite' = [invite EXCEPT ![req[r].inv].lapsed = FALSE]
        DEF ResendInvite
      <3> QED BY <1>16, <3>1, <3>2
    <2>3. req' = [req EXCEPT ![r] = Blank] /\ req'[r] = Blank
      BY <1>16 DEF CancelInvite, ResendInvite, Done, TypeOK
    <2>4. Consistent(r)'
      BY <2>3 DEF Consistent
    <2>5. req' \in [Requests -> RequestRows] /\ \A p \in Requests : Consistent(p)'
      BY <1>16, <2>2, <2>3, <2>4, KeepsConsistent, BlankRow DEF CancelInvite, ResendInvite
    <2> QED BY <1>16, <2>2, <2>5 DEF CancelInvite, ResendInvite, TypeOK, Done
  <1>17. ASSUME NEW i \in Invites, TimePasses(i) \/ ExpireInvite(i) PROVE TypeOK'
    <2>1. /\ invite' \in [Invites -> InviteRows]
          /\ \A j \in Invites : /\ invite'[j].user = invite[j].user
                                /\ invite'[j].role = invite[j].role
                                /\ invite'[j].status # "unused" <=> invite[j].status # "unused"
      <3>1. CASE TimePasses(i)
        BY <3>1, InviteFields, invite' = [invite EXCEPT ![i].lapsed = TRUE] DEF TimePasses
      <3>2. CASE ExpireInvite(i)
        BY <3>2, InviteFields, invite' = [invite EXCEPT ![i].status = "expired"]
        DEF ExpireInvite
      <3> QED BY <1>17, <3>1, <3>2
    <2>2. \A p \in Requests : Consistent(p)'
      BY <1>17, <2>1 DEF TimePasses, ExpireInvite, TypeOK, Consistent, At
    <2> QED BY <1>17, <2>1, <2>2 DEF TimePasses, ExpireInvite, TypeOK
  <1>18. ASSUME NEW r \in Requests, NEW i \in Invites, OpenLink(r, i) PROVE TypeOK'
    <2>0. invite[i].user \in Users
      BY <1>18 DEF OpenLink, TypeOK
    <2>1. PICK q \in RequestRows :
                /\ req' = [req EXCEPT ![r] = q] /\ req'[r] = q
                /\ q.pc = "entered" /\ q.op = "accept" /\ q.actor = invite[i].user
                /\ q.user = invite[i].user /\ q.inv = i
                /\ q.as = "none"
                /\ begun' \in 0..MaxRequests
      BY <1>18, <1>c, <2>0 DEF OpenLink
    <2>2. Consistent(r)'
      BY <1>18, <2>0, <2>1 DEF OpenLink, Consistent, At
    <2> QED BY <1>18, <1>a, <2>1, <2>2 DEF OpenLink, TypeOK
  <1>19. ASSUME NEW r \in Requests, ReadPending(r) PROVE TypeOK'
    BY <1>19, <1>14, <1>b DEF ReadPending, At
  <1>20. ASSUME NEW r \in Requests, CheckMember(r) PROVE TypeOK'
    <2>1. CASE /\ req' = [req EXCEPT ![r].pc = "decided"]
               /\ UNCHANGED <<member, invite, upset, stray, met, begun>>
      <3>1. PICK q \in RequestRows :
                /\ req' = [req EXCEPT ![r] = q] /\ req'[r] = q
                /\ q.pc = "decided" /\ q.op = req[r].op /\ q.user = req[r].user
                /\ q.inv = req[r].inv /\ q.row = req[r].row /\ q.as = req[r].as
        BY <2>1, <1>d
      <3>2. Consistent(r)'
        BY <1>20, <2>1, <3>1, Shape DEF CheckMember, At, TypeOK, Consistent
      <3> QED BY <2>1, <3>1, <3>2, <1>a DEF TypeOK
    <2> QED BY <1>20, <1>b, <2>1 DEF CheckMember
  <1>21. ASSUME NEW r \in Requests, AcceptInvite(r) PROVE TypeOK'
    <2>1. /\ req[r].user \in Users /\ req[r].inv \in Invites
          /\ invite[req[r].inv].status # "unused" /\ invite[req[r].inv].role \in Roles
      BY <1>21, Shape DEF AcceptInvite, At, TypeOK, Consistent, Blank
    <2>2. [role |-> invite[req[r].inv].role, active |-> TRUE] \in Rows \ {NoRow}
      BY <2>1 DEF Rows, NoRow, Roles
    <2>3. /\ invite' \in [Invites -> InviteRows]
          /\ \A j \in Invites : /\ invite'[j].user = invite[j].user
                                /\ invite'[j].role = invite[j].role
                                /\ invite'[j].status # "unused" <=> invite[j].status # "unused"
      BY <2>1, <1>21, InviteFields, invite' = [invite EXCEPT ![req[r].inv].status = "accepted"]
      DEF AcceptInvite
    <2> QED BY <1>5, <1>21, <2>1, <2>2, <2>3 DEF AcceptInvite
  <1>22. CASE UNCHANGED vars
    BY <1>22 DEF vars, TypeOK, Consistent, At
  <1> QED
    BY <1>1, <1>2, <1>3, <1>4, <1>6, <1>7, <1>8, <1>9, <1>10, <1>11, <1>12, <1>13,
       <1>15, <1>16, <1>17, <1>18, <1>19, <1>20, <1>21, <1>22
    DEF Next, ManageMember, ManageInvite, Accept

\* Types, and who holds what.
THEOREM TypeCorrect == Spec => []TypeOK
  BY TypedInit, TypedStep, PTL DEF Spec

----------------------------------------------------------------------------
(* What requests and invites know                                          *)

\* Of a request under which nothing was changed: the row it has read is the row,
\* what it was allowed it would still be allowed, what it counted still counts.
RowOK(r) ==
    LET q == req[r] IN
    /\ q.op \in {"edit", "deactivate"} /\ q.pc = "loaded" => q.row = member[q.user]
    /\ q.op = "deactivate" /\ q.pc = "allowed" => q.row = member[q.user]
    /\ q.op \in {"edit", "deactivate"} /\ q.pc \in {"allowed", "decided"} =>
            AdminMayTouchTarget(q.as, member[q.user])
    /\ q.op = "deactivate" /\ q.pc = "decided" =>
            q.user \notin Owners \/ Cardinality(Owners) > 1
    /\ q.op = "invite" /\ q.pc = "loaded" => member[q.user].role = "none"
    /\ q.op = "accept" /\ q.pc = "decided" => ~member[q.user].active

RowInv == \A r \in Requests \ upset : RowOK(r)

\* An invite that was never in two hands is in one at most, which has read its
\* status as it is.
SettleInv ==
    \A i \in Invites \ met :
        /\ \A p, q \in Requests : HasInvite(p, i) /\ HasInvite(q, i) => p = q
        /\ \A p \in Requests : HasInvite(p, i) => invite[i].status = "pending"

\* One pending invite per address, and none for a member, unless an invite of his
\* was stray or in two hands.
EntryInv ==
    /\ \A i \in stray \cup met : invite[i].status # "unused"
    /\ \A i, j \in Invites :
        /\ invite[i].status = "pending" /\ invite[j].status = "pending"
        /\ invite[i].user = invite[j].user
        => i = j
    /\ \A u \in Users :
        member[u].role # "none" /\ (\A i \in stray \cup met : invite[i].user # u) =>
            \A i \in Invites : invite[i].user = u => invite[i].status # "pending"

IInv == TypeOK /\ RowInv /\ SettleInv /\ EntryInv

\* RowInv, by a step of r that changes no member.
LEMMA MemberKept ==
    ASSUME TypeOK, RowInv, NEW r \in Requests, UNCHANGED member,
           \A p \in Requests \ {r} : req'[p] = req[p],
           upset \ {r} \subseteq upset',
           r \in upset' \/ RowOK(r)'
    PROVE  RowInv'
  <1>1. Owners' = Owners
    BY DEF Owners
  <1>2. ASSUME NEW p \in Requests \ upset', p # r PROVE RowOK(p)'
    BY <1>1, <1>2 DEF RowInv, RowOK, AdminMayTouchTarget
  <1> QED BY <1>2 DEF RowInv

\* RowInv, by a request that saves a membership.
LEMMA MemberSaved ==
    ASSUME TypeOK, RowInv, NEW r \in Requests, NEW u \in Users, NEW row,
           SaveMember(r, u, row)
    PROVE  RowInv'
  <1>1. req' = [req EXCEPT ![r] = Blank] /\ req'[r] = Blank
    BY DEF SaveMember, TypeOK
  <1>2. RowOK(r)'
    BY <1>1 DEF RowOK, Blank
  <1>3. ASSUME NEW p \in Requests \ upset', p # r PROVE RowOK(p)'
    <2>1. req'[p] = req[p] /\ RowOK(p)
      BY <1>1, <1>3 DEF RowInv, SaveMember, TypeOK
    <2>2. HasRow(p, u) => row = member[u]
      BY <1>3 DEF SaveMember
    <2>3. HasCount(p) => Owners' = Owners
      BY <1>3 DEF SaveMember
    <2>4. \A v \in Users : v # u \/ HasRow(p, u) => member'[v] = member[v]
      BY <2>2 DEF SaveMember, TypeOK
    <2>5. req[p].op \in {"edit", "deactivate", "invite", "accept"} => req[p].user \in Users
      BY Shape
    <2>6. \/ req[p].pc \in {"allowed", "decided"}
          \/ req[p].pc = "loaded" /\ req[p].op # "accept"
          => (req[p].user \in Users => member'[req[p].user] = member[req[p].user])
      BY <2>4 DEF HasRow
    <2> QED BY <2>1, <2>3, <2>5, <2>6 DEF RowOK, AdminMayTouchTarget, HasCount, At
  <1> QED BY <1>2, <1>3 DEF RowInv

\* The owners can be counted.
LEMMA OwnersCounted ==
    IsFiniteSet(Owners) /\ Cardinality(Owners) \in Nat
  BY MembershipAssumption, FS_Subset, FS_CardinalityType, Owners \subseteq Users DEF Owners

\* It all holds at first.
LEMMA KnownInit == Init => RowInv /\ SettleInv /\ EntryInv
  BY DEF Init, RowInv, RowOK, SettleInv, EntryInv, HasInvite, Blank

\* What undisturbed requests know stays true.
LEMMA RowStep == TypeOK /\ RowInv /\ [Next]_vars => RowInv'
  <1> SUFFICES ASSUME TypeOK, RowInv, [Next]_vars PROVE RowInv'
    OBVIOUS
  <1>a. ASSUME NEW r \in Requests, NEW q, req' = [req EXCEPT ![r] = q]
        PROVE  req'[r] = q /\ \A p \in Requests \ {r} : req'[p] = req[p]
    BY <1>a DEF TypeOK
  <1>b. ASSUME NEW r \in Requests, Done(r), UNCHANGED member PROVE RowInv'
    <2>1. req'[r] = Blank /\ \A p \in Requests \ {r} : req'[p] = req[p]
      BY <1>a, <1>b DEF Done
    <2>2. RowOK(r)'
      BY <2>1 DEF RowOK, Blank
    <2> QED BY <1>b, <2>1, <2>2, MemberKept DEF Done
  <1>c. ASSUME NEW r \in Requests, NEW op, NEW a, NEW u, NEW i, Begin(r, op, a, u, i),
               UNCHANGED <<member, upset>>
        PROVE  RowInv'
    <2> DEFINE q == [Blank EXCEPT !.pc = "entered", !.op = op, !.actor = a, !.user = u, !.inv = i]
    <2>0. q.pc = "entered"
      BY DEF Blank
    <2>1. req'[r] = q /\ \A p \in Requests \ {r} : req'[p] = req[p]
      BY <1>a, <1>c DEF Begin
    <2>2. RowOK(r)'
      BY <2>0, <2>1 DEF RowOK
    <2> HIDE DEF q
    <2> QED BY <1>c, <2>1, <2>2, MemberKept
  <1>d. ASSUME NEW r \in Requests, NEW pc, req' = [req EXCEPT ![r].pc = pc]
        PROVE  /\ req'[r].pc = pc /\ req'[r].op = req[r].op /\ req'[r].user = req[r].user
               /\ req'[r].row = req[r].row /\ req'[r].as = req[r].as
               /\ \A p \in Requests \ {r} : req'[p] = req[p]
    BY <1>d DEF TypeOK, RequestRows
  <1>1. ASSUME NEW r \in Requests, LoadMember(r) PROVE RowInv'
    <2>1. /\ req'[r].pc = "loaded" /\ req'[r].op = req[r].op /\ req'[r].user = req[r].user
          /\ req'[r].row = member[req[r].user]
          /\ \A p \in Requests \ {r} : req'[p] = req[p]
      BY <1>1 DEF LoadMember, TypeOK, RequestRows
    <2>2. RowOK(r)'
      BY <1>1, <2>1 DEF LoadMember, At, RowOK
    <2> QED BY <1>1, <2>1, <2>2, MemberKept DEF LoadMember
  <1>2. ASSUME NEW r \in Requests, MembershipForActor(r) PROVE RowInv'
    <2> DEFINE as == ActorRole(req[r].actor)
    <2>1. CASE /\ AdminMayTouchTarget(as, req[r].row)
               /\ req' = [req EXCEPT ![r].pc = "allowed", ![r].as = as]
               /\ UNCHANGED <<member, invite, upset, stray, met, begun>>
      <3>1. /\ req'[r].pc = "allowed" /\ req'[r].op = req[r].op /\ req'[r].as = as
            /\ req'[r].user = req[r].user /\ req'[r].row = req[r].row
            /\ \A p \in Requests \ {r} : req'[p] = req[p]
        BY <2>1 DEF TypeOK, RequestRows
      <3>2. r \notin upset => req[r].row = member[req[r].user]
        BY <1>2 DEF MembershipForActor, At, RowInv, RowOK
      <3>3. r \in upset \/ RowOK(r)'
        BY <1>2, <2>1, <3>1, <3>2 DEF MembershipForActor, At, RowOK, AdminMayTouchTarget
      <3> QED BY <2>1, <3>1, <3>3, MemberKept
    <2> QED BY <1>2, <1>b, <2>1 DEF MembershipForActor, Refuse
  <1>3. ASSUME NEW r \in Requests, CheckEdit(r) PROVE RowInv'
    <2>1. ASSUME NEW new, req' = [req EXCEPT ![r].pc = "decided", ![r].row = new],
                 UNCHANGED <<member, invite, upset, stray, met, begun>>
          PROVE  RowInv'
      <3>1. /\ req'[r].pc = "decided" /\ req'[r].op = req[r].op /\ req'[r].as = req[r].as
            /\ req'[r].user = req[r].user
            /\ \A p \in Requests \ {r} : req'[p] = req[p]
        BY <2>1 DEF TypeOK, RequestRows
      <3>2. r \in upset \/ RowOK(r)'
        BY <1>3, <2>1, <3>1 DEF CheckEdit, At, RowInv, RowOK, AdminMayTouchTarget
      <3> QED BY <2>1, <3>1, <3>2, MemberKept
    <2> QED BY <1>3, <1>b, <2>1 DEF CheckEdit, Refuse
  <1>4. ASSUME NEW r \in Requests, SaveEdit(r) PROVE RowInv'
    BY <1>4, Shape, MemberSaved DEF SaveEdit, At
  <1>5. ASSUME NEW r \in Requests, CheckDeactivate(r) PROVE RowInv'
    <2>1. CASE /\ ~WouldRemoveLastOwner(req[r].row, "none", TRUE)
               /\ req' = [req EXCEPT ![r].pc = "decided"]
               /\ UNCHANGED <<member, invite, upset, stray, met, begun>>
      <3>1. /\ req'[r].pc = "decided" /\ req'[r].op = req[r].op
            /\ req'[r].user = req[r].user /\ req'[r].as = req[r].as
            /\ \A p \in Requests \ {r} : req'[p] = req[p]
        BY <2>1, <1>d
      <3>2. r \notin upset => /\ req[r].row = member[req[r].user]
                              /\ AdminMayTouchTarget(req[r].as, member[req[r].user])
        BY <1>5 DEF CheckDeactivate, At, RowInv, RowOK
      <3>3. r \notin upset => req[r].user \notin Owners \/ Cardinality(Owners) > 1
        BY <2>1, <3>2, OwnersCounted DEF WouldRemoveLastOwner, Owners
      <3>4. Owners' = Owners
        BY <2>1 DEF Owners
      <3>5. r \in upset \/ RowOK(r)'
        BY <1>5, <2>1, <3>1, <3>2, <3>3, <3>4
        DEF CheckDeactivate, At, RowOK, AdminMayTouchTarget
      <3> QED BY <2>1, <3>1, <3>5, MemberKept
    <2> QED BY <1>5, <1>b, <2>1 DEF CheckDeactivate, Refuse
  <1>6. ASSUME NEW r \in Requests, SaveDeactivate(r) PROVE RowInv'
    BY <1>6, Shape, MemberSaved DEF SaveDeactivate, At
  <1>7. ASSUME NEW r \in Requests, ChooseRole(r) PROVE RowInv'
    <2>1. /\ req'[r].pc = "chosen" /\ \A p \in Requests \ {r} : req'[p] = req[p]
      BY <1>7 DEF ChooseRole, TypeOK, RequestRows
    <2>2. RowOK(r)'
      BY <2>1 DEF RowOK
    <2> QED BY <1>7, <2>1, <2>2, MemberKept DEF ChooseRole
  <1>8. ASSUME NEW r \in Requests, CheckLinked(r) \/ CheckMember(r) PROVE RowInv'
    <2>1. CASE CheckLinked(r) /\ ~Refuse(r)
      <3>1. /\ req'[r].pc = "loaded" /\ req'[r].op = "invite"
            /\ req'[r].user = req[r].user /\ member[req[r].user].role = "none"
            /\ \A p \in Requests \ {r} : req'[p] = req[p]
        BY <2>1, <1>d DEF CheckLinked, At
      <3>2. RowOK(r)'
        BY <2>1, <3>1 DEF RowOK, CheckLinked
      <3> QED BY <2>1, <3>1, <3>2, MemberKept DEF CheckLinked
    <2>2. CASE CheckMember(r) /\ ~Refuse(r)
      <3>1. /\ req'[r].pc = "decided" /\ req'[r].op = "accept"
            /\ req'[r].user = req[r].user /\ ~member[req[r].user].active
            /\ \A p \in Requests \ {r} : req'[p] = req[p]
        BY <2>2, <1>d DEF CheckMember, At
      <3>2. RowOK(r)'
        BY <2>2, <3>1 DEF RowOK, CheckMember
      <3> QED BY <2>2, <3>1, <3>2, MemberKept DEF CheckMember
    <2> QED BY <1>8, <1>b, <2>1, <2>2 DEF Refuse
  <1>9. ASSUME NEW r \in Requests, req[r].op # "invite", ReadInvite(r, "loaded"),
               req[r].op \in {"cancel", "resend", "accept"}
        PROVE  RowInv'
    <2>1. /\ req'[r].pc = "loaded" /\ req'[r].op = req[r].op
          /\ \A p \in Requests \ {r} : req'[p] = req[p]
      BY <1>9, <1>d DEF ReadInvite
    <2>2. RowOK(r)'
      BY <1>9, <2>1 DEF RowOK
    <2> QED BY <1>9, <2>1, <2>2, MemberKept DEF ReadInvite
  <1>10. ASSUME NEW r \in Requests, LoadInvite(r) \/ ReadPending(r) PROVE RowInv'
    BY <1>10, <1>9, <1>b DEF LoadInvite, ReadPending, At, Refuse
  <1>11. ASSUME NEW r \in Requests, InsertInvite(r) \/ CancelInvite(r) \/ ResendInvite(r)
         PROVE  RowInv'
    BY <1>11, <1>b DEF InsertInvite, CancelInvite, ResendInvite, Refuse
  <1>12. ASSUME NEW r \in Requests, AcceptInvite(r) PROVE RowInv'
    BY <1>12, Shape, MemberSaved DEF AcceptInvite, At
  <1>13. ASSUME UNCHANGED <<member, req, upset>> PROVE RowInv'
    BY <1>13 DEF RowInv, RowOK, AdminMayTouchTarget, Owners
  <1>14. CASE UNCHANGED vars
    BY <1>13, <1>14 DEF vars
  <1>15. ASSUME NEW r \in Requests,
                \/ \E op \in {"edit", "deactivate"}, a, u \in Users : EnterMember(r, op, a, u)
                \/ \E a, u \in Users : EnterInvite(r, a, u)
                \/ \E op \in {"cancel", "resend"}, a \in Users, i \in Invites :
                     EnterInviteAction(r, op, a, i)
                \/ \E i \in Invites : OpenLink(r, i)
         PROVE  RowInv'
    BY <1>15, <1>c DEF EnterMember, EnterInvite, EnterInviteAction, OpenLink
  <1>16. ASSUME NEW i \in Invites, TimePasses(i) \/ ExpireInvite(i) PROVE RowInv'
    BY <1>13, <1>16 DEF TimePasses, ExpireInvite
  <1> QED
    BY <1>1, <1>2, <1>3, <1>4, <1>5, <1>6, <1>7, <1>8, <1>10, <1>11, <1>12, <1>14, <1>15,
       <1>16
    DEF Next, ManageMember, ManageInvite, Accept

----------------------------------------------------------------------------
(* The owners                                                              *)

\* The steps that save a membership, each the last of its request.
LEMMA MemberSteps ==
    ASSUME TypeOK, [Next]_vars, member' # member
    PROVE  \E r \in Requests, u \in Users :
            /\ SaveEdit(r) \/ SaveDeactivate(r) \/ AcceptInvite(r)
            /\ u = req[r].user /\ Ends(r)
            /\ \A v \in Users \ {u} : member'[v] = member[v]
            /\ \A p \in Requests \ {r} : ~Ends(p)
  <1>1. PICK r \in Requests : SaveEdit(r) \/ SaveDeactivate(r) \/ AcceptInvite(r)
    BY DEF Next, ManageMember, ManageInvite, Accept, vars, EnterMember, LoadMember,
       MembershipForActor, CheckEdit, CheckDeactivate, EnterInvite, ChooseRole, CheckLinked,
       InsertInvite, EnterInviteAction, LoadInvite, ReadInvite, CancelInvite, ResendInvite,
       TimePasses, ExpireInvite, OpenLink, ReadPending, CheckMember, Refuse
  <1>2. req[r].user \in Users
    BY <1>1, Shape DEF SaveEdit, SaveDeactivate, AcceptInvite, At
  <1>3. \E row : SaveMember(r, req[r].user, row)
    BY <1>1 DEF SaveEdit, SaveDeactivate, AcceptInvite
  <1>4. /\ req'[r] = Blank /\ \A p \in Requests \ {r} : req'[p] = req[p]
        /\ \A v \in Users \ {req[r].user} : member'[v] = member[v]
    BY <1>3 DEF SaveMember, TypeOK
  <1>5. req[r] # Blank
    BY <1>1 DEF SaveEdit, SaveDeactivate, AcceptInvite, At, Blank
  <1> QED BY <1>1, <1>2, <1>4, <1>5 DEF Ends

\* Whoever else is an owner stays one.
LEMMA OthersStay ==
    ASSUME NEW u \in Users, \A v \in Users \ {u} : member'[v] = member[v]
    PROVE  Owners \ {u} \subseteq Owners'
  BY DEF Owners

\* The step that takes the last owner away.
LEMMA OwnerlessStep ==
    ASSUME TypeOK, RowInv, [Next]_vars, Owners # {}, Owners' = {}
    PROVE  \E r \in Requests : Ends(r) /\ (req[r].op = "edit" \/ r \in upset)
  <1>1. member' # member
    BY DEF Owners
  <1>2. PICK r \in Requests, u \in Users :
            /\ SaveEdit(r) \/ SaveDeactivate(r) \/ AcceptInvite(r)
            /\ u = req[r].user /\ Ends(r)
            /\ \A v \in Users \ {u} : member'[v] = member[v]
    BY <1>1, MemberSteps
  <1>3. Owners = {u}
    BY <1>2, OthersStay
  <1>4. CASE SaveEdit(r)
    BY <1>2, <1>4 DEF SaveEdit, At
  <1>5. CASE SaveDeactivate(r)
    <2>1. ~(Cardinality(Owners) > 1)
      BY <1>3, FS_Singleton
    <2>2. r \in upset
      BY <1>2, <1>3, <1>5, <2>1 DEF SaveDeactivate, At, RowInv, RowOK
    <2> QED BY <1>2, <2>2
  <1>6. CASE AcceptInvite(r)
    <2>1. member[u].active
      BY <1>3 DEF Owners
    <2>2. r \in upset
      BY <1>2, <1>6, <2>1 DEF AcceptInvite, At, RowInv, RowOK
    <2> QED BY <1>2, <2>2
  <1> QED BY <1>2, <1>4, <1>5, <1>6

\* The last step of a request whose actor was an admin.
LEMMA AdminStep ==
    ASSUME TypeOK, RowInv, [Next]_vars, NEW r \in Requests,
           Ends(r), req[r].as = "admin", r \notin upset
    PROVE  Owners \subseteq Owners'
  <1>1. CASE member' = member
    BY <1>1 DEF Owners
  <1>2. CASE member' # member
    <2>1. PICK p \in Requests, u \in Users :
            /\ SaveEdit(p) \/ SaveDeactivate(p) \/ AcceptInvite(p)
            /\ u = req[p].user /\ Ends(p)
            /\ \A v \in Users \ {u} : member'[v] = member[v]
            /\ \A q \in Requests \ {p} : ~Ends(q)
      BY <1>2, MemberSteps
    <2>2. p = r
      BY <2>1
    <2>3. At(r, "edit", "decided") \/ At(r, "deactivate", "decided")
      BY <2>1, <2>2, Shape DEF SaveEdit, SaveDeactivate, AcceptInvite, At
    <2>4. AdminMayTouchTarget("admin", member[u])
      BY <2>1, <2>2, <2>3 DEF At, RowInv, RowOK
    <2>5. u \notin Owners
      BY <2>4 DEF AdminMayTouchTarget, Owners
    <2> QED BY <2>1, <2>5, OthersStay
  <1> QED BY <1>1, <1>2

----------------------------------------------------------------------------
(* Invites                                                                 *)

\* A request whose hands an invite is in.
LEMMA Holders ==
    ASSUME TypeOK, NEW r \in Requests, NEW i \in Invites, HasInvite(r, i)
    PROVE  /\ req[r].op \in {"cancel", "resend", "accept"}
           /\ invite[i].status # "unused"
  <1>1. req[r].inv # 0
    BY DEF HasInvite, Invites
  <1>2. req[r].op \in {"cancel", "resend", "accept"}
    BY <1>1, Shape DEF RequestRows, Blank
  <1> QED BY <1>2, Shape DEF HasInvite

\* SettleInv, when each invite either loses holders and keeps its status, or is in
\* one hand at most which has just read it.
LEMMA SettleKept ==
    ASSUME SettleInv, met \subseteq met',
           \A i \in Invites \ met' :
             \/ /\ \A p \in Requests : HasInvite(p, i)' => HasInvite(p, i)
                /\ invite'[i].status = invite[i].status
             \/ \E r \in Requests :
                /\ \A p \in Requests : HasInvite(p, i)' => p = r
                /\ HasInvite(r, i)' => invite'[i].status = "pending"
    PROVE  SettleInv'
  BY DEF SettleInv

\* Nobody holds an invite that is created, and no invite changes otherwise but by
\* a request that holds it, or by expiry.
LEMMA InviteSteps ==
    ASSUME TypeOK, [Next]_vars, NEW i \in Invites, invite'[i].status # invite[i].status
    PROVE  \/ /\ \E r \in Requests : InsertInvite(r) /\ invite'[i].user = req[r].user
              /\ invite[i].status = "unused"
           \/ ExpireInvite(i)
           \/ \E r \in Requests : (CancelInvite(r) \/ AcceptInvite(r)) /\ HasInvite(r, i)
  <1>1. CASE \E r \in Requests : InsertInvite(r)
    BY <1>1 DEF InsertInvite, TypeOK, Refuse
  <1>2. CASE \E j \in Invites : ExpireInvite(j) \/ TimePasses(j)
    BY <1>2 DEF ExpireInvite, TimePasses, TypeOK, InviteRows
  <1>3. ASSUME NEW r \in Requests, CancelInvite(r) \/ AcceptInvite(r) \/ ResendInvite(r)
        PROVE  (CancelInvite(r) \/ AcceptInvite(r)) /\ HasInvite(r, i)
    BY <1>3, Shape DEF CancelInvite, AcceptInvite, ResendInvite, At, TypeOK, InviteRows, HasInvite
  <1> QED
    BY <1>1, <1>2, <1>3, ZenonT(60)
    DEF Next, ManageMember, ManageInvite, Accept, vars, EnterMember, LoadMember,
        MembershipForActor, CheckEdit, SaveEdit, CheckDeactivate, SaveDeactivate, EnterInvite,
        ChooseRole, CheckLinked, EnterInviteAction, LoadInvite, ReadInvite, OpenLink,
        ReadPending, CheckMember, Refuse

\* An invite stays in one hand, which knows its status, until two meet over it.
LEMMA SettleStep == TypeOK /\ SettleInv /\ [Next]_vars => SettleInv'
  <1> SUFFICES ASSUME TypeOK, SettleInv, [Next]_vars PROVE SettleInv'
    OBVIOUS
  <1>a. ASSUME NEW r \in Requests, \A p \in Requests \ {r} : req'[p] = req[p],
               ~(req'[r].pc \in {"loaded", "decided"}) \/ req'[r].inv = 0
        PROVE  \A i \in Invites, p \in Requests : HasInvite(p, i)' => HasInvite(p, i) /\ p # r
    BY <1>a DEF HasInvite, Invites
  \* Steps of a request that reads no invite and changes none's status.
  <1>b. ASSUME NEW r \in Requests, \A p \in Requests \ {r} : req'[p] = req[p],
               ~(req'[r].pc \in {"loaded", "decided"}) \/ req'[r].inv = 0,
               \A i \in Invites : invite'[i].status = invite[i].status, UNCHANGED met
        PROVE  SettleInv'
    BY <1>a, <1>b, SettleKept
  <1>c. ASSUME NEW r \in Requests, Done(r)
        PROVE  req'[r].pc = "none" /\ \A p \in Requests \ {r} : req'[p] = req[p]
    BY <1>c DEF Done, TypeOK, Blank
  <1>d. ASSUME NEW r \in Requests, Refuse(r) PROVE SettleInv'
    BY <1>b, <1>c, <1>d DEF Refuse
  <1>e. ASSUME NEW r \in Requests, NEW op, NEW a, NEW u, NEW i, Begin(r, op, a, u, i),
               UNCHANGED <<invite, met>>
        PROVE  SettleInv'
    <2> DEFINE q == [Blank EXCEPT !.pc = "entered", !.op = op, !.actor = a, !.user = u, !.inv = i]
    <2>1. q.pc = "entered"
      BY DEF Blank
    <2>2. req'[r] = q /\ \A p \in Requests \ {r} : req'[p] = req[p]
      BY <1>e DEF Begin, TypeOK
    <2>3. ~(req'[r].pc \in {"loaded", "decided"})
      BY <2>1, <2>2
    <2> HIDE DEF q
    <2> QED BY <1>b, <1>e, <2>2, <2>3
  \* The last steps of a request that holds an invite.
  <1>f. ASSUME NEW r \in Requests, NEW j \in Invites, HasInvite(r, j),
               \A p \in Requests \ {r} : req'[p] = req[p], req'[r] = Blank,
               \A i \in Invites \ {j} : invite'[i].status = invite[i].status, UNCHANGED met
        PROVE  SettleInv'
    <2>1. \A i \in Invites, p \in Requests : HasInvite(p, i)' => HasInvite(p, i) /\ p # r
      BY <1>f, <1>a DEF Blank
    <2>2. j \notin met => \A p \in Requests : ~HasInvite(p, j)'
      BY <1>f, <2>1 DEF SettleInv
    <2> QED BY <1>f, <2>1, <2>2, SettleKept
  <1>1. ASSUME NEW r \in Requests, ReadInvite(r, "loaded"), req[r].inv \in Invites,
               invite[req[r].inv].status = "pending"
        PROVE  SettleInv'
    <2>0. PICK j \in Invites : j = req[r].inv
      BY <1>1
    <2>1. req'[r].inv = j /\ \A p \in Requests \ {r} : req'[p] = req[p]
      BY <1>1, <2>0 DEF ReadInvite, TypeOK, RequestRows
    <2>2. \A i \in Invites \ {j}, p \in Requests : HasInvite(p, i)' => HasInvite(p, i)
      BY <2>1 DEF HasInvite
    <2>3. j \notin met' => \A p \in Requests : HasInvite(p, j)' => p = r
      BY <1>1, <2>0, <2>1 DEF ReadInvite, HasInvite
    <2>4. met \subseteq met' /\ invite' = invite
      BY <1>1 DEF ReadInvite
    <2>5. ASSUME NEW i \in Invites \ met'
          PROVE  \/ /\ \A p \in Requests : HasInvite(p, i)' => HasInvite(p, i)
                    /\ invite'[i].status = invite[i].status
                 \/ /\ \A p \in Requests : HasInvite(p, i)' => p = r
                    /\ HasInvite(r, i)' => invite'[i].status = "pending"
      <3>1. CASE i = j
        BY <1>1, <2>0, <2>3, <2>4, <3>1
      <3>2. CASE i # j
        BY <2>2, <2>4, <3>2
      <3> QED BY <3>1, <3>2
    <2> QED BY <2>4, <2>5, SettleKept
  <1>2. ASSUME NEW r \in Requests, LoadInvite(r) \/ ReadPending(r) PROVE SettleInv'
    <2>1. req[r].inv \in Invites
      BY <1>2, Shape DEF LoadInvite, ReadPending, At
    <2> QED BY <1>1, <1>2, <1>d, <2>1 DEF LoadInvite, ReadPending
  <1>3. ASSUME NEW r \in Requests, CancelInvite(r) \/ ResendInvite(r) \/ AcceptInvite(r)
        PROVE  SettleInv'
    <2>1. req[r].inv \in Invites /\ HasInvite(r, req[r].inv)
      BY <1>3, Shape DEF CancelInvite, ResendInvite, AcceptInvite, At, HasInvite
    <2>2. req'[r] = Blank /\ \A p \in Requests \ {r} : req'[p] = req[p]
      BY <1>3 DEF CancelInvite, ResendInvite, AcceptInvite, Done, SaveMember, TypeOK
    <2>3. UNCHANGED met
      BY <1>3 DEF CancelInvite, ResendInvite, AcceptInvite
    <2>4. \A i \in Invites \ {req[r].inv} : invite'[i].status = invite[i].status
      BY <1>3, <2>1 DEF CancelInvite, ResendInvite, AcceptInvite, TypeOK
    <2> QED BY <1>f, <2>1, <2>2, <2>3, <2>4
  <1>4. ASSUME NEW r \in Requests, InsertInvite(r), ~Refuse(r) PROVE SettleInv'
    <2>1. PICK j \in Invites : /\ invite[j].status = "unused"
                               /\ \A i \in Invites \ {j} : invite'[i] = invite[i]
      BY <1>4 DEF InsertInvite, TypeOK
    <2>2. \A p \in Requests : ~HasInvite(p, j)
      BY <2>1, Holders
    <2>3. \A i \in Invites, p \in Requests : HasInvite(p, i)' => HasInvite(p, i) /\ p # r
      BY <1>4, <1>a, <1>c DEF InsertInvite
    <2> QED BY <1>4, <2>1, <2>2, <2>3, SettleKept DEF InsertInvite
  <1>5. ASSUME NEW r \in Requests, CheckMember(r) PROVE SettleInv'
    <2>1. CASE /\ req' = [req EXCEPT ![r].pc = "decided"]
               /\ UNCHANGED <<member, invite, upset, stray, met, begun>>
      <3>1. /\ req'[r].inv = req[r].inv /\ req[r].pc = "loaded"
            /\ \A p \in Requests \ {r} : req'[p] = req[p]
        BY <1>5, <2>1 DEF CheckMember, At, TypeOK, RequestRows
      <3>2. \A i \in Invites, p \in Requests : HasInvite(p, i)' => HasInvite(p, i)
        BY <3>1 DEF HasInvite
      <3> QED BY <2>1, <3>2, SettleKept
    <2> QED BY <1>5, <1>d, <2>1 DEF CheckMember
  <1>6. ASSUME NEW i \in Invites, TimePasses(i) \/ ExpireInvite(i) PROVE SettleInv'
    <2>1. \A j \in Invites \ {i} : invite'[j] = invite[j]
      BY <1>6 DEF TimePasses, ExpireInvite, TypeOK
    <2>2. \A p \in Requests, j \in Invites : HasInvite(p, j)' <=> HasInvite(p, j)
      BY <1>6 DEF TimePasses, ExpireInvite, HasInvite
    <2>3. CASE TimePasses(i)
      BY <2>1, <2>2, <2>3, SettleKept DEF TimePasses, TypeOK, InviteRows
    <2>4. CASE ExpireInvite(i)
      <3>1. i \notin met' => \A p \in Requests : ~HasInvite(p, i)
        BY <2>4 DEF ExpireInvite
      <3> QED BY <2>1, <2>2, <2>4, <3>1 DEF ExpireInvite, SettleInv
    <2> QED BY <1>6, <2>3, <2>4
  \* Steps about members, or before an invite is read.
  <1>7. ASSUME NEW r \in Requests,
               \/ LoadMember(r) \/ MembershipForActor(r) \/ CheckEdit(r) \/ SaveEdit(r)
               \/ CheckDeactivate(r) \/ SaveDeactivate(r) \/ ChooseRole(r) \/ CheckLinked(r)
        PROVE  SettleInv'
    <2>1. CASE Refuse(r)
      BY <2>1, <1>d
    <2>2. CASE ~Refuse(r)
      <3>1. UNCHANGED <<invite, met>>
        BY <1>7, <2>2 DEF LoadMember, MembershipForActor, CheckEdit, SaveEdit, CheckDeactivate,
                          SaveDeactivate, ChooseRole, CheckLinked
      <3>2. req[r].inv = 0
        BY <1>7, Shape DEF LoadMember, MembershipForActor, CheckEdit, SaveEdit, CheckDeactivate,
                          SaveDeactivate, ChooseRole, CheckLinked, At
      <3>3. req'[r].inv = 0 /\ \A p \in Requests \ {r} : req'[p] = req[p]
        <4>1. CASE SaveEdit(r) \/ SaveDeactivate(r)
          BY <4>1 DEF SaveEdit, SaveDeactivate, SaveMember, TypeOK, Blank
        <4>2. CASE LoadMember(r) \/ CheckEdit(r)
          BY <2>2, <3>2, <4>2 DEF LoadMember, CheckEdit, TypeOK, RequestRows
        <4>4. CASE MembershipForActor(r)
          BY <2>2, <3>2, <4>4 DEF MembershipForActor, TypeOK, RequestRows
        <4>3. CASE CheckDeactivate(r) \/ CheckLinked(r)
          BY <2>2, <3>2, <4>3, ZenonT(60) DEF CheckDeactivate, CheckLinked, TypeOK, RequestRows
        <4>5. CASE ChooseRole(r)
          BY <3>2, <4>5 DEF ChooseRole, TypeOK, RequestRows
        <4> QED BY <1>7, <4>1, <4>2, <4>3, <4>4, <4>5
      <3> QED BY <1>b, <3>1, <3>3
    <2> QED BY <2>1, <2>2
  <1>8. ASSUME NEW r \in Requests,
               \/ \E op \in {"edit", "deactivate"}, a, u \in Users : EnterMember(r, op, a, u)
               \/ \E a, u \in Users : EnterInvite(r, a, u)
               \/ \E op \in {"cancel", "resend"}, a \in Users, i \in Invites :
                    EnterInviteAction(r, op, a, i)
               \/ \E i \in Invites : OpenLink(r, i)
        PROVE  SettleInv'
    BY <1>8, <1>e DEF EnterMember, EnterInvite, EnterInviteAction, OpenLink
  <1>9. CASE UNCHANGED vars
    BY <1>9 DEF vars, SettleInv, HasInvite
  <1> QED
    BY <1>d, <1>2, <1>3, <1>4, <1>5, <1>6, <1>7, <1>8, <1>9
    DEF Next, ManageMember, ManageInvite, Accept

\* An invite that is created, and what its request had checked.
LEMMA NewInvite ==
    ASSUME TypeOK, [Next]_vars, NEW i \in Invites,
           invite'[i].status = "pending", invite[i].status # "pending"
    PROVE  \E r \in Requests :
            /\ At(r, "invite", "loaded") /\ UNCHANGED member
            /\ invite'[i].user = req[r].user
            /\ \A j \in Invites : invite[j].user = req[r].user => invite[j].status # "pending"
            /\ \A j \in Invites \ {i} : invite'[j] = invite[j]
            /\ r \in upset => i \in stray'
  <1>1. ~ExpireInvite(i)
    BY DEF ExpireInvite
  <1>2. ASSUME NEW r \in Requests, CancelInvite(r) \/ AcceptInvite(r), HasInvite(r, i)
        PROVE  FALSE
    BY <1>2 DEF CancelInvite, AcceptInvite, HasInvite, TypeOK, InviteRows
  <1>3. PICK r \in Requests : InsertInvite(r) /\ invite'[i].user = req[r].user
    BY <1>1, <1>2, InviteSteps
  <1>4. PICK k \in Invites :
            /\ invite' = [invite EXCEPT ![k] = [status |-> "pending",
                     user |-> req[r].user, role |-> req[r].row.role, lapsed |-> FALSE]]
            /\ stray' = IF r \in upset THEN stray \cup {k} ELSE stray
    BY <1>3 DEF InsertInvite, Refuse
  <1>5. k = i
    BY <1>4 DEF TypeOK
  <1>6. \A j \in Invites \ {i} : invite'[j] = invite[j]
    BY <1>4, <1>5 DEF TypeOK
  <1> QED BY <1>3, <1>4, <1>5, <1>6 DEF InsertInvite, Refuse

\* An invite keeps its address, and is never pending again.
LEMMA OldInvite ==
    ASSUME TypeOK, [Next]_vars, NEW i \in Invites, invite[i].status # "unused"
    PROVE  /\ invite'[i].status # "unused" /\ invite'[i].user = invite[i].user
           /\ invite'[i].status = "pending" => invite[i].status = "pending"
  <1>1. ASSUME NEW r \in Requests, InsertInvite(r) PROVE invite'[i] = invite[i]
    BY <1>1 DEF InsertInvite, Refuse, TypeOK
  <1>2. ASSUME NEW j \in Invites, TimePasses(j) \/ ExpireInvite(j)
        PROVE  /\ invite'[i].user = invite[i].user
               /\ invite'[i].status \in {"expired", invite[i].status}
    BY <1>2 DEF TimePasses, ExpireInvite, TypeOK, InviteRows
  <1>3. ASSUME NEW r \in Requests, CancelInvite(r) \/ AcceptInvite(r) \/ ResendInvite(r)
        PROVE  /\ invite'[i].user = invite[i].user
               /\ invite'[i].status \in {"cancelled", "accepted", invite[i].status}
    BY <1>3 DEF CancelInvite, AcceptInvite, ResendInvite, TypeOK, InviteRows
  <1>4. \/ invite' = invite
        \/ \E r \in Requests : InsertInvite(r)
        \/ \E j \in Invites : TimePasses(j) \/ ExpireInvite(j)
        \/ \E r \in Requests : CancelInvite(r) \/ AcceptInvite(r) \/ ResendInvite(r)
    BY DEF Next, ManageMember, ManageInvite, Accept, vars, EnterMember, LoadMember,
        MembershipForActor, CheckEdit, SaveEdit, CheckDeactivate, SaveDeactivate, EnterInvite,
        ChooseRole, CheckLinked, EnterInviteAction, LoadInvite, ReadInvite, OpenLink,
        ReadPending, CheckMember, Refuse
  <1> QED BY <1>1, <1>2, <1>3, <1>4

\* What is stray or was met stays so, and is an invite that was created.
LEMMA Marked ==
    ASSUME TypeOK, [Next]_vars,
           \A i \in stray \cup met : invite[i].status # "unused"
    PROVE  /\ stray \subseteq stray' /\ met \subseteq met'
           /\ \A i \in stray' \cup met' : invite'[i].status # "unused"
  <1>1. ASSUME NEW r \in Requests, InsertInvite(r)
        PROVE  /\ stray \subseteq stray' /\ met' = met
               /\ \A i \in stray' \ stray : invite'[i].status # "unused"
    BY <1>1 DEF InsertInvite, Refuse, TypeOK
  <1>2. ASSUME NEW r \in Requests, LoadInvite(r) \/ ReadPending(r)
        PROVE  /\ stray' = stray /\ met \subseteq met'
               /\ met' \subseteq met \cup {i \in Invites : invite[i].status # "unused"}
    <2>1. req[r].inv \in Invites /\ invite[req[r].inv].status # "unused"
      BY <1>2, Shape DEF LoadInvite, ReadPending, At
    <2> QED BY <1>2, <2>1 DEF LoadInvite, ReadPending, ReadInvite, Refuse
  <1>3. ASSUME NEW i \in Invites, ExpireInvite(i)
        PROVE  /\ stray' = stray /\ met \subseteq met'
               /\ met' \subseteq met \cup {j \in Invites : invite[j].status # "unused"}
    BY <1>3 DEF ExpireInvite
  <1>4. \/ UNCHANGED <<stray, met>>
        \/ \E r \in Requests : InsertInvite(r)
        \/ \E r \in Requests : LoadInvite(r) \/ ReadPending(r)
        \/ \E i \in Invites : ExpireInvite(i)
    BY ZenonT(60) DEF Next, ManageMember, ManageInvite, Accept, vars, EnterMember, LoadMember,
        MembershipForActor, CheckEdit, SaveEdit, CheckDeactivate, SaveDeactivate, EnterInvite,
        ChooseRole, CheckLinked, EnterInviteAction, CancelInvite, ResendInvite, TimePasses,
        OpenLink, CheckMember, AcceptInvite, Refuse
  <1>5. stray \subseteq Invites /\ met \subseteq Invites
    BY DEF TypeOK
  <1>6. \A i \in Invites : invite[i].status # "unused" => invite'[i].status # "unused"
    BY OldInvite
  <1> QED BY <1>1, <1>2, <1>3, <1>4, <1>5, <1>6

\* No member has a pending invite, unless one of his was stray or met.
LEMMA EntryStep == IInv /\ [Next]_vars => EntryInv'
  <1> SUFFICES ASSUME IInv, [Next]_vars PROVE EntryInv'
    OBVIOUS
  <1> USE DEF IInv
  <1>1. /\ stray \subseteq stray' /\ met \subseteq met'
        /\ \A i \in stray' \cup met' : invite'[i].status # "unused"
    BY Marked DEF EntryInv
  <1>2. ASSUME NEW i \in Invites, NEW j \in Invites,
               invite'[i].status = "pending", invite'[j].status = "pending",
               invite'[i].user = invite'[j].user
        PROVE  i = j
    <2>1. CASE invite[i].status = "pending" /\ invite[j].status = "pending"
      BY <1>2, <2>1, OldInvite DEF EntryInv
    <2>2. CASE invite[i].status # "pending"
      BY <1>2, <2>2, NewInvite
    <2>3. CASE invite[j].status # "pending"
      BY <1>2, <2>3, NewInvite
    <2> QED BY <2>1, <2>2, <2>3
  <1>3. ASSUME NEW u \in Users, member'[u].role # "none",
               \A j \in stray' \cup met' : invite'[j].user # u,
               NEW i \in Invites, invite'[i].user = u, invite'[i].status = "pending"
        PROVE  FALSE
    <2>1. \A j \in stray \cup met : invite[j].user # u
      BY <1>1, <1>3, OldInvite DEF EntryInv, TypeOK
    <2>2. CASE invite[i].status # "pending"
      <3>1. PICK r \in Requests : /\ At(r, "invite", "loaded") /\ UNCHANGED member
                                  /\ invite'[i].user = req[r].user
                                  /\ r \in upset => i \in stray'
        BY <1>3, <2>2, NewInvite
      <3>2. r \notin upset
        BY <1>3, <3>1
      <3> QED BY <1>3, <3>1, <3>2 DEF At, RowInv, RowOK
    <2>3. CASE invite[i].status = "pending"
      <3>1. invite[i].user = u
        BY <1>3, <2>3, OldInvite
      <3>2. member[u].role = "none"
        BY <2>1, <2>3, <3>1 DEF EntryInv
      <3>3. PICK r \in Requests : /\ SaveEdit(r) \/ SaveDeactivate(r) \/ AcceptInvite(r)
                                  /\ u = req[r].user
        BY <1>3, <3>2, MemberSteps
      <3>4. AcceptInvite(r)
        BY <3>2, <3>3, Shape DEF SaveEdit, SaveDeactivate, At
      <3>5. /\ req[r].inv \in Invites /\ invite[req[r].inv].user = u
            /\ HasInvite(r, req[r].inv)
        BY <3>3, <3>4, Shape DEF AcceptInvite, At, HasInvite
      <3>6. invite[req[r].inv].status = "pending"
        BY <2>1, <3>5 DEF SettleInv
      <3>7. req[r].inv = i
        BY <2>3, <3>1, <3>5, <3>6 DEF EntryInv
      <3> QED BY <1>3, <3>4, <3>7 DEF AcceptInvite, TypeOK, InviteRows
    <2> QED BY <2>2, <2>3
  <1> QED BY <1>1, <1>2, <1>3 DEF EntryInv

----------------------------------------------------------------------------
(* The theorems                                                            *)

\* A step leaves settled invites settled.
LEMMA SettlesStep ==
    ASSUME TypeOK, SettleInv, [Next]_vars, NEW i \in Invites \ met',
           invite[i].status \in {"accepted", "cancelled", "expired"}
    PROVE  invite'[i].status = invite[i].status
  <1>1. SUFFICES ASSUME invite'[i].status # invite[i].status PROVE FALSE
    OBVIOUS
  <1>2. i \notin met
    BY InviteSteps, <1>1
    DEF ExpireInvite, CancelInvite, AcceptInvite
  <1>3. ASSUME NEW r \in Requests, HasInvite(r, i) PROVE FALSE
    BY <1>2, <1>3 DEF SettleInv
  <1> QED BY <1>1, <1>3, InviteSteps DEF ExpireInvite

\* A step that lets a deactivated member in.
LEMMA SticksStep ==
    ASSUME IInv, [Next]_vars, NEW u \in Users,
           member[u].role # "none", ~member[u].active, member'[u].active
    PROVE  \/ \E r \in Requests : Ends(r) /\ req[r].op = "edit"
           \/ \E i \in stray \cup met : invite[i].user = u
  <1> USE DEF IInv
  <1>1. PICK r \in Requests :
            /\ SaveEdit(r) \/ SaveDeactivate(r) \/ AcceptInvite(r)
            /\ u = req[r].user /\ Ends(r)
    BY MemberSteps
  <1>2. CASE SaveEdit(r)
    BY <1>1, <1>2 DEF SaveEdit, At
  <1>3. CASE SaveDeactivate(r)
    BY <1>1, <1>3 DEF SaveDeactivate, SaveMember, TypeOK, Rows
  <1>4. CASE AcceptInvite(r)
    <2>1. /\ req[r].inv \in Invites /\ invite[req[r].inv].user = u
          /\ HasInvite(r, req[r].inv)
      BY <1>1, <1>4, Shape DEF AcceptInvite, At, HasInvite
    <2> QED BY <2>1 DEF SettleInv, EntryInv
  <1> QED BY <1>1, <1>2, <1>3, <1>4

\* What holds of every state.
LEMMA Invariant == Spec => []IInv
  <1>1. Init => IInv
    BY TypedInit, KnownInit DEF IInv
  <1>2. IInv /\ [Next]_vars => IInv'
    BY TypedStep, RowStep, SettleStep, EntryStep DEF IInv
  <1> QED BY <1>1, <1>2, PTL DEF Spec

\* The last owner is lost only by the edit form, or on information another request
\* has made untrue.
THEOREM OwnersKept == Spec => OwnerlessByFormOrRace
  <1>1. IInv /\ [Next]_vars => [Owners # {} /\ Owners' = {} =>
            \E r \in Requests : Ends(r) /\ (req[r].op = "edit" \/ r \in upset)]_vars
    BY OwnerlessStep DEF IInv
  <1> QED BY <1>1, Invariant, PTL DEF Spec, OwnerlessByFormOrRace

\* No admin's request ends an owner, unless the row it had read was changed.
THEOREM OwnersSpared == Spec => AdminsSpareOwners
  <1>1. IInv /\ [Next]_vars =>
            [\A r \in Requests : Ends(r) /\ req[r].as = "admin" /\ r \notin upset =>
                Owners \subseteq Owners']_vars
    BY AdminStep DEF IInv
  <1> QED BY <1>1, Invariant, PTL DEF Spec, AdminsSpareOwners

\* No old invite lets a deactivated member in again, but a stray one or one that
\* was in two hands.
THEOREM DeactivatedStayOut == Spec => DeactivationSticks
  <1>1. IInv /\ [Next]_vars =>
            [\A u \in Users :
                member[u].role # "none" /\ ~member[u].active /\ member'[u].active =>
                    \/ \E r \in Requests : Ends(r) /\ req[r].op = "edit"
                    \/ \E i \in stray \cup met : invite[i].user = u]_vars
    BY SticksStep
  <1> QED BY <1>1, Invariant, PTL DEF Spec, DeactivationSticks

\* An invite that was never in two hands is settled once.
THEOREM InvitesSettleOnce == Spec => InviteSettlesOnce
  <1>1. IInv /\ [Next]_vars =>
            [\A i \in Invites \ met' :
                invite[i].status \in {"accepted", "cancelled", "expired"} =>
                    invite'[i].status = invite[i].status]_vars
    BY SettlesStep DEF IInv
  <1> QED BY <1>1, Invariant, PTL DEF Spec, InviteSettlesOnce
=============================================================================
