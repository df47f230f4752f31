---------------------------- MODULE TenantDomains ----------------------------
(***************************************************************************)
(* The sending domains of tenants: adding, provisioning in Postal,         *)
(* checking, choosing the primary one and removing (the views of           *)
(* portal_tenant_domains.py over postal_tenant_domain.py,                  *)
(* postal_provisioning.py and domain_verification.py), while operators     *)
(* edit and delete tenants; and what dispatch makes of the rows.           *)
(*                                                                         *)
(* A request loads its rows, calls Postal and the DNS, and saves the       *)
(* fields it touched; Postal is shared by all tenants.  Each transaction   *)
(* is one step, as if what other requests do between its statements were   *)
(* done before or after it; its locks delay most of that, but PostgreSQL's *)
(* READ COMMITTED would let four requests overlap in ways that are none of *)
(* these orders.  The one read that is a step of its own is that of adding *)
(* a domain, which asks whether it is the first before it locks anything.  *)
(***************************************************************************)
EXTENDS DomainDns, FiniteSets, FiniteSetsExt

CONSTANTS
    Procs,       \* web processes
    Tenants,
    Domains,     \* names, as numbers in alphabetical order
    Under,       \* pairs <<sub, d>>: sub is a subdomain of d
    MaxDomains,  \* the plan's max_sending_domains_per_tenant
    ViaPostal,   \* EMAIL_PROVIDER is postal
    AllowUnverified, \* SKYMAILR_ALLOW_UNVERIFIED_DOMAIN_SEND is set
    Start,       \* states to start in: [tenant, rows, postal]
    MaxRows,     \* bound: TenantDomain ids
    MaxActs      \* bound: requests

Ids == 1 .. MaxRows

ASSUME DomainsAssumption ==
    /\ Domains \subseteq Nat \ {0}
    /\ Under \subseteq Domains \X Domains
    /\ {MaxDomains, MaxRows, MaxActs} \subseteq Nat
    /\ {ViaPostal, AllowUnverified} \subseteq BOOLEAN
    /\ IsFiniteSet(Procs) /\ Tenants \cap Ids = {}

Statuses == {"unverified", "partially_verified", "verified", "failed_check"}

TenantRows == [state : {"active", "suspended", "deleted"}, sending : Domains \cup {Blank}]

\* TenantDomain rows with one of the ids
Td(ids) == [id : ids, tenant : Tenants, domain : Domains, primary : BOOLEAN,
            verified : BOOLEAN, status : Statuses, spf : BOOLEAN, dkim : 0 .. MaxKeys,
            pv : BOOLEAN, bridge_at : BOOLEAN,
            prov : {"pending", "created", "exists", "failed"}, tried : BOOLEAN]

\* an id is given once, and a tenant has a name once
Distinct(rs) ==
    \A r, x \in rs : r.id = x.id \/ (r.tenant = x.tenant /\ r.domain = x.domain) => r = x

\* A state to start in is one the system gets to: a tenant sends from its primary domain,
\* and what a row says of Postal is so.  The cap may be exceeded, by requests that were let
\* through together.
StartOK(s) ==
    /\ s.tenant \in [Tenants -> TenantRows] /\ s.postal \in [Domains -> 0 .. MaxKeys]
    /\ IsFiniteSet(s.rows) /\ Cardinality(s.rows) <= MaxRows
    /\ s.rows \subseteq Td(1 .. Cardinality(s.rows)) /\ Distinct(s.rows)
    /\ \A r \in s.rows :
          /\ s.tenant[r.tenant].state # "deleted"
          /\ r.prov \in {"created", "exists"} => s.postal[r.domain] # Blank
          /\ r.dkim # Blank => r.dkim = s.postal[r.domain]
          /\ r.bridge_at => r.pv
    /\ \A t \in Tenants :
          LET own == {r \in s.rows : r.tenant = t}
          IN  /\ Cardinality(own) < MaxDomains + Cardinality(Procs)
              /\ IF own = {} THEN s.tenant[t].sending = Blank
                 ELSE \E r \in own : /\ {x \in own : x.primary} = {r}
                                    /\ s.tenant[t].sending = r.domain

ASSUME StartAssumption == \A s \in Start : StartOK(s)

VARIABLES
    tenant,   \* Tenant rows: state, sending_domain (Blank: none)
    rows,     \* TenantDomain rows
    postal,   \* Postal's domains: the DKIM key of each, Blank if it is not there
    made,     \* DKIM keys Postal has made for a name
    used,     \* TenantDomain ids given
    job,      \* what a process is doing, and what it has loaded
    acts,     \* requests so far
    past      \* history, of tenants: "raced", "typed"; of rows: "pulled", "vouched",
              \* "believed", "clobbered"

vars == <<tenant, rows, postal, made, used, job, acts, past>>

NoDomain == [NewDomain(CHOOSE t \in Tenants : TRUE, Blank) EXCEPT !.prov = "none"]

Idle == [pc |-> "idle", td |-> NoDomain, blank |-> FALSE, first |-> FALSE,
         force |-> FALSE, touched |-> {}]

Init ==
    \E s \in Start :
        /\ tenant = s.tenant
        /\ rows = s.rows
        /\ postal = s.postal /\ made = s.postal
        /\ used = Cardinality(s.rows)
        /\ job = [p \in Procs |-> Idle]
        /\ acts = 0
        /\ past = [x \in Tenants \cup Ids |-> {}]

RowsOf(t) == {r \in rows : r.tenant = t}

Named(t, d) == {r \in RowsOf(t) : r.domain = d}

Row(id) == CHOOSE r \in rows : r.id = id

HasRow(id) == \E r \in rows : r.id = id

Here(t) == tenant[t].state # "deleted"

Remember(xs, what) == past' = [x \in DOMAIN past |-> IF x \in xs THEN past[x] \cup {what} ELSE past[x]]

-----------------------------------------------------------------------------
(* Requests. *)

\* a process takes a request; operators and customers may send one at any time
Request(p, new) ==
    /\ job[p] = Idle
    /\ acts < MaxActs /\ acts' = acts + 1
    /\ job' = [job EXCEPT ![p] = new]
    /\ UNCHANGED <<tenant, rows, postal, made, used, past>>

\* _tenant_and_domain
Loads(p, r, pc) == Request(p, [Idle EXCEPT !.pc = pc, !.td = r])

\* _redirect_if_tenant_suspended
Operational(t) == tenant[t].state = "active"

Goto(p, pc) == job' = [job EXCEPT ![p].pc = pc]

Answer(p) == job' = [job EXCEPT ![p] = Idle]

\* the process is killed, or PostgreSQL ends its transaction: a deadlock, a timeout
Dies(p) ==
    /\ job[p] # Idle
    /\ Answer(p)
    /\ UNCHANGED <<tenant, rows, postal, made, used, acts, past>>

-----------------------------------------------------------------------------
(* Adding a domain. *)

AnyName(t, d) == TRUE

\* clean_domain
NotAdded(t, d) == Named(t, d) = {}

CountUpToLimit(t) == Cardinality(RowsOf(t)) <= MaxDomains

\* assert_can_add_sending_domain
CanAddSendingDomain(t) == Cardinality(RowsOf(t)) < MaxDomains

TenantDomainNew(p, t, d) ==
    /\ Operational(t) /\ NotAdded(t, d) /\ CanAddSendingDomain(t)
    /\ Request(p, [Idle EXCEPT !.pc = "add", !.td = NewDomain(t, d),
                               !.blank = tenant[t].sending = Blank, !.force = TRUE])

IsFirst(p) ==
    /\ job[p].pc = "add"
    /\ job' = [job EXCEPT ![p].pc = "insert", ![p].first = RowsOf(job[p].td.tenant) = {}]
    /\ UNCHANGED <<tenant, rows, postal, made, used, acts, past>>

\* refused by the unique constraint, or by the foreign key
Insert(p) ==
    LET j == job[p]
        t == j.td.tenant
        td == [j.td EXCEPT !.id = used + 1, !.primary = j.first]
    IN  /\ j.pc = "insert"
        /\ used < MaxRows
        /\ IF NotAdded(t, td.domain) /\ Here(t)
           THEN /\ rows' = rows \cup {td}
                /\ used' = used + 1
                /\ tenant' = IF j.first /\ j.blank THEN [tenant EXCEPT ![t].sending = td.domain]
                             ELSE tenant
                /\ job' = [job EXCEPT ![p].pc = "sync", ![p].td = td]
                /\ IF j.first # (RowsOf(t) = {}) \/ (j.first /\ j.blank # (tenant[t].sending = Blank))
                   THEN Remember({t}, "raced") ELSE UNCHANGED past
           ELSE Answer(p) /\ UNCHANGED <<rows, used, tenant, past>>
        /\ UNCHANGED <<postal, made, acts>>

-----------------------------------------------------------------------------
(* Postal: process_postal_for_tenant_domain, and the save of what it touched.  The save    *)
(* is one step with the last call of Postal: nothing is read between the two.              *)

TenantDomainDetail(p, r) == Loads(p, r, "sync")

TenantDomainRetryPostal(p, r) ==
    /\ Operational(r.tenant)
    /\ Request(p, [Idle EXCEPT !.pc = "sync", !.td = r, !.force = TRUE])

NeedsBridgeVerificationFetch(td) == Bridge /\ ~td.pv /\ ~td.bridge_at

Told(answer) == IF answer = Nothing THEN {} ELSE {"dns"}

\* the row r with the touched fields of td
Saved(r, td, touched) ==
    LET dns  == IF "dns" \in touched
                THEN [r EXCEPT !.spf = td.spf, !.dkim = td.dkim, !.pv = td.pv] ELSE r
        prov == IF "prov" \in touched
                THEN [dns EXCEPT !.prov = td.prov, !.tried = td.tried] ELSE dns
    IN  IF "bridge" \in touched THEN [prov EXCEPT !.bridge_at = td.bridge_at] ELSE prov

\* save(update_fields=...): a DatabaseError when the row is gone
Save(p, td, touched) ==
    LET r == Row(td.id)
    IN  /\ IF HasRow(td.id) /\ touched # {}
           THEN /\ rows' = (rows \ {r}) \cup {Saved(r, td, touched)}
                /\ IF "dns" \in touched /\ r.pv /\ ~td.pv
                   THEN Remember({r.id}, "clobbered") ELSE UNCHANGED past
           ELSE UNCHANGED <<rows, past>>
        /\ Answer(p)

\* sync_domain_dns_metadata, and what follows from it: done, if the records are complete;
\* else provisioning, but not within 45 seconds of the last attempt
Sync(p) ==
    LET j == job[p]
    IN  /\ j.pc = "sync"
        /\ \E answer \in Fetched(postal[j.td.domain]) :
              LET td    == Patched(j.td, answer)
                  needs == NeedsBridgeVerificationFetch(td)
                  done  == Ready(td) /\ ~needs
              IN  \/ /\ done
                     /\ Save(p, [td EXCEPT !.prov = "exists"],
                             Told(answer) \cup (IF td.prov = "exists" THEN {} ELSE {"prov"}))
                  \/ /\ ~done /\ ~j.force /\ ~needs /\ td.tried
                     /\ Save(p, td, Told(answer))
                  \/ /\ ~done
                     /\ job' = [job EXCEPT ![p].pc = "ensure", ![p].td = td,
                                           ![p].touched = Told(answer)]
                     /\ UNCHANGED <<rows, past>>
        /\ UNCHANGED <<tenant, postal, made, used, acts>>

\* ensure_postal_domain_exists, and what its result leaves in the row
Ensure(p) ==
    LET j == job[p]
        d == j.td.domain
    IN  /\ j.pc = "ensure"
        /\ \E r \in EnsureResults(postal[d], made[d] + 1) :
              /\ r.key <= MaxKeys
              /\ postal' = [postal EXCEPT ![d] = r.key]
              /\ made' = [made EXCEPT ![d] = IF r.key > @ THEN r.key ELSE @]
              /\ job' = [job EXCEPT ![p].pc = "resync",
                     ![p].td = [Patched(j.td, r.patch) EXCEPT
                                   !.tried = TRUE,
                                   !.bridge_at = @ \/ r.merged,
                                   !.prov = IF r.success THEN r.outcome ELSE "failed"],
                     ![p].touched = j.touched \cup {"prov"}
                                    \cup (IF r.patch = Nothing THEN {} ELSE {"dns"})
                                    \cup (IF r.merged THEN {"bridge"} ELSE {})]
              /\ CASE r.verified -> Remember({j.td.id}, "vouched")
                   [] r.believed -> Remember({j.td.id}, "believed")
                   [] OTHER      -> UNCHANGED past
        /\ UNCHANGED <<tenant, rows, used, acts>>

Resync(p) ==
    LET j == job[p]
    IN  /\ j.pc = "resync"
        /\ \E answer \in Fetched(postal[j.td.domain]) :
              LET td == Patched(j.td, answer)
              IN  Save(p, IF Ready(td) THEN [td EXCEPT !.prov = "exists"] ELSE td,
                       j.touched \cup Told(answer))
        /\ UNCHANGED <<tenant, postal, made, used, acts>>

-----------------------------------------------------------------------------
(* Checking the DNS, and the primary domain. *)

TenantDomainVerify(p, r) == Operational(r.tenant) /\ Loads(p, r, "verify")

\* the verdict on what was loaded; if the check fails, what was loaded is saved again
Verify(p) ==
    LET j == job[p]
        r == Row(j.td.id)
    IN  /\ j.pc = "verify"
        /\ \E td \in {j.td} \cup {CheckTenantDomainDns(j.td, dns) : dns \in LiveDns} :
              rows' = IF HasRow(j.td.id)
                      THEN (rows \ {r}) \cup {[r EXCEPT !.verified = td.verified,
                                                         !.status = td.status]}
                      ELSE rows
        /\ Answer(p)
        /\ UNCHANGED <<tenant, postal, made, used, acts, past>>

\* only a row that was verified when it was loaded
TenantDomainMakePrimary(p, r) ==
    /\ Operational(r.tenant) /\ FullyVerified(r)
    /\ Loads(p, r, "promote")

KeepsPrimary(rs, r) == {[x EXCEPT !.primary = @ \/ x = r] : x \in rs}

OnlyPrimary(rs, r) == {[x EXCEPT !.primary = (x = r)] : x \in rs}

SetSending(t, d) == tenant' = [tenant EXCEPT ![t].sending = d]

Settled(t) == past' = [past EXCEPT ![t] = {}]

\* rolled back when the row is gone
MakePrimary(p) ==
    LET j == job[p]
        t == j.td.tenant
    IN  /\ j.pc = "promote"
        /\ IF HasRow(j.td.id)
           THEN /\ rows' = (rows \ RowsOf(t)) \cup OnlyPrimary(RowsOf(t), Row(j.td.id))
                /\ SetSending(t, j.td.domain)
                /\ Settled(t)
           ELSE UNCHANGED <<rows, tenant, past>>
        /\ Answer(p)
        /\ UNCHANGED <<postal, made, used, acts>>

-----------------------------------------------------------------------------
(* Removing a domain. *)

TenantDomainDelete(p, r) ==
    /\ Operational(r.tenant)
    /\ Loads(p, r, IF Bridge THEN "unlist" ELSE "drop")

\* delete_postal_domain; whatever it answers, the view goes on
DeletePostalDomain(p) ==
    LET d == job[p].td.domain
    IN  /\ job[p].pc = "unlist"
        /\ \E r \in DeleteDomain(postal[d]) :
              /\ postal' = [postal EXCEPT ![d] = r.key]
              /\ IF r.key = Blank THEN Remember({x.id : x \in {y \in rows : y.domain = d}}, "pulled")
                 ELSE UNCHANGED past
        /\ Goto(p, "drop")
        /\ UNCHANGED <<tenant, rows, made, used, acts>>

\* the first verified one, else the first
Candidate(rs) ==
    LET good == {r \in rs : r.status = "verified"}
        from == IF good # {} THEN good ELSE rs
    IN  CHOOSE r \in from : \A x \in from : r.domain <= x.domain

\* deleting a row that is gone is no error; a tenant that is gone is
DropDomain(p) ==
    LET j == job[p]
        t == j.td.tenant
        rest == {r \in RowsOf(t) : r.id # j.td.id}
    IN  /\ j.pc = "drop"
        /\ IF Here(t)
           THEN /\ rows' = (rows \ RowsOf(t)) \cup
                           (IF rest = {} THEN {} ELSE OnlyPrimary(rest, Candidate(rest)))
                /\ SetSending(t, IF rest = {} THEN Blank ELSE Candidate(rest).domain)
                /\ Settled(t)
           ELSE UNCHANGED <<rows, tenant, past>>
        /\ Answer(p)
        /\ UNCHANGED <<postal, made, used, acts>>

-----------------------------------------------------------------------------
(* Tenants. *)

Act == acts < MaxActs /\ acts' = acts + 1

\* TenantForm: the whole row, with the state and the sending domain that were posted
TenantForm(t) ==
    /\ Act /\ Here(t)
    /\ \E st \in {"active", "suspended"}, d \in Domains \cup {Blank} :
          tenant' = [tenant EXCEPT ![t] = [state |-> st, sending |-> d]]
    /\ Remember({t}, "typed")
    /\ UNCHANGED <<rows, postal, made, used, job>>

\* the portal's settings page and the operator's form
PortalTenantSettings(t) == TenantForm(t)
OperatorTenantEdit(t) == TenantForm(t)

\* cascades to the domains, and leaves Postal as it is
OperatorTenantDelete(t) ==
    /\ Act /\ Here(t)
    /\ tenant' = [tenant EXCEPT ![t] = [state |-> "deleted", sending |-> Blank]]
    /\ rows' = rows \ RowsOf(t)
    /\ UNCHANGED <<postal, made, used, job, past>>

-----------------------------------------------------------------------------
(* What dispatch and the pages make of the rows. *)

Covers(r, d) == d = r.domain \/ <<d, r.domain>> \in Under

Covering(t, d) == {r \in RowsOf(t) : Covers(r, d)}

\* tenant_domain_for_from_hostname: the first by name
TenantDomainForFromHostname(rs) == CHOOSE r \in rs : \A x \in rs : r.domain <= x.domain

\* what dispatch does not ask about: another provider, a setting, and mail whose metadata
\* has bypass_domain_verification, as everything has that staff send from the operator UI
Exempt(bypass) == ~ViaPostal \/ AllowUnverified \/ bypass

\* dispatch_should_block_unverified_managed_domain, for an address at d
DispatchShouldBlock(t, d, bypass) ==
    /\ ~Exempt(bypass)
    /\ Covering(t, d) # {}
    /\ ~FullyVerified(TenantDomainForFromHostname(Covering(t, d)))

\* email_domain_matches_verified_tenant_domain
EmailDomainMatchesVerified(t, d) == \E r \in Covering(t, d) : FullyVerified(r)

\* compute_sending_readiness
Readiness(t) ==
    [has_verified_domain |-> \E r \in RowsOf(t) : FullyVerified(r),
     has_primary         |-> \E r \in RowsOf(t) : r.primary,
     sending_domain_set  |-> tenant[t].sending # Blank]

-----------------------------------------------------------------------------
Next ==
    \/ \E p \in Procs :
          \/ IsFirst(p) \/ Insert(p)
          \/ Sync(p) \/ Ensure(p) \/ Resync(p)
          \/ Verify(p) \/ MakePrimary(p)
          \/ DeletePostalDomain(p) \/ DropDomain(p)
          \/ Dies(p)
          \/ \E t \in Tenants, d \in Domains : TenantDomainNew(p, t, d)
          \/ \E r \in rows :
                \/ TenantDomainDetail(p, r) \/ TenantDomainRetryPostal(p, r)
                \/ TenantDomainVerify(p, r) \/ TenantDomainMakePrimary(p, r)
                \/ TenantDomainDelete(p, r)
    \/ \E t \in Tenants :
          PortalTenantSettings(t) \/ OperatorTenantEdit(t) \/ OperatorTenantDelete(t)

Spec == Init /\ [][Next]_vars

-----------------------------------------------------------------------------
(* Properties. *)

\* The types of the variables; an id is given once, and a tenant that is deleted has no
\* domains (models.py's constraints and its cascade).
TypeOK ==
    /\ tenant \in [Tenants -> TenantRows]
    /\ rows \subseteq Td(1 .. used) /\ used \in 0 .. MaxRows
    /\ Distinct(rows) /\ \A r \in rows : Here(r.tenant)
    /\ postal \in [Domains -> 0 .. MaxKeys] /\ made \in [Domains -> 0 .. MaxKeys]
    /\ \A p \in Procs :
          /\ job[p].pc \in {"idle", "add", "insert", "sync", "ensure", "resync",
                            "verify", "promote", "unlist", "drop"}
          /\ job[p].td \in Td(0 .. used) \cup {NoDomain}
          /\ job[p].touched \subseteq {"dns", "prov", "bridge"}
    /\ acts \in 0 .. MaxActs
    /\ past \in [Tenants \cup Ids -> SUBSET {"raced", "typed", "pulled", "vouched",
                                               "believed", "clobbered"}]

\* A tenant with domains has one primary domain, and sends from it: however requests to
\* add, choose and remove domains overlap, this is lost only by adding a domain on a stale
\* reading of "the first one" or of the tenant (tenant_domain_new), and the next choice or
\* removal repairs it; the form may name any sending domain.
OnePrimary ==
    \A t \in Tenants :
        LET primaries == {r \in RowsOf(t) : r.primary}
        IN  "raced" \notin past[t] =>
                /\ Cardinality(primaries) = (IF RowsOf(t) = {} THEN 0 ELSE 1)
                /\ "typed" \notin past[t] =>
                        IF primaries = {} THEN tenant[t].sending = Blank
                        ELSE \E r \in primaries : tenant[t].sending = r.domain

\* A row that says its domain is created or exists in Postal, with a DKIM key, is right,
\* unless a removal took the name out of Postal in the row's lifetime: its own, one that
\* failed half way, or that of another row of the name (delete_postal_domain runs before
\* the row is deleted, and Postal has one domain for all tenants).  Of the key that holds
\* without more; of "created" and "exists", unless an answer that confirmed nothing was
\* once taken for a success: the webhook's without JSON, or an error with data in it.
ClaimsHoldUntilRemoved ==
    \A r \in rows : "pulled" \notin past[r.id] =>
        /\ r.prov \in {"created", "exists"} =>
              postal[r.domain] # Blank \/ "believed" \in past[r.id]
        /\ r.dkim # Blank => r.dkim = postal[r.domain]

\* The mark that stops asking the bridge for the ownership record (bridge_at) is there only
\* if the record is stored, or the bridge said that Postal needs none, or a request that
\* had loaded the row before the record came saved its DNS fields over it.
BridgeMarkIsEarned ==
    \A r \in rows : r.bridge_at => r.pv \/ past[r.id] \cap {"vouched", "clobbered"} # {}

\* The plan's number of domains is exceeded only by requests that passed
\* assert_can_add_sending_domain together: by one less than there are processes.
DomainCap ==
    \A t \in Tenants : Cardinality(RowsOf(t)) < MaxDomains + Cardinality(Procs)

\* What the customer reads agrees with what is done.  The check verifies a domain exactly
\* when the table shows SPF, DKIM and DMARC passing.  Of the mail dispatch asks about, at an
\* address that rows cover, it lets out none the sender page does not call verified, and so
\* none of a tenant with no verified domain; and it blocks what the page calls verified only
\* where an unverified row with an earlier name covers the address as well.
PagesAgreeWithDispatch ==
    /\ TableAgreesWithCheck
    /\ \A t \in Tenants, d \in Domains, bypass \in BOOLEAN :
          Covering(t, d) # {} /\ ~Exempt(bypass) =>
              /\ DispatchShouldBlock(t, d, bypass) \/ EmailDomainMatchesVerified(t, d)
              /\ ~Readiness(t).has_verified_domain => DispatchShouldBlock(t, d, bypass)
              /\ DispatchShouldBlock(t, d, bypass) /\ EmailDomainMatchesVerified(t, d) =>
                    \E r, x \in Covering(t, d) :
                        r.domain < x.domain /\ ~FullyVerified(r) /\ FullyVerified(x)
=============================================================================
