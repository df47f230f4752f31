------------------------------ MODULE DomainDns ------------------------------
(***************************************************************************)
(* What SkyMailr expects in the DNS of a sending domain, where it gets the *)
(* values from, and how it judges what is published: the expected records  *)
(* (domain_dns_instructions.py), Postal's answers (postal_domains.py,      *)
(* postal_provisioning.py and the bridge), the check and the table of live *)
(* checks (domain_verification.py).                                        *)
(*                                                                         *)
(* A DKIM key is a number, 0 for none; SPF, DMARC and the domain-control   *)
(* record are stored or not, and match what is published or not.           *)
(***************************************************************************)
EXTENDS Naturals

CONSTANTS
    Bridge,     \* POSTAL_PROVISIONING_URL is set
    HttpApi,    \* Postal's HTTP API tells of domains (forks; stock Postal does not)
    SpfHint,    \* SKYMAILR_SPF_INCLUDE_HINT is set
    MaxKeys     \* bound: DKIM keys Postal makes for a name

ASSUME DnsAssumption ==
    {Bridge, HttpApi, SpfHint} \subseteq BOOLEAN /\ MaxKeys \in Nat \ {0}

Keys == 1 .. MaxKeys
Blank == 0

\* a new TenantDomain row, but for its id
NewDomain(t, d) ==
    [id |-> 0, tenant |-> t, domain |-> d, primary |-> FALSE,
     verified |-> FALSE, status |-> "unverified",
     spf |-> FALSE, dkim |-> Blank, pv |-> FALSE,
     bridge_at |-> FALSE, prov |-> "pending", tried |-> FALSE]

-----------------------------------------------------------------------------
(* The records a domain should have. *)

ResolveSpf(td) == td.spf \/ SpfHint

ResolveDkim(td) == td.dkim # Blank

\* is_customer_ready
Ready(td) == ResolveSpf(td) /\ ResolveDkim(td)

\* the kinds of rows the page shows (the return path and MX rows are only advice)
ExpectedRecords(td) ==
    {"dmarc"} \cup {k \in {"postal_verification", "spf", "dkim"} :
                        CASE k = "postal_verification" -> td.pv
                          [] k = "spf"                 -> ResolveSpf(td)
                          [] k = "dkim"                -> ResolveDkim(td)}

-----------------------------------------------------------------------------
(* What Postal tells. *)

Nothing == [spf |-> FALSE, dkim |-> Blank, pv |-> FALSE]

\* _extract_from_domain_obj, of a domain with DKIM key k: never the ownership record
Extracted(k) == [Nothing EXCEPT !.spf = TRUE, !.dkim = k]

\* fetch_domain_dns_metadata (k = Blank: Postal has no such domain): from the first of five
\* endpoints that tells of the domain, or from none
Fetched(k) == {Nothing} \cup {Extracted(x) : x \in {y \in {k} : HttpApi /\ y # Blank}}

\* sync_domain_dns_metadata, apply_dns_patch_to_tenant_domain: only what was told
Patched(td, answer) ==
    [td EXCEPT !.spf  = @ \/ answer.spf,
               !.dkim = IF answer.dkim # Blank THEN answer.dkim ELSE @,
               !.pv   = @ \/ answer.pv]

\* the runner's dns for key k: with the ownership record while Postal has not seen it; an
\* older bridge may leave it out
BridgeAnswers(k) ==
    {a \in [dns : {[Extracted(k) EXCEPT !.pv = pv] : pv \in BOOLEAN}, verified : BOOLEAN] :
        ~(a.dns.pv /\ a.verified)}

\* create_domain.rb on a Postal whose domain has key k, next key fresh
CreateDomain(k, fresh) == IF k = Blank THEN fresh ELSE k

\* the bridge's /provision, as its caller sees it: refused, the runner failed or the answer
\* was lost after the domain was made, or answered
Provision(k, fresh) ==
    LET key == CreateDomain(k, fresh)
        Unanswered(x) == [key |-> x, ok |-> FALSE, answer |-> [dns |-> Nothing, verified |-> FALSE]]
    IN  {Unanswered(k), Unanswered(key)} \cup
        {[key |-> key, ok |-> TRUE, answer |-> a] : a \in BridgeAnswers(key)}

\* the bridge's /delete, likewise: deleted or not found, or anything else; an answer below
\* 400 that is no JSON is taken for done
DeleteDomain(k) == [key : {Blank, k}, ok : BOOLEAN]

AnyMerge(dns, verified) == TRUE

\* "Do not mark merged unless we stored PV or bridge says Postal already verified"
Merged(dns, verified) == dns.pv \/ verified

\* Variant: a failure is reported as a domain that was there.
Trusted(k) == [key |-> k, success |-> TRUE, outcome |-> "exists", merged |-> FALSE,
               patch |-> Nothing, verified |-> FALSE, believed |-> FALSE]

\* A result: what Postal then has, what the caller is told, and whether it is told of a
\* success that no answer confirmed.
Failed(k) == [key |-> k, success |-> FALSE, outcome |-> "failed", merged |-> FALSE,
              patch |-> Nothing, verified |-> FALSE, believed |-> FALSE]

\* an answer with nothing in it to read that is still taken for a success
Believed(r) == [r EXCEPT !.success = TRUE, !.outcome = "created", !.believed = TRUE]

\* _merge_webhook_dns_after_http_fetch: whatever becomes of it, the result is a success
MergeWebhook(k, found) ==
    LET r == [Failed(k) EXCEPT !.success = TRUE, !.outcome = "exists", !.patch = found]
        With(dns, verified) == [r EXCEPT !.patch = dns, !.verified = verified,
                                         !.merged = Merged(dns, verified)]
    IN  {r} \cup {With(Patched(found, b.answer.dns), b.answer.verified) :
                     b \in {y \in Provision(k, k) : Bridge /\ y.ok}}

\* _try_provisioning_webhook: an answer below 400 that is no JSON is {}, where "ok" is TRUE
\* by default and no outcome means created
TryWebhook(k, fresh) ==
    LET With(b) ==
            IF b.ok THEN [key |-> b.key, success |-> TRUE,
                          outcome |-> IF k = Blank THEN "created" ELSE "exists",
                          merged |-> Merged(b.answer.dns, b.answer.verified),
                          patch |-> b.answer.dns, verified |-> b.answer.verified,
                          believed |-> FALSE]
            ELSE Failed(b.key)
    IN  IF Bridge
        THEN {With(b) : b \in Provision(k, fresh)} \cup
             {Believed(Failed(key)) : key \in {k, CreateDomain(k, fresh)}}
        ELSE {Failed(k)}

\* _try_experimental_server_key_create, where Postal may take the POST: made, and the answer
\* says so or is lost; or not made, and data in the answer (of an error, say) is taken for
\* a success before its status is looked at
TryExperimental(r, fresh) ==
    LET asked == [r EXCEPT !.key = CreateDomain(@, fresh)]
    IN  {r, Believed(r)} \cup
        (IF HttpApi THEN {asked, [asked EXCEPT !.success = TRUE, !.outcome = "created"]}
         ELSE {})

\* ensure_postal_domain_exists: found, or asked of the bridge, then of the API
EnsureResults(k, fresh) ==
    UNION {IF found.spf THEN MergeWebhook(k, found)
           ELSE UNION {IF r.success THEN {r} ELSE TryExperimental(r, fresh)
                           : r \in TryWebhook(k, fresh)}
               : found \in Fetched(k)}

-----------------------------------------------------------------------------
(* Judging what is published. *)

Texts == {"missing", "other", "match"}

\* what the resolver may answer; without the DNS library, nothing
LiveDns ==
    {dns \in [lib : BOOLEAN, spf : Texts, dkim : 0 .. MaxKeys, dmarc : Texts,
            pv : {"missing", "match"}] :
        dns.lib \/ (dns.dkim = Blank /\ {dns.spf, dns.dmarc, dns.pv} = {"missing"})}

SpfOk(td, dns)  == ResolveSpf(td) /\ dns.spf = "match"
DkimOk(td, dns) == ResolveDkim(td) /\ dns.dkim = td.dkim
DmarcOk(dns)    == dns.dmarc = "match"

\* check_tenant_domain_dns
CheckTenantDomainDns(td, dns) ==
    LET Verdict(status, verified) ==
            [td EXCEPT !.status = status, !.verified = verified]
        spf_ok  == SpfOk(td, dns)
        dkim_ok == DkimOk(td, dns)
    IN  CASE ~Ready(td)                            -> Verdict("partially_verified", FALSE)
          [] Ready(td) /\ spf_ok /\ dkim_ok /\ DmarcOk(dns)  -> Verdict("verified", TRUE)
          [] Ready(td) /\ spf_ok /\ dkim_ok /\ ~DmarcOk(dns) -> Verdict("partially_verified", TRUE)
          [] Ready(td) /\ spf_ok # dkim_ok         -> Verdict("partially_verified", FALSE)
          [] Ready(td) /\ ~spf_ok /\ ~dkim_ok      -> Verdict("failed_check", FALSE)

\* evaluate_dns_instruction_rows, for one of the rows the page shows
RowCheck(td, dns, kind) ==
    LET Told(ok, there) == IF ok THEN "pass" ELSE IF there THEN "mismatch" ELSE "missing"
    IN  CASE ~dns.lib        -> "unknown"
          [] dns.lib /\ kind = "postal_verification" ->
                 Told(dns.pv = "match", dns.pv # "missing")
          [] dns.lib /\ kind = "spf"   -> Told(dns.spf = "match", dns.spf # "missing")
          [] dns.lib /\ kind = "dkim"  -> Told(dns.dkim = td.dkim, dns.dkim # Blank)
          [] dns.lib /\ kind = "dmarc" -> Told(DmarcOk(dns), dns.dmarc # "missing")

FlagAlone(td) == td.verified

\* what dispatch, the primary domain and the pages ask of a row
FullyVerified(td) == td.verified /\ td.status = "verified"

\* the check and the table, on any values a row may hold and any DNS
TableAgreesWithCheck ==
    \A spf, pv \in BOOLEAN, dkim \in 0 .. MaxKeys, dns \in LiveDns :
        LET td == [NewDomain(0, 0) EXCEPT !.spf = spf, !.pv = pv, !.dkim = dkim]
        IN  FullyVerified(CheckTenantDomainDns(td, dns)) <=>
                /\ {"spf", "dkim"} \subseteq ExpectedRecords(td)
                /\ \A k \in ExpectedRecords(td) \ {"postal_verification"} :
                      RowCheck(td, dns, k) = "pass"
=============================================================================
