--------------------------- MODULE MCTenantDomains ---------------------------
(* TenantDomains with a name and a subdomain of it, from the states tenants get to. *)
EXTENDS TenantDomains, TLC

CONSTANTS t1, t2

Interchangeable == Permutations(Procs)

MCUnder == {<<2, 1>>}

\* t1 alone, or both tenants, sending from d
Only(t, d) == [x \in Tenants |-> IF x = t THEN [state |-> "active", sending |-> d]
                                 ELSE [state |-> "deleted", sending |-> Blank]]
Both(d) == [x \in Tenants |-> [state |-> "active", sending |-> d]]

\* domain d of tenant t, as process_postal leaves it, and verified or not
Provisioned(id, t, d, verified) ==
    [NewDomain(t, d) EXCEPT !.id = id, !.primary = id = 1, !.spf = TRUE, !.dkim = 1,
                            !.pv = TRUE, !.bridge_at = TRUE, !.prov = "exists", !.tried = TRUE,
                            !.verified = verified,
                            !.status = IF verified THEN "verified" ELSE "unverified"]

MCEmpty == [rows |-> {}, tenant |-> Only(t1, Blank), postal |-> [d \in Domains |-> Blank]]

MCPair ==
    [rows |-> {Provisioned(1, t1, 1, TRUE), Provisioned(2, t1, 2, TRUE)},
     tenant |-> Only(t1, 1), postal |-> [d \in Domains |-> 1]]

MCShared ==
    [rows |-> {Provisioned(1, t1, 2, FALSE), [Provisioned(2, t2, 2, TRUE) EXCEPT !.primary = TRUE]},
     tenant |-> Both(2), postal |-> [d \in Domains |-> d - 1]]

MCStart == {MCEmpty, MCPair, MCShared}
=============================================================================
