------------------------ MODULE MCDispatchThrottle ------------------------
(* Instance of DispatchThrottle for TLC: one domain, a tenant cap of one or two and domain caps of one.   *)
EXTENDS DispatchThrottle, TLC

NoPolicy == [enabled |-> FALSE, perMinute |-> 1, daily |-> 1]
MinutePolicy == [enabled |-> TRUE, perMinute |-> 1, daily |-> 0]
DailyPolicy == [enabled |-> TRUE, perMinute |-> 0, daily |-> 1]

MCPolicies == {NoPolicy, MinutePolicy, DailyPolicy}

WorkerSymmetry == Permutations(Workers)

===========================================================================
