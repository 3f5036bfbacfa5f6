---------------------------- MODULE MCOptimizer ----------------------------
(* Policies and workloads for Optimizer: one collection with two fields.   *)
EXTENDS Integers

CONSTANTS Users, Email, Age

Adaptive == -1
Unbounded == -1

MCRegistered == {"auto_index", "plan_cache", "freeze_schema"}

NoOverrides == <<>>
MCPolicies == {[level |-> Adaptive, overrides |-> NoOverrides, ram |-> Unbounded],
               [level |-> 1, overrides |-> NoOverrides, ram |-> Unbounded],
               [level |-> 8, overrides |-> NoOverrides, ram |-> Unbounded]}

EmailSpot == [of |-> Users, at |-> Email]
AgeSpot == [of |-> Users, at |-> Age]

\* An index over several fields goes by the name of one.
Busy == [busy |-> TRUE, filtered |-> {EmailSpot, AgeSpot}, pinned_sets |-> {AgeSpot},
         covers |-> {AgeSpot}, ranged |-> {AgeSpot}, ordered |-> {}, big |-> {Users}, dense |-> {}, regular |-> {Users},
         chosen |-> {EmailSpot}, dear |-> {}, cold |-> {}, worth |-> [n \in MCRegistered |-> "yes"]]
Moved == [Busy EXCEPT !.filtered = {EmailSpot}, !.ordered = {AgeSpot}, !.chosen = {},
          !.regular = {}, !.cold = {"plan_cache"}]
MCWorkloads == {Busy, Moved}

=============================================================================
