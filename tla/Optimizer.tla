------------------------------ MODULE Optimizer ------------------------------
(***************************************************************************)
(* Choosing the physical layout: the controller, the manual and adaptive   *)
(* drivers of adabt-opt and the optimizations adabt-engine registers with  *)
(* them, over an engine of switches, indexes and clustering hints.         *)
(*                                                                         *)
(* Telemetry is a workload: what one cycle measures, drawn from Workloads  *)
(* and replaced at any time.  Scores and cost estimates are grades of it.  *)
(* Numbers of cycles count down what remains of a cooldown.                *)
(*                                                                         *)
(* No optimization of the engine has a prerequisite, a conflict or a       *)
(* guarantee it needs, so those gates of the controller are left out; so   *)
(* is the memory of past workloads, which only reorders candidates.        *)
(***************************************************************************)
EXTENDS Integers, Sequences, FiniteSets, SequencesExt

CONSTANTS Collections, Fields, None,
          Registered,         \* the optimizations of the registry
          Policies,           \* the policies the operator sets
          Workloads,          \* what telemetry may say
          Cooldown,           \* COOLDOWN_CYCLES
          RetractionCooldown, \* RETRACTION_COOLDOWN_CYCLES
          MaxChanges,         \* MAX_CHANGES_PER_CYCLE
          MaxCalls,           \* bound: what users and the workload do in all
          MaxApplied          \* bound: plans the controller remembers

GlobalScope == [of |-> None, at |-> None]
Whole(c) == [of |-> c, at |-> None]
Spots == [of : Collections, at : Fields]
Scopes == Spots \cup {Whole(c) : c \in Collections} \cup {GlobalScope}
Kinds == {"hash", "btree"}

\* the registry, in the order its names sort
Builtins == <<"auto_composite_index", "auto_covering_index", "auto_index", "buffer_pool",
              "clustered_sort", "column_store", "data_partitioning", "delta_encoding",
              "direct_lookup", "freeze_schema", "join_order", "materialized_view",
              "plan_cache", "prefetch", "record_compression", "result_cache",
              "thread_per_core">>

Indexing == {"auto_index", "auto_composite_index", "auto_covering_index"}
Caches == {"plan_cache", "result_cache"}
Clustering == {"clustered_sort", "data_partitioning"}
Switches == Range(Builtins) \ (Indexing \cup {"clustered_sort", "freeze_schema"})

Entries == [name : Registered, scope : Scopes]
Adaptive == -1
Unbounded == -1

\* What the constants must satisfy; a module that gives them values assumes it.
RegistryAssumption ==
    /\ None \notin Collections \cup Fields
    /\ Registered \subseteq Range(Builtins)
CyclesAssumption ==
    /\ Cooldown \in Nat /\ RetractionCooldown \in Nat
    /\ MaxChanges \in Nat \ {0} /\ MaxCalls \in Nat /\ MaxApplied \in Nat

VARIABLES policy,      \* the policy in force: level (or Adaptive), overrides, RAM ceiling
          workload,    \* what telemetry says now
          config,      \* OptimizationConfig: the enabled entries with their parameter
          applied,     \* the controller's applied plans, oldest first
          engine,      \* what the plans change
          cooling,     \* last_changed, as the cycles an entry is still left alone
          barred,      \* retracted, as the cycles an entry may not be proposed again
          trial,       \* the change under experiment, and whether it is built
          constrained, \* the fields with a unique constraint
          byhand,      \* indexes not the controller's: not part of the program
          refuted,     \* what is left of a measured retraction's ban: not part of the program
          waited,      \* cycles an unused index has survived: not part of the program
          calls        \* calls of users and shifts of the workload so far

ovars == <<policy, workload, config, applied, engine, cooling, barred, trial,
           constrained, byhand, refuted, waited, calls>>
user == <<policy, workload, constrained, byhand, calls>>
driver == <<cooling, barred, refuted, waited>>

------------------------------------------------------------------------------
(* The optimizations: where each may act, whether it is worth considering,  *)
(* the memory it is estimated to need, and what enabling it does and undoes.*)

Do(what, n, s, k, v) == [do |-> what, name |-> n, scope |-> s, kind |-> k, to |-> v]
Create(s, k) == Do("create", "", s, k, 0)
Drop(s, k) == Do("drop", "", s, k, 0)
Switch(n, v) == Do("switch", n, GlobalScope, "hash", v)
Cluster(s) == Do("cluster", "", s, "hash", 1)
Unclustered(s) == Do("cluster", "", s, "hash", 0)
Freeze(s) == Do("freeze", "", s, "hash", 1)

Plan(apply, revert) == [apply |-> apply, revert |-> revert]

\* the memory is in units of a large collection's index; what shrinks a copy needs none
Optimization(scopes, applicable, ram_bytes, plan) ==
    [scopes |-> scopes, applicable |-> applicable, ram |-> ram_bytes, plan |-> plan]

\* one switch of the whole engine, worth it once there is enough to gain
Switched(n, applicable, ram_bytes) ==
    Optimization({GlobalScope}, applicable, ram_bytes, Plan(<<Switch(n, 1)>>, <<Switch(n, 0)>>))

HasRows(w) == w.big # {}

plan_cache == Switched("plan_cache", TRUE, 1)
result_cache == Switched("result_cache", TRUE, 1)
buffer_pool == Switched("buffer_pool", TRUE, 1)
prefetch(w) == Switched("prefetch", HasRows(w), 0)
record_compression(w) == Switched("record_compression", HasRows(w), 0)
materialized_view(w) == Switched("materialized_view", HasRows(w), 0)
column_store(w) == Switched("column_store", HasRows(w), Cardinality(w.big))
delta_encoding(w) == Switched("delta_encoding", HasRows(w), 0)
thread_per_core(w) == Switched("thread_per_core", HasRows(w), 0)

\* two fields pinned at once are what a join is recognised by
join_order(w) == Switched("join_order", w.pinned_sets # {} /\ HasRows(w), 0)

\* a flat array per collection of fixed size; one whose ids are dense is enough
direct_lookup(w, e) ==
    Switched("direct_lookup", e.fixed \cap w.dense # {}, Cardinality(e.fixed \cap w.big))

Indexed(e) == {[of |-> i.of, at |-> i.at] : i \in e.indexes}

\* an index for each field, or set of fields, asked for often enough on a collection large
\* enough, and not there yet; the memory grows with the fields an entry carries
Index(wanted, width, w, e, s, k) ==
    LET candidates == {x \in wanted \ Indexed(e) : x.of \in w.big}
    IN Optimization(candidates, candidates # {}, width * Cardinality(candidates),
                    Plan(<<Create(s, k)>>, <<Drop(s, k)>>))

\* hash unless ranges are asked of the field
index_kind_for(s, w) == IF s \in w.ordered THEN "btree" ELSE "hash"

auto_index(w, e, s, k) == Index(w.filtered, 1, w, e, s, k)
auto_composite_index(w, e, s) == Index(w.pinned_sets, 2, w, e, s, "hash")
auto_covering_index(w, e, s) == Index(w.covers, 2, w, e, s, index_kind_for(s, w))

\* rows placed by a field that ranges are asked of; partitioning is placing them so too
clustered_sort(w, s) ==
    LET candidates == {x \in w.ranged \cap w.filtered : x.of \in w.big}
    IN Optimization(candidates, candidates # {}, 0, Plan(<<Cluster(s)>>, <<Unclustered(s)>>))
data_partitioning(w, s) ==
    LET candidates == {x \in w.ranged : x.of \in w.big}
    IN Optimization(candidates, candidates # {}, 0,
                    Plan(<<Switch("data_partitioning", 1), Cluster(s)>>,
                         <<Switch("data_partitioning", 0), Unclustered(s)>>))

\* the one change that is never undone
freeze_schema(w, e, s) ==
    LET loose == {Whole(c) : c \in w.big \ e.fixed}
    IN Optimization(loose, loose # {}, 0, Plan(<<Freeze(s)>>, <<>>))

Registry(n, w, e, s, k) ==
    CASE n = "auto_index" -> auto_index(w, e, s, k)
      [] n = "plan_cache" -> plan_cache
      [] n = "freeze_schema" -> freeze_schema(w, e, s)
      [] n = "result_cache" -> result_cache
      [] n = "buffer_pool" -> buffer_pool
      [] n = "prefetch" -> prefetch(w)
      [] n = "record_compression" -> record_compression(w)
      [] n = "materialized_view" -> materialized_view(w)
      [] n = "column_store" -> column_store(w)
      [] n = "delta_encoding" -> delta_encoding(w)
      [] n = "thread_per_core" -> thread_per_core(w)
      [] n = "join_order" -> join_order(w)
      [] n = "direct_lookup" -> direct_lookup(w, e)
      [] n = "auto_composite_index" -> auto_composite_index(w, e, s)
      [] n = "auto_covering_index" -> auto_covering_index(w, e, s)
      [] n = "clustered_sort" -> clustered_sort(w, s)
      [] n = "data_partitioning" -> data_partitioning(w, s)

candidate_scopes(n, w, e) == Registry(n, w, e, GlobalScope, "hash").scopes
Applicable(n, w, e) == Registry(n, w, e, GlobalScope, "hash").applicable
ram(n, w, e) == Registry(n, w, e, GlobalScope, "hash").ram
plan_enable(n, s, k) == Registry(n, workload, engine, s, k).plan

\* the inverse worked out now, for a change no plan was recorded for: an index that is there
\* goes by its own kind
plan_disable(n, s, w, e) ==
    LET kinds == {k \in Kinds : [of |-> s.of, at |-> s.at, kind |-> k] \in e.indexes}
        kind == IF kinds = {} THEN index_kind_for(s, w) ELSE CHOOSE k \in kinds : TRUE
    IN Registry(n, w, e, s, kind).plan.revert

is_shadowable(a) ==
    \/ a.do \in {"create", "cluster"} /\ a.to = (IF a.do = "create" THEN 0 ELSE 1)
    \/ /\ a.do = "switch" /\ a.to = 1
       /\ a.name \in {"column_store", "direct_lookup", "materialized_view",
                      "delta_encoding", "join_order", "data_partitioning"}

------------------------------------------------------------------------------
(* The engine, as the controller's sink.                                    *)

\* an index or column copy of the old layout goes with it
invalidate_after_schema_change(e, c) == [e EXCEPT !.indexes = {i \in @ : i.of # c}]

can_apply(a, e) == ~(a.do = "switch" /\ a.name = "direct_lookup" /\ a.to = 1 /\ e.fixed = {})

\* a schema is frozen only when the data fits a more rigid one
Succeeds(a, e) == a.do = "freeze" => a.scope.of \in workload.regular \ e.fixed

apply_action(e, a) ==
    LET index == [of |-> a.scope.of, at |-> a.scope.at, kind |-> a.kind]
        c == a.scope.of
    IN CASE a.do = "create" -> [e EXCEPT !.indexes = @ \cup {index}]
         [] a.do = "drop" -> [e EXCEPT !.indexes = @ \ {index}]
         [] a.do = "switch" -> [e EXCEPT !.switches[a.name] = a.to]
         [] a.do = "cluster" -> [e EXCEPT !.cluster[c] = IF a.to = 1 THEN a.scope.at ELSE None]
         [] OTHER -> invalidate_after_schema_change([e EXCEPT !.fixed = @ \cup {c}], c)

\* the first action refused ends the whole call with an error
Perform(state, actions) ==
    FoldLeft(LAMBDA st, a : IF st.failed THEN st
                            ELSE IF Succeeds(a, st.engine)
                            THEN [st EXCEPT !.engine = apply_action(@, a)]
                            ELSE [st EXCEPT !.failed = TRUE],
             state, actions)

------------------------------------------------------------------------------
(* OptimizationController::apply: decisions in order, each through the      *)
(* gates.  `seen` is the engine the call's context was taken from.          *)

Decision(n, s, action, param) == [name |-> n, scope |-> s, action |-> action, param |-> param]
EntryOf(d) == [name |-> d.name, scope |-> d.scope]
Without(f, x) == [y \in DOMAIN f \ {x} |-> f[y]]
With(f, x, v) == [y \in DOMAIN f \cup {x} |-> IF y = x THEN v ELSE f[y]]

\* what the enabled entries are estimated to need, by today's estimate
committed_ram(cfg, w, e) == FoldSet(LAMBDA x, sum : sum + ram(x.name, w, e), 0, DOMAIN cfg)

Feasible(state, d, seen) ==
    /\ Applicable(d.name, workload, seen)
    /\ policy'.ram # Unbounded =>
         committed_ram(state.config, workload, seen) + ram(d.name, workload, seen) <= policy'.ram

\* a kind asked for by an override, or the one the workload suggests
KindOf(d) == IF d.name = "auto_index" /\ d.param \in Kinds THEN d.param
             ELSE index_kind_for(d.scope, workload)

enable(state, d, seen) ==
    LET plan == plan_enable(d.name, d.scope, KindOf(d))
        after == Perform(state, plan.apply)
    IN IF ~Feasible(state, d, seen) \/ \E i \in DOMAIN plan.apply : ~can_apply(plan.apply[i], state.engine)
       THEN state
       ELSE IF after.failed THEN after
       ELSE [after EXCEPT !.config = With(@, EntryOf(d), d.param),
                          !.applied = Append(@, [entry |-> EntryOf(d), revert |-> plan.revert])]

Disabled(state, d, actions, plans) ==
    [Perform(state, actions) EXCEPT !.config = Without(@, EntryOf(d)), !.applied = plans]

disable_afresh(state, d, seen) ==
    Disabled(state, d, plan_disable(d.name, d.scope, workload, seen),
             SelectSeq(state.applied, LAMBDA p : p.entry # EntryOf(d)))

\* the exact inverse recorded when the change was last applied
disable(state, d, seen) ==
    LET mine == {i \in DOMAIN state.applied : state.applied[i].entry = EntryOf(d)}
        last == CHOOSE i \in mine : \A j \in mine : j <= i
    IN IF mine = {} THEN disable_afresh(state, d, seen)
       ELSE Disabled(state, d, state.applied[last].revert, RemoveAt(state.applied, last))

apply_one(state, d, seen) ==
    IF state.failed THEN state
    ELSE IF d.action = "disable" THEN disable(state, d, seen) ELSE enable(state, d, seen)

\* decisions in batches; the order within a batch does not matter
apply(batches) ==
    LET now == [config |-> config, applied |-> applied, engine |-> engine, failed |-> FALSE]
    IN FoldLeft(LAMBDA st, ds : FoldSet(LAMBDA d, s : apply_one(s, d, engine), st, ds),
                now, batches)

run_decisions(batches) ==
    LET after == apply(batches)
    IN /\ Len(after.applied) <= MaxApplied
       /\ config' = after.config /\ applied' = after.applied /\ engine' = after.engine

------------------------------------------------------------------------------
(* The manual driver: a level and its overrides against the configuration.  *)

level_preset(l) ==
    (IF l >= 1 THEN Caches ELSE {})
    \cup (IF l >= 2 THEN {"auto_index", "record_compression"} ELSE {})
    \cup (IF l >= 3 THEN {"buffer_pool", "prefetch"} ELSE {})
    \cup (IF l >= 4 THEN {"column_store", "delta_encoding", "materialized_view"} ELSE {})
    \cup (IF l >= 5 THEN {"auto_composite_index", "auto_covering_index", "clustered_sort"}
          ELSE {})
    \cup (IF l >= 6 THEN {"join_order", "data_partitioning"} ELSE {})
    \cup (IF l >= 8 THEN {"freeze_schema"} ELSE {})
    \cup (IF l >= 9 THEN {"thread_per_core"} ELSE {})
    \cup (IF l >= 10 THEN {"direct_lookup"} ELSE {})

\* larger caches from level three on
level_param(n, l) == IF n \in Caches /\ l >= 3 THEN "larger" ELSE "preset"

config_for_level(l) == [x \in [name : level_preset(l) \cap Registered, scope : {GlobalScope}] |->
                          level_param(x.name, l)]

\* an override that names a scope clears the level's blanket entry first
Target(p) ==
    LET blanket == {[name |-> o.name, scope |-> GlobalScope] : o \in {o \in Range(p.overrides) : o.scope # GlobalScope}}
        level == config_for_level(p.level)
        cleared == [x \in DOMAIN level \ blanket |-> level[x]]
    IN FoldLeft(LAMBDA cfg, o :
                  LET x == [name |-> o.name, scope |-> o.scope]
                  IN IF o.enabled THEN With(cfg, x, o.param) ELSE Without(cfg, x),
                cleared, p.overrides)

\* an entry without a scope becomes one decision for every place it may act on
Expanded(x, param) ==
    {Decision(x.name, s, "enable", param) :
       s \in IF x.scope # GlobalScope THEN {x.scope} ELSE candidate_scopes(x.name, workload, engine)}

ManualDecisions(p) ==
    LET target == Target(p)
        added(n) == UNION {Expanded(x, target[x]) :
                             x \in {x \in DOMAIN target \ DOMAIN config : x.name = n}}
        removed == {Decision(x.name, x.scope, "disable", "preset") :
                      x \in DOMAIN config \ DOMAIN target}
        retuned == {Decision(x.name, x.scope, "retune", target[x]) :
                      x \in {x \in DOMAIN target \cap DOMAIN config : target[x] # config[x]}}
    IN [i \in DOMAIN Builtins |-> added(Builtins[i])] \o <<removed, retuned>>

------------------------------------------------------------------------------
(* The adaptive driver: evidence against what is enabled, estimates for     *)
(* what is not.                                                             *)

UnderExperiment(x) == trial # None /\ x = trial.entry

\* the structure is there and measurably unused; a hidden candidate reads the same
Idle(x) ==
    \/ /\ x.name = "auto_index" /\ x.scope \in Indexed(engine)
       /\ x.scope \notin workload.chosen \/ UnderExperiment(x)
    \/ x.name \in workload.cold

\* the planner does use it, but writes pay more than that is worth
Dear(x) == /\ x.name = "auto_index" /\ x.scope \in Indexed(engine) \cap workload.dear

unused_reason(x) == Idle(x) \/ Dear(x)

Pinned(x) == x.name = "auto_index" /\ x.scope \in constrained

\* driver state as one more cycle begins
Ticked(f) == [x \in Entries |-> IF f[x] = 0 THEN 0 ELSE f[x] - 1]

removals(cool) ==
    {x \in DOMAIN config : cool[x] = 0 /\ (unused_reason(x) \/ workload.worth[x.name] = "no")}

Spared(x) == UnderExperiment(x) \/ Pinned(x)

additions(cool, bar) ==
    {x \in Entries \ DOMAIN config :
       /\ x.name # "freeze_schema" /\ Applicable(x.name, workload, engine)
       /\ x.scope \in candidate_scopes(x.name, workload, engine)
       /\ cool[x] = 0 /\ bar[x] = 0
       /\ workload.worth[x.name] = "yes" /\ ~UnderExperiment(x)}

AtMost(n, S) == {T \in SUBSET S : Cardinality(T) = (IF Cardinality(S) < n THEN Cardinality(S) ELSE n)}

\* what is measurably unused goes before what merely scores badly
Retractions(cool) ==
    LET all == {x \in removals(cool) : ~Spared(x)}
        sure == {x \in all : unused_reason(x)}
    IN {T \in AtMost(MaxChanges, all) : sure \subseteq T \/ T \subseteq sure}

BarredForNothing(bar, R) == bar

\* what was dropped on a measurement is not proposed again for a while
BarredAfter(bar, R) == [x \in Entries |-> IF x \in R /\ Idle(x) THEN RetractionCooldown ELSE bar[x]]

\* an index of auto_index that a busy cycle reads as unused, and may drop
UnusedAt(s) ==
    LET x == [name |-> "auto_index", scope |-> s]
    IN /\ workload.busy /\ x \in DOMAIN config
       /\ s \in Indexed(engine) \ workload.chosen /\ ~Spared(x)

\* the driver's bookkeeping after a cycle that proposed to drop R and to add A
mark_changed(R, A) ==
    /\ cooling' = [x \in Entries |-> IF x \in R \cup A THEN Cooldown ELSE Ticked(cooling)[x]]
    /\ barred' = BarredAfter(Ticked(barred), R)
    /\ refuted' = [x \in Entries |-> IF x \in R /\ Idle(x) THEN RetractionCooldown
                                     ELSE Ticked(refuted)[x]]
    /\ waited' = [s \in Spots |-> IF UnusedAt(s) /\ \A x \in R : x.scope # s
                                  THEN waited[s] + 1 ELSE 0]

Adds(A) == {Decision(x.name, x.scope, "enable", "preset") : x \in A}
Removals(R) == {Decision(x.name, x.scope, "disable", "preset") : x \in R}

------------------------------------------------------------------------------
(* Database::optimize and its callers.                                      *)

Change(R, A) == [drop |-> R, add |-> A]

\* nothing is decided on a quiet database, but the cycle counts
decide ==
    IF ~workload.busy THEN {Change({}, {})}
    ELSE LET cool == Ticked(cooling)
             new == additions(cool, Ticked(barred))
         IN UNION {{Change(R, A) : A \in AtMost(MaxChanges - Cardinality(R), new)} :
                     R \in Retractions(cool)}

optimize_adaptively ==
    \E ch \in decide : /\ mark_changed(ch.drop, ch.add)
                        /\ run_decisions(<<Removals(ch.drop), Adds(ch.add)>>)

optimize_to_level(p) == run_decisions(ManualDecisions(p)) /\ UNCHANGED driver

optimize ==
    /\ policy' = policy
    /\ IF policy.level = Adaptive THEN optimize_adaptively ELSE optimize_to_level(policy)
    /\ UNCHANGED <<workload, trial, constrained, byhand, calls>>

Provable(d) == LET actions == plan_enable(d.name, d.scope, KindOf(d)).apply
               IN \A i \in DOMAIN actions : is_shadowable(actions[i])

\* the same, but one change that can be proved is held back for an experiment
optimize_verified ==
    /\ policy.level = Adaptive /\ trial = None /\ policy' = policy
    /\ \E ch \in decide :
         /\ mark_changed(ch.drop, ch.add)
         /\ \E d \in {d \in Adds(ch.add) : Provable(d)} :
              /\ run_decisions(<<Removals(ch.drop), Adds(ch.add) \ {d}>>)
              /\ trial' = [entry |-> EntryOf(d), built |-> FALSE]
    /\ UNCHANGED <<workload, constrained, byhand, calls>>

build_candidate ==
    /\ trial # None /\ ~trial.built /\ policy' = policy
    /\ run_decisions(<<Adds({trial.entry})>>)
    /\ trial' = IF trial.entry \in DOMAIN config' THEN [trial EXCEPT !.built = TRUE] ELSE None
    /\ UNCHANGED <<workload, constrained, byhand, calls, driver>>

promote ==
    /\ trial # None /\ trial.built /\ trial' = None
    /\ UNCHANGED <<user, config, applied, engine, driver>>

abort_experiment ==
    /\ trial # None /\ trial' = None /\ policy' = policy
    /\ run_decisions(<<IF trial.built THEN Removals({trial.entry}) ELSE {}>>)
    /\ UNCHANGED <<workload, constrained, byhand, calls, driver>>

Call == calls < MaxCalls /\ calls' = calls + 1

set_policy ==
    /\ Call
    /\ \E p \in Policies \ {policy} :
         /\ policy' = p
         /\ IF p.level = Adaptive THEN optimize_adaptively ELSE optimize_to_level(p)
    /\ UNCHANGED <<workload, trial, constrained, byhand>>

run_workload ==
    /\ Call /\ workload' \in Workloads \ {workload}
    /\ UNCHANGED <<policy, constrained, byhand, config, applied, engine, driver, trial>>

create_index ==
    /\ Call
    /\ \E s \in Spots, k \in Kinds :
         LET i == [of |-> s.of, at |-> s.at, kind |-> k]
         IN /\ i \notin engine.indexes
            /\ engine' = [engine EXCEPT !.indexes = @ \cup {i}] /\ byhand' = byhand \cup {i}
    /\ UNCHANGED <<policy, workload, config, applied, driver, trial, constrained>>

drop_index ==
    /\ Call
    /\ \E i \in engine.indexes :
         engine' = [engine EXCEPT !.indexes = @ \ {i}] /\ byhand' = byhand \ {i}
    /\ UNCHANGED <<policy, workload, config, applied, driver, trial, constrained>>

\* the backing index is reused when there is one of its kind
add_unique_constraint ==
    /\ Call
    /\ \E s \in Spots \ constrained :
         LET i == [of |-> s.of, at |-> s.at, kind |-> "hash"]
         IN /\ constrained' = constrained \cup {s}
            /\ engine' = [engine EXCEPT !.indexes = @ \cup {i}]
            /\ byhand' = IF i \in engine.indexes THEN byhand ELSE byhand \cup {i}
    /\ UNCHANGED <<policy, workload, config, applied, driver, trial>>

drop_unique_constraint ==
    /\ Call
    /\ \E s \in constrained : constrained' = constrained \ {s}
    /\ UNCHANGED <<policy, workload, config, applied, engine, driver, trial, byhand>>

alter_schema ==
    /\ Call
    /\ \E c \in Collections : engine' = invalidate_after_schema_change(engine, c)
    /\ UNCHANGED <<policy, workload, config, applied, driver, trial, constrained, byhand>>

\* columns are delta encoded until told otherwise; the catalog keeps this and one more
Off == [n \in Switches |-> IF n = "delta_encoding" THEN 1 ELSE 0]
Kept == {"delta_encoding", "thread_per_core"}
Fresh == [x \in Entries |-> 0]

\* a new controller and driver; the catalog brings back indexes and clustering
reopen ==
    /\ Call
    /\ config' = <<>> /\ applied' = <<>> /\ trial' = None
    /\ cooling' = Fresh /\ barred' = Fresh /\ refuted' = Fresh
    /\ waited' = [s \in Spots |-> 0]
    /\ \E saved \in SUBSET Kept :
         engine' = [engine EXCEPT !.switches = [n \in Switches |-> IF n \in saved THEN @[n] ELSE Off[n]]]
    /\ byhand' = engine.indexes
    /\ policy' \in Policies
    /\ UNCHANGED <<workload, constrained>>

OptimizerInit ==
    /\ policy \in Policies /\ workload \in Workloads
    /\ config = <<>> /\ applied = <<>> /\ trial = None
    /\ engine = [switches |-> Off, indexes |-> {}, cluster |-> [c \in Collections |-> None],
                 fixed |-> {}]
    /\ cooling = Fresh /\ barred = Fresh /\ refuted = Fresh
    /\ waited = [s \in Spots |-> 0]
    /\ constrained = {} /\ byhand = {} /\ calls = 0

OptimizerNext ==
    \/ optimize \/ optimize_verified \/ build_candidate \/ promote \/ abort_experiment
    \/ set_policy \/ run_workload \/ create_index \/ drop_index \/ add_unique_constraint
    \/ drop_unique_constraint \/ alter_schema \/ reopen

OptimizerSpec == OptimizerInit /\ [][OptimizerNext]_ovars

------------------------------------------------------------------------------
(* Properties.                                                              *)

\* The types of the variables, and that a plan is remembered for every enabled entry
\* (OptimizationController::applied).
OptimizerTypeOK ==
    /\ policy \in Policies /\ workload \in Workloads
    /\ DOMAIN config \subseteq Entries
    /\ \A x \in DOMAIN config : config[x] \in {"preset", "larger"} \cup Kinds
    /\ Len(applied) <= MaxApplied
    /\ DOMAIN config \subseteq {applied[i].entry : i \in DOMAIN applied}
    /\ engine.switches \in [Switches -> 0..1]
    /\ engine.indexes \subseteq [of : Collections, at : Fields, kind : Kinds]
    /\ engine.cluster \in [Collections -> Fields \cup {None}]
    /\ engine.fixed \subseteq Collections
    /\ cooling \in [Entries -> 0..Cooldown] /\ barred \in [Entries -> 0..RetractionCooldown]
    /\ trial = None \/ trial.entry \in Entries
    /\ constrained \subseteq Spots /\ calls \in 0..MaxCalls

\* A switch is on exactly when its optimization is enabled, whatever was enabled, retuned,
\* taken back or refused in between (controller.rs, apply and disable against apply_action).
SwitchesMatchConfig ==
    \A n \in (Registered \cap Switches) \ (Kept \cup Clustering) :
       engine.switches[n] = 1 <=> [name |-> n, scope |-> GlobalScope] \in DOMAIN config

\* Every index the user did not make can still be taken back exactly as it was made: the
\* controller holds the plan that drops it, by its kind, even when the workload would now
\* suggest another kind (controller.rs, disable).
OptimizerIndexesAreRecorded ==
    \A i \in engine.indexes \ byhand :
       \E k \in DOMAIN applied :
          Drop([of |-> i.of, at |-> i.at], i.kind) \in Range(applied[k].revert)

CycleStep == /\ policy.level = Adaptive /\ policy' = policy /\ calls' = calls
             /\ trial' # None \/ trial = None

Lost == {i \in engine.indexes \ engine'.indexes : [of |-> i.of, at |-> i.at] \notin Indexed(engine')}

\* A cycle of the adaptive driver never drops the index a unique constraint rests on, nor one
\* an experiment is still proving, however unused it reads (adaptive.rs, decide).
SparesLoadBearing ==
    CycleStep => \A i \in Lost :
        LET s == [of |-> i.of, at |-> i.at]
        IN /\ s \notin constrained
           /\ trial # None => ~(trial.built /\ trial.entry.scope = s)

\* What was dropped because nothing used it does not come back on an estimate before the
\* retraction cooldown is over (adaptive.rs, recently_retracted).
HeedsEvidence == CycleStep => \A x \in DOMAIN config' \ DOMAIN config : refuted[x] <= 1

\* What a cycle of the adaptive driver never does.
CyclesAreCautious == [][SparesLoadBearing /\ HeedsEvidence]_ovars

\* An index the planner has stopped choosing is gone within a bounded number of cycles: its
\* cooldown, and one for each enabled entry that may compete for the few changes of a cycle
\* (adaptive.rs, removals and decide).
UnusedIndexesGo == \A s \in Spots : waited[s] <= Cooldown + Cardinality(DOMAIN config)

\* A plan undoes exactly what it does: an optimization enabled where it may act, with nothing
\* of its kind in place yet, and taken back, leaves the engine as it was; freezing a schema is
\* the one that cannot (plan_enable of each optimization against Database::apply_action).
PlansAreUndone ==
    \A n \in Range(Builtins) \ {"freeze_schema"} :
       \A s \in candidate_scopes(n, workload, engine) :
          LET plan == plan_enable(n, s, "hash") IN
          /\ n \in Switches => engine.switches[n] = 0
          /\ s # GlobalScope => engine.cluster[s.of] = None
          => FoldLeft(apply_action, engine, plan.apply \o plan.revert) = engine

\* What configuration, records and engine promise in every state.
OptimizerInvariant ==
    /\ OptimizerTypeOK /\ SwitchesMatchConfig /\ OptimizerIndexesAreRecorded /\ UnusedIndexesGo
    /\ PlansAreUndone

\* What driver.rs says of a pinned scope: nothing but its user ever drops the last index of a
\* field with a unique constraint.
LoadBearingIndexesStay ==
    [][calls' = calls \/ policy' # policy =>
         \A i \in Lost : [of |-> i.of, at |-> i.at] \notin constrained]_ovars

\* What controller.rs says of the memory ceiling: it is checked against what is committed, so
\* the indexes built under one policy stay within its ceiling.
BuiltWithinCeiling ==
    policy.ram # Unbounded => Cardinality(engine.indexes \ byhand) <= policy.ram

==============================================================================
