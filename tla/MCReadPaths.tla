---------------------------- MODULE MCReadPaths ----------------------------
(***************************************************************************)
(* How a question is answered, for TLC: the query paths, the parser, the   *)
(* expressions and the values.  Each behaviour follows one of the four;    *)
(* the others are left out of it.                                          *)
(***************************************************************************)
EXTENDS MCValues

CONSTANTS
    None, Left, Right, MaxId, MaxValue, Summed, LowCardinality, CostFloor, PlanCapacity,
    MaxIndexes, MaxWrites,
    MaxEdits, MAX_DEPTH

VARIABLES
    part,
    rows, indexes, columns, columnOf, plans, writes,
    expr, rec, ops, pc, vals, truths,
    toks, meant, plan, edits

queryVars == <<rows, indexes, columns, columnOf, plans, writes>>
vmvars == <<expr, rec, ops, pc, vals, truths>>
sqlvars == <<toks, meant, plan, edits>>

QueryCases == INSTANCE MCQueryPaths
LeftRecords == QueryCases!MCLeftRecords
RightRecords == QueryCases!MCRightRecords
Names == QueryCases!MCNames
Queries == QueryCases!MCQueries
Joins == QueryCases!MCJoins
Paths == INSTANCE QueryPaths

VmCases == INSTANCE MCExpressions
VmExprs == VmCases!MCExprs
VmRecords == VmCases!MCRecords
VmTexts == VmCases!MCTexts
Vm == INSTANCE Expressions WITH
    Fields <- {"x", "y"}, Exprs <- VmExprs, Records <- VmRecords, Texts <- VmTexts

SqlCases == INSTANCE MCSql
SqlStatements == SqlCases!MCStatements
SqlTable == SqlCases!MCTable
Parser == INSTANCE Sql WITH Statements <- SqlStatements, Table <- SqlTable

ASSUME ValuesAssumption /\ Paths!QueryAssumption

\* What a behaviour leaves out holds nothing.
NoQueries == rows = {} /\ indexes = {} /\ columns = {} /\ columnOf = {} /\ plans = {} /\ writes = {}
NoProgram == expr = {} /\ rec = {} /\ ops = {} /\ pc = {} /\ vals = {} /\ truths = {}
NoStatement == toks = {} /\ meant = {} /\ plan = {} /\ edits = {}
NoValues == held = [i \in 1..3 |-> Null]

ReadsInit ==
    \/ part = "paths" /\ Paths!QueryInit /\ NoStatement /\ NoProgram /\ NoValues
    \/ part = "sql" /\ Parser!SqlInit /\ NoQueries /\ NoProgram /\ NoValues
    \/ part = "vm" /\ Vm!VmInit /\ NoQueries /\ NoStatement /\ NoValues
    \/ part = "values" /\ ValuesInit /\ NoQueries /\ NoStatement /\ NoProgram

\* Statements and programs come to an end, and then rest.
ReadsNext ==
    \/ part = "paths" /\ Paths!QueryNext /\ UNCHANGED <<part, sqlvars, vmvars, held>>
    \/ part = "sql" /\ Parser!SqlNext /\ UNCHANGED <<part, queryVars, vmvars, held>>
    \/ part = "vm" /\ Vm!VmNext /\ UNCHANGED <<part, queryVars, sqlvars, held>>
    \/ part = "values" /\ ValuesNext /\ UNCHANGED <<part, queryVars, sqlvars, vmvars>>
    \/ part \in {"sql", "vm"} /\ UNCHANGED <<part, queryVars, sqlvars, vmvars, held>>

ReadsSpec == ReadsInit /\ [][ReadsNext]_<<part, queryVars, sqlvars, vmvars, held>>

\* The invariants of QueryPaths, Sql, Expressions and Values, stated and explained there,
\* each for the behaviours of its part; what evaluates a condition compares values.
PathsInvariant == part = "paths" => Paths!PathsInvariant
SqlInvariant == part = "sql" => Parser!SqlInvariant
EvaluationInvariant == (part = "vm" => Vm!ExpressionInvariant) /\ ValuesInvariant
=============================================================================
