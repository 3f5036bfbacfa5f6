---------------------------- MODULE MCWritePaths ----------------------------
(***************************************************************************)
(* Where writes go, for TLC: transactions and unique constraints, the      *)
(* record codec and the sharded database.  Each behaviour follows one of   *)
(* the three; the others rest in an initial state.                         *)
(***************************************************************************)
EXTENDS MCTransactions

CONSTANTS
    CodecIds, IntMax, BitsPerCell,
    Clients, ShardCounts, MaxId, MaxShardWrites, MaxQueries, MaxRestarts, Absent

VARIABLES
    part,
    schema, stored, array, truth, spoiled,
    shards, exists, rows, counter, next_shard, shard_calls, used, spent

codecvars == <<schema, stored, array, truth, spoiled>>
svars == <<shards, exists, rows, counter, next_shard, shard_calls, used, spent>>

CodecCases == INSTANCE MCRecordCodec
Codec == INSTANCE RecordCodec WITH
    Ids <- CodecIds, MaxName <- 3, Schemas <- CodecCases!MCSchemas, Records <- CodecCases!MCRecords

\* Plans and batches over ids from 0 and the values 1 and 2.
Big == [name |-> "filter", keep |-> {2}]
First == [name |-> "limit", n |-> 1]
Sort == [name |-> "sort"]
Count == [name |-> "count"]
Scan(ops) == [ids |-> <<>>, ops |-> ops]
Plans == {Scan(<<>>), Scan(<<Big>>), Scan(<<Sort, First>>), Scan(<<Big, Count>>),
          Scan(<<First, Big>>), [ids |-> <<3, 2>>, ops |-> <<Sort>>]}
Batches == {[id \in {0, 1} |-> 1], [id \in {1, 2, 3} |-> 2]}
Shards == INSTANCE Sharding WITH
    Values <- {1, 2},
    MaxWrites <- MaxShardWrites, calls <- shard_calls

ASSUME Codec!CodecAssumption /\ Shards!ShardingAssumption

\* Records, values and fields are told apart; transactions, clients and the rows of the codec
\* are not.
ClientSymmetry == TxnSymmetry \cup Permutations(Clients) \cup Permutations(CodecIds)

WritesInit ==
    /\ part \in {"transactions", "codec", "shards"}
    /\ TInit /\ Codec!CodecInit /\ Shards!ShardingInit
    /\ part # "transactions" => mix = Scanning
    /\ part # "codec" => schema = CHOOSE s \in CodecCases!MCSchemas : TRUE
    /\ part # "shards" => shards = CHOOSE n \in ShardCounts : TRUE

WritesNext ==
    \/ part = "transactions" /\ TNext /\ UNCHANGED <<part, codecvars, svars>>
    \/ part = "codec" /\ Codec!CodecNext /\ UNCHANGED <<part, tvars, svars>>
    \/ part = "shards" /\ Shards!ShardingNext /\ UNCHANGED <<part, tvars, codecvars>>

WritesSpec == WritesInit /\ [][WritesNext]_<<part, tvars, codecvars, svars>>

\* The properties of RecordCodec and of Sharding, stated and explained there; what holds no
\* rows is not looked at.
CodecInvariant == part = "codec" => Codec!CodecInvariant
ShardingInvariant == Shards!ShardingInvariant
AutoIdsAreNew == Shards!AutoIdsAreNew
=============================================================================
