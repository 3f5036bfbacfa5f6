----------------------------- MODULE MCTelemetry -----------------------------
(* Two threads; queries that pin two fields, that range over one, and that      *)
(* project; two records that collide in one row of the sketch and not in the other. *)
EXTENDS TLC

MCQueries ==
    {[equal |-> {"a", "b"}, other |-> {}, ranged |-> {}, projected |-> {},
      indexed |-> {"a"}],
     [equal |-> {}, other |-> {"b"}, ranged |-> {"b"}, projected |-> {"a"},
      indexed |-> {}]}
MCSlot == (1 :> <<0, 0>>) @@ (2 :> <<0, 1>>)
MCCalls == [query |-> 2, get |-> 4, write |-> 1]
MCDecay == <<3, 4>>
=============================================================================
