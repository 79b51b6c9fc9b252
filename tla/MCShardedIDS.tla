---------------------------- MODULE MCShardedIDS ----------------------------
(* Small instances of ShardedIDS for TLC.                                    *)
EXTENDS ShardedIDS

\* one shard, so that one queue sees every interleaving
RouteToOne == [k \in Keys |-> 0]

=============================================================================
