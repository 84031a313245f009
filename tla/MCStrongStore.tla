---------------------------- MODULE MCStrongStore ----------------------------
(***************************************************************************)
(* StrongStore with one key per shard.                                     *)
(***************************************************************************)
EXTENDS StrongStore, TLC

CONSTANTS x, y, sx, sy

OneKeyPerShard == (x :> sx) @@ (y :> sy)

Txn(r, w) == [reads |-> r, writes |-> w]

\* Every pair of these conflicts at one shard or at both.
CrossWorkload == {Txn({x}, {y}), Txn({y}, {x}), Txn({}, {x, y})}
WriteBoth == {Txn({}, {x, y})}
\* GetBalance, and a transaction that reads one account and writes two.
Bank == {Txn({x}, {}), Txn({x}, {x, y})}
AllTxns == {w \in [reads : SUBSET Keys, writes : SUBSET Keys] : w.reads \cup w.writes # {}}
ReadModifyWrite == {Txn({x}, {x})}

\* A bound: a connection breaks only under the transactions of CrossWorkload.
LossesUnderConflict ==
    losses = 0 \/ \A c \in Clients : Txn(txn[c].reads, txn[c].writes) \in CrossWorkload \cup {Txn({}, {})}

Symmetry == Permutations(Clients)
=============================================================================
