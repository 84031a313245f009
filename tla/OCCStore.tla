------------------------------ MODULE OCCStore ------------------------------
(***************************************************************************)
(* One shard's OCCStore (distributed/store/strongstore/occstore.cc): its   *)
(* map of prepared transactions, from transaction id to read and write     *)
(* set, and the log of the commits it has put, oldest first.               *)
(***************************************************************************)
EXTENDS Naturals, Sequences, Maps

REPLY_OK == "OK"
REPLY_FAIL == "FAIL"
None == "none"
NoWriter == <<>>    \* no transaction has written the key yet

Empty == [prepared |-> EmptyMap, log |-> <<>>]

getPreparedWrites(store) ==
    UNION {store.prepared[t].writes : t \in DOMAIN store.prepared}

getPreparedReadWrites(store) ==
    UNION {store.prepared[t].reads \cup store.prepared[t].writes : t \in DOMAIN store.prepared}

\* Mutant: the writes are checked against the prepared writes only.
Conflicts_writes(store, txn) ==
    \/ txn.reads \cap getPreparedWrites(store) # {}
    \/ txn.writes \cap getPreparedWrites(store) # {}

Conflicts(store, txn) ==
    \/ txn.reads \cap getPreparedWrites(store) # {}
    \/ txn.writes \cap getPreparedReadWrites(store) # {}

\* The status that Prepare returns.
PrepareStatus(store, id, txn) ==
    IF id \notin DOMAIN store.prepared /\ Conflicts(store, txn) THEN REPLY_FAIL ELSE REPLY_OK

\* The store that Prepare leaves.
Prepare(store, id, txn) ==
    IF id \in DOMAIN store.prepared \/ Conflicts(store, txn) THEN store
    ELSE [store EXCEPT !.prepared = With(@, id, txn)]

Abort(store, id) == [store EXCEPT !.prepared = Without(@, id)]

\* Mutant: the newest version is missed.
LastWriter_previous(log, k) ==
    LET ws == {i \in 1 .. Len(log) - 1 : k \in log[i].writes}
    IN  IF ws = {} THEN NoWriter ELSE log[CHOOSE i \in ws : \A j \in ws : j <= i].id

\* BatchGet: the version of a key is named by the last transaction to write it.
LastWriter(log, k) ==
    LET ws == {i \in 1 .. Len(log) : k \in log[i].writes}
    IN  IF ws = {} THEN NoWriter ELSE log[CHOOSE i \in ws : \A j \in ws : j <= i].id

BatchGet(store, ks) == [k \in ks |-> LastWriter(store.log, k)]

\* The writes of a prepared transaction are put and it is prepared no more.
PutWrites(store, id, seen) ==
    [prepared |-> Without(store.prepared, id),
     log |-> Append(store.log, [id |-> id, writes |-> store.prepared[id].writes, seen |-> seen])]

\* Commit of a stored procedure executes the reads, then the writes.  It asserts
\* that the transaction is prepared.
CommitProcedure(store, id) ==
    IF id \notin DOMAIN store.prepared THEN store
    ELSE PutWrites(store, id, BatchGet(store, store.prepared[id].reads))

\* Commit of a transaction whose reads the client has made.  prepared[id] of an
\* unknown id is an empty transaction, which writes nothing.
Commit(store, id) ==
    IF id \notin DOMAIN store.prepared THEN store
    ELSE PutWrites(store, id, store.prepared[id].seen)
=============================================================================
