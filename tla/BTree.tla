------------------------------- MODULE BTree --------------------------------
(***************************************************************************)
(* The B+-tree that QLDB and SQL Ledger index their documents with         *)
(* (ledger/qldb/ql_btree.cc, ql_btree_node.cc).  A node is stored under    *)
(* "<level>|<largest key>", the last one of a level under                  *)
(* "<level>|_INFI_", and the root under "ROOT" only.                       *)
(***************************************************************************)
EXTENDS Integers, Sequences, SequencesExt, FiniteSetsExt, Maps

CONSTANTS
    BKeys,         \* keys, natural numbers
    BValues,
    Fanout,        \* BPlusConfig::fanout
    LeafFanout,    \* BPlusConfig::leaf_fanout
    MaxSet         \* bound on the keys of one Set

VARIABLES
    bnodes,        \* the stored nodes other than the root, by id
    broot,         \* the node under "ROOT"
    documents      \* what the calls of Set stored, key -> value

btVars == <<bnodes, broot, documents>>

Infi == -1         \* "_INFI_"
NoNext == <<>>     \* an empty next of a leaf

\* QLBTreeMap: a leaf, with the id of its right neighbour.
MapNode(keys, vals, next) == [type |-> "map", keys |-> keys, vals |-> vals, next |-> next]

\* QLBTreeMeta: elems[i] is the number of elements under child i, the last one
\* under the child behind all keys, 0 when there is none.
MetaNode(level, keys, elems) ==
    [type |-> "meta", level |-> level, keys |-> keys, elems |-> elems]

NumElements(node) ==
    IF node.type = "map" THEN Len(node.keys) ELSE FoldLeft(+, 0, node.elems)

\* The id of child i, counted from 0, of a meta node.
ChildId(meta, i) ==
    <<meta.level - 1, IF i = Len(meta.keys) THEN Infi ELSE meta.keys[i + 1]>>

\* QLBTreeMeta::BinarySearch, with its final scan; positions count from 0.
RECURSIVE BinarySearch(_, _, _, _)
BinarySearch(keys, key, start, end) ==
    IF end <= start
      THEN Min({Len(keys)} \cup {i \in start .. Len(keys) - 1 : key <= keys[i + 1]})
      ELSE LET pivot == (end + start) \div 2
           IN  IF key = keys[pivot + 1] THEN pivot
               ELSE IF key < keys[pivot + 1] THEN BinarySearch(keys, key, start, pivot - 1)
               ELSE BinarySearch(keys, key, pivot + 1, end)

Search(meta, key) == BinarySearch(meta.keys, key, 0, Len(meta.keys))

-----------------------------------------------------------------------------
(* Reading *)

RECURSIVE TryGet(_, _, _)
TryGet(db, node, key) ==
    IF node.type = "map"
      THEN LET i == SelectInSeq(node.keys, LAMBDA k : k = key)
           IN  IF i = 0 THEN "" ELSE node.vals[i]
      ELSE TryGet(db, db[ChildId(node, Search(node, key))], key)

Get(key) == TryGet(bnodes, broot, key)

\* The children TryRange descends into.
Children(meta, start, end) == Search(meta, start) .. Search(meta, end)

\* QLBTree::Range: the pairs it adds to its result, FindKey at the leaves.
RECURSIVE TryRange(_, _, _, _)
TryRange(db, node, start, end) ==
    IF node.type = "map"
      THEN {<<node.keys[i], node.vals[i]>> :
              i \in {j \in DOMAIN node.keys : start <= node.keys[j] /\ node.keys[j] <= end}}
      ELSE UNION {TryRange(db, db[ChildId(node, i)], start, end) : i \in Children(node, start, end)}

GetRange(start, end) == TryRange(bnodes, broot, start, end)

-----------------------------------------------------------------------------
(***************************************************************************)
(* Insert returns whether the node split, the level, the sizes of the one  *)
(* or two nodes that replace it, and the delta with those nodes.           *)
(***************************************************************************)
ComputeSplitIndex(size) == (size + 1) \div 2

\* The nodes under a fanout, or their halves.  left and right make the nodes.
Replace(delta, level, keys, fanout, id, Whole, Left, Right) ==
    LET split == ComputeSplitIndex(Len(keys))
    IN  IF Len(keys) <= fanout
          THEN [isSplit |-> FALSE, split_key |-> Infi, level |-> level,
                elems |-> <<NumElements(Whole)>>, delta |-> With(delta, id, Whole)]
          ELSE [isSplit |-> TRUE, split_key |-> keys[split], level |-> level,
                elems |-> <<NumElements(Left), NumElements(Right)>>,
                delta |-> With(With(delta, <<level, keys[split]>>, Left), id, Right)]

\* A leaf with these keys and values in the place of node.
ReplaceMap(delta, node, keys, vals) ==
    LET n     == Len(keys)
        split == ComputeSplitIndex(n)
        id    == <<0, IF node.next = NoNext THEN Infi ELSE keys[n]>>
    IN  Replace(delta, 0, keys, LeafFanout, id,
                MapNode(keys, vals, node.next),
                MapNode(SubSeq(keys, 1, split), SubSeq(vals, 1, split), id),
                MapNode(SubSeq(keys, split + 1, n), SubSeq(vals, split + 1, n), node.next))

\* The value of the key at pos is replaced, or key and value are put there.
InsertAtPos(delta, node, pos, key, value) ==
    IF pos <= Len(node.keys) /\ node.keys[pos] = key
      THEN ReplaceMap(delta, node, node.keys, ReplaceAt(node.vals, pos, value))
      ELSE ReplaceMap(delta, node, InsertAt(node.keys, pos, key), InsertAt(node.vals, pos, value))

InsertIntoMap(delta, node, key, value) ==
    InsertAtPos(delta, node, 1 + Quantify(DOMAIN node.keys, LAMBDA i : node.keys[i] < key), key, value)

\* Mutant: every meta node is stored as the last one of its level.
ThisId_last(meta, keys) == Infi

\* A meta node without a last child is stored under its largest key.
ThisId(meta, keys) == IF Last(meta.elems) = 0 THEN Last(keys) ELSE Infi

\* The sizes of the children, the one at i replaced by one or two.
NewElems(meta, i, r) ==
    SubSeq(meta.elems, 1, i) \o r.elems \o SubSeq(meta.elems, i + 2, Len(meta.elems))

ReplaceMeta(delta, meta, keys, elems) ==
    LET split == ComputeSplitIndex(Len(keys))
    IN  Replace(delta, meta.level, keys, Fanout, <<meta.level, ThisId(meta, keys)>>,
                MetaNode(meta.level, keys, elems),
                MetaNode(meta.level, SubSeq(keys, 1, split), Append(SubSeq(elems, 1, split), 0)),
                MetaNode(meta.level, SubSeq(keys, split + 1, Len(keys)),
                                     SubSeq(elems, split + 1, Len(elems))))

\* QLBTreeMeta::UpdateChild
UpdateChild(meta, i, r) ==
    ReplaceMeta(r.delta, meta,
                IF r.isSplit THEN InsertAt(meta.keys, i + 1, r.split_key) ELSE meta.keys,
                NewElems(meta, i, r))

RECURSIVE Insert(_, _, _, _, _)
Insert(db, delta, node, key, value) ==
    IF node.type = "map" THEN InsertIntoMap(delta, node, key, value)
    ELSE LET i == Search(node, key)
             child == ChildId(node, i)
         IN  UpdateChild(node, i, Insert(db, delta,
                 IF child \in DOMAIN delta THEN delta[child] ELSE db[child], key, value))

\* QLBTreeDelta::Commit: the ids it puts below the root, from the new nodes.
RECURSIVE Commit(_, _)
Commit(delta, id) ==
    IF id \notin DOMAIN delta THEN {}
    ELSE {id} \cup (IF delta[id].type = "map" THEN {}
                    ELSE UNION {Commit(delta, ChildId(delta[id], i)) :
                                  i \in {j \in 0 .. Len(delta[id].keys) :
                                           j = Len(delta[id].keys) => Last(delta[id].elems) > 0}})

-----------------------------------------------------------------------------
BTreeInit ==
    /\ bnodes = EmptyMap /\ broot = MapNode(<<>>, <<>>, NoNext)
    /\ documents = [k \in BKeys |-> ""]

\* A root that split gets a new root above it.
NewRoot(r) ==
    LET id   == <<IF r.isSplit THEN r.level + 1 ELSE r.level, Infi>>
        root == IF r.isSplit THEN MetaNode(r.level + 1, <<r.split_key>>, r.elems) ELSE r.delta[id]
    IN  [root |-> root, id |-> id, delta |-> With(r.delta, id, root)]

\* One key of Set: the result is the new root, its id and the delta.
SetOne(acc, kv) == NewRoot(Insert(bnodes, acc.delta, acc.root, kv[1], kv[2]))

\* QLBTree::Set of keys and values.
BTreeSet(batch) ==
    \E new \in {FoldLeft(SetOne, [root |-> broot, id |-> <<0, Infi>>, delta |-> EmptyMap], batch)} :
        /\ broot' = new.root
        /\ bnodes' = Merge([id \in Commit(new.delta, new.id) \ {new.id} |-> new.delta[id]], bnodes)
        /\ documents' = FoldLeft(LAMBDA d, kv : [d EXCEPT ![kv[1]] = kv[2]], documents, batch)

BTreeNext == \E batch \in BoundedSeq(BKeys \X BValues, MaxSet) : batch # <<>> /\ BTreeSet(batch)

-----------------------------------------------------------------------------
(* Properties *)

\* After any sequence of Set calls, whatever splits they caused and however the
\* keys were batched, Get (ql_btree.cc:23) returns the last value of each key,
\* numElements of the root counts the keys, and Range (ql_btree.cc:66) returns
\* the documents between its bounds, both included, although a meta node that is
\* not the last of its level sends it to the last node of the level below.
BTreeMatchesDocuments ==
    /\ \A k \in BKeys : Get(k) = documents[k]
    /\ NumElements(broot) = Quantify(BKeys, LAMBDA k : documents[k] # "")
    /\ \A a, b \in BKeys : a <= b =>
        GetRange(a, b) = {<<k, documents[k]>> : k \in {j \in a .. b : j \in BKeys /\ documents[j] # ""}}
=============================================================================
