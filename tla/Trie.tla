-------------------------------- MODULE Trie --------------------------------
(***************************************************************************)
(* The Merkle Patricia trie of LedgerDB (ledger/ledgerdb/mpt).  Nodes are  *)
(* content-addressed: the hash of a node is an injective term, the node    *)
(* itself, and the store is the set of the nodes that were put.            *)
(***************************************************************************)
EXTENDS Integers, Sequences, SequencesExt, FiniteSetsExt

CONSTANTS
    TrieKeys,      \* keys, as sequences of bytes
    TrieValues,    \* values, none of them the empty string
    MaxBatch,      \* bound on the keys of one Set
    MaxTrieOps     \* bound on the calls that change the trie

VARIABLES
    chunks,        \* the nodes put into the store
    root,          \* root_node_ of the trie that was built last
    content,       \* what the calls so far stored, key -> value
    trieOps

trieVars == <<chunks, root, content, trieOps>>

-----------------------------------------------------------------------------
(* Keys and nodes *)

Terminator == 16

\* MPTConfig::KeybytesToHex: two nibbles per byte and a terminator.
KeybytesToHex(key) ==
    [i \in 1 .. 2 * Len(key) + 1 |->
        IF i > 2 * Len(key) THEN Terminator
        ELSE IF i % 2 = 1 THEN key[(i + 1) \div 2] \div 16 ELSE key[i \div 2] % 16]

PrefixLen(key1, key2) == Len(LongestCommonPrefix({key1, key2}))

Drop(key, n) == SubSeq(key, n + 1, Len(key))

\* The slots of a full node that some key can select.
Slots == UNION {ToSet(KeybytesToHex(k)) : k \in TrieKeys}

NilNode == [type |-> "nil"]
ValueNode(v) == [type |-> "value", val |-> v]
HashNode(child) == [type |-> "hash", of |-> child]

NumElements(node) ==
    CASE node.type = "nil"   -> 0
      [] node.type = "value" -> 1
      [] OTHER               -> node.num

\* MPTFullNode::Encode: hashes in the slots of the nibbles, the value itself
\* in the slot of the terminator.
FullNode(nodes) ==
    [type |-> "full",
     num |-> MapThenSumSet(LAMBDA s : NumElements(nodes[s]), Slots),
     child |-> [s \in Slots |-> IF s = Terminator THEN nodes[s] ELSE HashNode(nodes[s])]]

ShortNode(key, node) ==
    [type |-> "short", num |-> NumElements(node), key |-> key,
     child |-> IF node.type = "value" THEN node ELSE HashNode(node)]

\* MPTFullNode::setChildAtIndex
SetChildAtIndex(full, s, child, ori) ==
    [full EXCEPT !.num = @ + NumElements(child) - NumElements(ori),
                 !.child[s] = IF s = Terminator THEN child ELSE HashNode(child)]

-----------------------------------------------------------------------------
(***************************************************************************)
(* Reading.  DB::Get of a hash that is not stored returns an empty chunk.  *)
(***************************************************************************)
Load(db, hash) == IF hash.of \in db THEN hash.of ELSE NilNode

RECURSIVE TryGet(_, _, _)
TryGet(db, node, key) ==
    CASE node.type = "full"  -> TryGet(db, node.child[Head(key)], Tail(key))
      [] node.type = "short" -> IF IsPrefix(node.key, key)
                                  THEN TryGet(db, node.child, Drop(key, Len(node.key)))
                                  ELSE ""
      [] node.type = "hash"  -> TryGet(db, Load(db, node), key)
      [] node.type = "value" -> node.val
      [] OTHER               -> ""

Get(key) == TryGet(chunks, root, KeybytesToHex(key))

\* Trie::GetHashNodeChild: from the nodes of this call, then from the store.
GetHashNodeChild(db, dirty, node) ==
    IF node.type # "hash" THEN NilNode
    ELSE IF node.of \in dirty THEN node.of ELSE Load(db, node)

-----------------------------------------------------------------------------
(***************************************************************************)
(* Insert returns the new node of a subtree, and the nodes created so far. *)
(***************************************************************************)
Created(node, dirty) == [node |-> node, dirty |-> dirty \cup {node}]

RECURSIVE Insert(_, _, _, _, _)
Insert(db, dirty, node, key, value) ==
    IF key = <<>> THEN [node |-> value, dirty |-> dirty]
    ELSE CASE node.type = "full" ->
                LET s == Head(key)
                    ori == IF s # Terminator
                             THEN GetHashNodeChild(db, dirty, node.child[s])
                             ELSE node.child[s]
                    new == Insert(db, dirty, ori, Tail(key), value)
                IN  Created(SetChildAtIndex(node, s, new.node, ori), new.dirty)
           [] node.type = "short" /\ IsPrefix(node.key, key) ->
                LET new == Insert(db, dirty, node.child, Drop(key, Len(node.key)), value)
                IN  Created(ShortNode(node.key, new.node), new.dirty)
           [] node.type = "short" /\ ~IsPrefix(node.key, key) ->
                LET m     == PrefixLen(key, node.key)
                    moved == IF node.child.type = "hash"
                               THEN GetHashNodeChild(db, dirty, node.child)
                               ELSE node.child
                    old   == Insert(db, dirty, NilNode, Drop(node.key, m + 1), moved)
                    new   == Insert(db, old.dirty, NilNode, Drop(key, m + 1), value)
                    full  == FullNode([s \in Slots |->
                                 IF s = key[m + 1] THEN new.node
                                 ELSE IF s = node.key[m + 1] THEN old.node ELSE NilNode])
                IN  IF m = 0 THEN Created(full, new.dirty)
                    ELSE Created(ShortNode(SubSeq(key, 1, m), full), new.dirty \cup {full})
           [] node.type = "hash" ->
                Insert(db, dirty, GetHashNodeChild(db, dirty, node), key, value)
           [] node.type = "nil" -> Created(ShortNode(key, value), dirty)

-----------------------------------------------------------------------------
(***************************************************************************)
(* TryRemove.  The slots of the nibbles always hold hash nodes, also of    *)
(* the nil node, so a full node never has one child left and the branch of *)
(* the code that shortens it is never taken.                               *)
(***************************************************************************)
RECURSIVE TryRemove(_, _, _, _)
TryRemove(db, dirty, node, key) ==
    CASE node.type = "full" ->
            LET s == Head(key)
                ori == IF s # Terminator
                         THEN GetHashNodeChild(db, dirty, node.child[s])
                         ELSE node.child[s]
                new == TryRemove(db, dirty, ori, Tail(key))
            IN  Created(SetChildAtIndex(node, s, new.node, ori), new.dirty)
      [] node.type = "short" /\ ~IsPrefix(node.key, key) ->
            [node |-> node, dirty |-> dirty]
      [] node.type = "short" /\ node.key = key ->
            [node |-> NilNode, dirty |-> dirty]
      [] node.type = "short" /\ node.key # key /\ IsPrefix(node.key, key) ->
            LET new == TryRemove(db, dirty, node.child, Drop(key, Len(node.key)))
            IN  Created(IF new.node.type = "short"
                          THEN ShortNode(node.key \o new.node.key, new.node.child)
                          ELSE ShortNode(node.key, new.node), new.dirty)
      [] node.type = "hash" ->
            TryRemove(db, dirty, GetHashNodeChild(db, dirty, node), key)
      [] OTHER -> [node |-> NilNode, dirty |-> dirty]

-----------------------------------------------------------------------------
(***************************************************************************)
(* MPTDelta::Commit puts the created nodes that the new root reaches.      *)
(***************************************************************************)
\* Mutant: the child of a short node is not committed.
Commit_shortOnly(dirty, node) ==
    CASE node.type \in {"full", "short"} -> {node} \cap dirty
      [] OTHER -> {}

RECURSIVE Commit(_, _)
Commit(dirty, node) ==
    CASE node.type = "full" ->
            ({node} \cap dirty)
              \cup UNION {Commit(dirty, node.child[s]) : s \in {t \in Slots :
                            node.child[t].type = "hash" /\ node.child[t].of # NilNode}}
      [] node.type = "short" -> ({node} \cap dirty) \cup Commit(dirty, node.child)
      [] node.type = "hash" -> IF node.of \in dirty THEN Commit(dirty, node.of) ELSE {}
      [] OTHER -> {}

\* SetNodeForHash: a trie opened on a root hash.
SetNodeForHash(db, node) == IF node \in db THEN node ELSE NilNode

-----------------------------------------------------------------------------
(* Proofs *)

EmptyProof == [nodes |-> <<>>, pos |-> <<>>, value |-> ""]

AppendProof(proof, node, s) ==
    [proof EXCEPT !.nodes = Append(@, node), !.pos = Append(@, s)]

RECURSIVE TryGetProof(_, _, _, _)
TryGetProof(db, node, key, proof) ==
    CASE node.type = "full" ->
            TryGetProof(db, node.child[Head(key)], Tail(key),
                        AppendProof(proof, node, Head(key)))
      [] node.type = "short" ->
            IF IsPrefix(node.key, key)
              THEN TryGetProof(db, node.child, Drop(key, Len(node.key)),
                               AppendProof(proof, node, 0))
              ELSE AppendProof(proof, node, 0)
      [] node.type = "hash" -> TryGetProof(db, Load(db, node), key, proof)
      [] node.type = "value" -> [proof EXCEPT !.value = node.val]
      [] OTHER -> proof

GetProof(key) == TryGetProof(chunks, root, KeybytesToHex(key), EmptyProof)

\* MPTProof::VerifyProof, from node i on: target is what the node must hash
\* to.  When the proof has no value the code compares the bytes of the key,
\* not its nibbles, with the key of a short node, and keeps target and pos.
RECURSIVE VerifyFrom(_, _, _, _, _)
VerifyFrom(proof, key, i, target, pos) ==
    i <= Len(proof.nodes) =>
        LET node == proof.nodes[i]
            next == IF node.type = "full" THEN node.child[proof.pos[i]] ELSE node.child
            step == IF node.type = "full" THEN 1 ELSE Len(node.key)
        IN  /\ node = target
            /\ CASE node.type = "short" /\ proof.value = "" ->
                       /\ pos <= Len(key)
                       /\ IsPrefix(node.key, Drop(key, pos))
                       /\ VerifyFrom(proof, key, i + 1, target, pos)
                 [] next.type = "hash" ->
                       VerifyFrom(proof, key, i + 1, next.of, pos + step)
                 [] next.type = "value" ->
                       next.val = proof.value /\ VerifyFrom(proof, key, i + 1, target, pos + step)
                 [] OTHER ->
                       proof.value = "" /\ VerifyFrom(proof, key, i + 1, target, pos + step)

VerifyProof(proof, digest, key) == VerifyFrom(proof, key, 1, digest, 0)

-----------------------------------------------------------------------------
TrieInit ==
    /\ chunks = {} /\ root = NilNode /\ trieOps = 0
    /\ content = [k \in TrieKeys |-> ""]

\* The new root is committed, and the next trie is opened on its hash.
Install(new) ==
    /\ chunks' = chunks \cup Commit(new.dirty, new.node)
    /\ root' = SetNodeForHash(chunks', new.node)
    /\ trieOps' = trieOps + 1

\* Trie::Set of a batch in the order of a std::map, and the constructor that
\* fills an empty trie.
TrieSet(batch) ==
    /\ trieOps < MaxTrieOps
    /\ LET Put(acc, kv) == Insert(chunks, acc.dirty, acc.node,
                                  KeybytesToHex(kv[1]), ValueNode(kv[2]))
       IN  Install(FoldLeft(Put, [node |-> root, dirty |-> {}], batch))
    /\ content' = [k \in TrieKeys |->
                     IF \E i \in DOMAIN batch : batch[i][1] = k
                       THEN batch[CHOOSE i \in DOMAIN batch : batch[i][1] = k][2]
                       ELSE content[k]]

TrieRemove(key) ==
    /\ trieOps < MaxTrieOps
    /\ Install(TryRemove(chunks, {}, root, KeybytesToHex(key)))
    /\ content' = [content EXCEPT ![key] = ""]

Batches == {b \in BoundedSeq(TrieKeys \X TrieValues, MaxBatch) :
               b # <<>> /\ \A i, j \in DOMAIN b : b[i][1] = b[j][1] => i = j}

TrieNext ==
    \/ \E b \in Batches : TrieSet(b)
    \/ \E k \in TrieKeys : TrieRemove(k)

-----------------------------------------------------------------------------
(* Properties *)

\* After any sequence of batches and removals, Trie::Get (trie.cc:24) through
\* the nodes in the store returns the last value of every key, and "" for a
\* key that was never set or was removed; the proof of a stored key
\* (trie.cc:379) carries its value and verifies against the hash of the root
\* (trie.cc:432); and the element count of the root, kept up by adding and
\* subtracting the counts of replaced children (mpt_node.cc:158), is right.
TrieMatchesContent ==
    /\ \A k \in TrieKeys :
        /\ Get(k) = content[k]
        /\ content[k] # "" =>
              LET p == GetProof(k) IN p.value = content[k] /\ VerifyProof(p, root, k)
    /\ NumElements(root) = Quantify(TrieKeys, LAMBDA k : content[k] # "")
=============================================================================
