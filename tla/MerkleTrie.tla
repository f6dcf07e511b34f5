----------------------------- MODULE MerkleTrie ------------------------------
(***************************************************************************)
(* The Merkle Patricia trie of storage/merkle_trie.rs: batched updates, a  *)
(* content-addressed node store and a cache of lookup paths.  A hash names *)
(* one node content, so a node stands for its own hash; nodes is the set   *)
(* of contents the store still has.  A key is its nibbles, two per byte.   *)
(* A reader is one call of get, which may be overtaken between its walk    *)
(* and the caching of its path.                                            *)
(***************************************************************************)
EXTENDS Integers, SequencesExt, Maps

CONSTANTS Nibbles,    \* the nibbles that keys use, from 0
          TrieKeys,   \* the keys in their order
          Values,
          NoNode,     \* no node, or no value
          BatchSize,  \* the number of buffered updates that forces a commit
          CacheSize,  \* max_size of the path cache
          Readers,
          MaxUpdates  \* bound: the updates of a behaviour

ASSUME TrieAssumption == BatchSize \in Nat \ {0} /\ CacheSize \in Nat \ {0}

VARIABLES root, nodes, paths, batch, reading, panicked, updates,
          raced,      \* history: a read was overtaken by a commit
          committed   \* history: the map that the committed updates describe

trieVars == <<root, nodes, paths, batch, reading, panicked, updates, raced, committed>>

Leaf(p, v) == [kind |-> "leaf", path |-> p, value |-> v]
Extension(p, c) == [kind |-> "extension", path |-> p, child |-> c]
Branch(cs, v) == [kind |-> "branch", children |-> cs, value |-> v]

TrieInit ==
    /\ root = NoNode /\ nodes = {} /\ paths = <<>> /\ batch = <<>>
    /\ reading = [r \in Readers |-> NoNode]
    /\ panicked = FALSE /\ updates = 0 /\ raced = FALSE
    /\ committed = <<>>

(* NibblePath::to_nibbles of NibblePath::from_nibbles: an odd path is padded *)
(* with a zero and comes back without its first two nibbles.                 *)
Decoded(p) == IF Len(p) % 2 = 0 THEN p ELSE SubSeq(p \o <<0>>, 3, Len(p) + 1)

After(s, n) == SubSeq(s, n + 1, Len(s))
CommonPrefixLen(a, b) == Len(LongestCommonPrefix({a, b}))

-----------------------------------------------------------------------------
(* Lookups: the sequence of nodes visited and the value found.  key is what *)
(* is left of it at this node.                                              *)

RECURSIVE Walk(_, _, _, _)
Walk(ns, at, key, path) ==
    LET seen == Append(path, at)
        none == [path |-> seen, value |-> NoNode]
    IN  CASE at \notin ns -> none
        []   at \in ns /\ at.kind = "leaf" ->
                IF key = Decoded(at.path) THEN [path |-> seen, value |-> at.value] ELSE none
        []   at \in ns /\ at.kind = "extension" ->
                IF IsPrefix(Decoded(at.path), key)
                THEN Walk(ns, at.child, After(key, Len(Decoded(at.path))), seen) ELSE none
        []   at \in ns /\ at.kind = "branch" ->
                IF key = <<>> THEN [path |-> seen, value |-> at.value]
                ELSE IF at.children[key[1]] # NoNode
                     THEN Walk(ns, at.children[key[1]], Tail(key), seen) ELSE none

Lookup(key) == IF root = NoNode THEN [path |-> <<>>, value |-> NoNode] ELSE Walk(nodes, root, key, <<>>)

(* The nodes of the proof that prove collects. *)
RECURSIVE ProveBelow(_, _)
ProveBelow(at, key) ==
    IF at \notin nodes THEN <<>>
    ELSE <<at>> \o (CASE at.kind = "leaf" -> <<>>
                    []   at.kind = "extension" ->
                            IF IsPrefix(Decoded(at.path), key)
                            THEN ProveBelow(at.child, After(key, Len(Decoded(at.path)))) ELSE <<>>
                    []   at.kind = "branch" -> IF key = <<>> THEN <<>> ELSE ProveBelow(at.children[key[1]], Tail(key)))

(* What a cached path gives: the value of its last node, if that still exists. *)
CachedValue(path) ==
    IF path # <<>> /\ Last(path) \in nodes /\ Last(path).kind # "extension"
    THEN Last(path).value ELSE NoNode

-----------------------------------------------------------------------------
(* Updates: the node that replaces the one at this place, the store after  *)
(* it, and whether the code got that far (unwrap of a missing node panics). *)

Made(ns, n) == [at |-> n, nodes |-> ns \cup {n}, ok |-> TRUE]
Same(ns, at) == [at |-> at, nodes |-> ns, ok |-> TRUE]

(* An extension above a branch, unless there is nothing in common. *)
Prefixed(ns, p, b) == IF p = <<>> THEN Made(ns, b) ELSE Made(ns \cup {b}, Extension(p, b))

(* A leaf in its own slot of a branch, with the path below that slot. *)
Below(key, n, v) == Leaf(After(key, n + 1), v)

(* The old value becomes the branch's value even when the old key goes on. *)
SplitLeaf(ns, key, v, oldKey, oldValue, n) ==
    LET new == IF Len(key) > n THEN {<<key[n + 1], Below(key, n, v)>>} ELSE {}
        old == IF Len(oldKey) > n THEN {<<oldKey[n + 1], Below(oldKey, n, oldValue)>>} ELSE {}
        kids == [x \in Nibbles |-> LET s == {e \in new \cup old : e[1] = x}
                                   IN IF s = {} THEN NoNode ELSE (CHOOSE e \in s : TRUE)[2]]
        b == Branch(kids, IF Len(key) = n THEN v ELSE oldValue)
    IN  Prefixed(ns \cup {e[2] : e \in new \cup old}, SubSeq(key, 1, n), b)

SplitExtension(ns, key, v, p, child, n) ==
    LET rest == IF Len(p) > n + 1 THEN {Extension(After(p, n + 1), child)} ELSE {}
        leaf == IF Len(key) > n THEN {Below(key, n, v)} ELSE {}
        kids == [x \in Nibbles |->
                    IF x = p[n + 1] THEN (IF rest = {} THEN child ELSE CHOOSE e \in rest : TRUE)
                    ELSE IF Len(key) > n /\ x = key[n + 1] THEN Below(key, n, v) ELSE NoNode]
        b == Branch(kids, IF Len(key) = n THEN v ELSE NoNode)
    IN  Prefixed(ns \cup rest \cup leaf, SubSeq(p, 1, n), b)

(* The parent is removed from the store once its new child is made. *)
Rebuilt(r, at, Parent(_)) ==
    IF r.ok THEN Made(r.nodes \ {at}, Parent(r.at)) ELSE r

RECURSIVE InsertBelow(_, _, _, _)
InsertBelow(ns, at, key, v) ==
    IF at = NoNode THEN Made(ns, Leaf(key, v))
    ELSE IF at \notin ns THEN [at |-> NoNode, nodes |-> ns, ok |-> FALSE]
    ELSE CASE at.kind = "leaf" ->
                LET p == Decoded(at.path)
                IN  IF p = key THEN Made(ns \ {at}, Leaf(at.path, v))
                    ELSE SplitLeaf(ns, key, v, p, at.value, CommonPrefixLen(key, p))
         []   at.kind = "extension" ->
                LET p == Decoded(at.path)
                    n == CommonPrefixLen(key, p)
                    up(c) == Extension(at.path, c)
                IN  IF n = Len(p) THEN Rebuilt(InsertBelow(ns, at.child, After(key, n), v), at, up)
                    ELSE SplitExtension(ns, key, v, p, at.child, n)
         []   at.kind = "branch" ->
                LET up(c) == Branch([at.children EXCEPT ![key[1]] = c], at.value)
                IN  IF key = <<>> THEN Made(ns \ {at}, Branch(at.children, v))
                    ELSE Rebuilt(InsertBelow(ns, at.children[key[1]], Tail(key), v), at, up)

(* A branch left with a value only, or with one leaf or extension, shrinks. *)
SimplifyBranch(ns, kids, v) ==
    LET used == {x \in Nibbles : kids[x] # NoNode}
        x == CHOOSE y \in used : TRUE
        c == kids[x]
        joined == IF c.kind = "leaf" THEN Leaf(<<x>> \o Decoded(c.path), c.value)
                  ELSE Extension(<<x>> \o Decoded(c.path), c.child)
    IN  IF used = {} THEN (IF v = NoNode THEN Same(ns, NoNode) ELSE Made(ns, Leaf(<<>>, v)))
        ELSE IF Cardinality(used) = 1 /\ v = NoNode
             THEN IF c \notin ns THEN Same(ns, NoNode)
                  ELSE IF c.kind = "branch" THEN Made(ns, Branch(kids, v))
                  ELSE Made(ns \ {c}, joined)
        ELSE Made(ns, Branch(kids, v))

TryMergeExtension(ns, path, c) ==
    LET p == Decoded(path)
    IN  CASE c \notin ns -> Same(ns, NoNode)
        []   c \in ns /\ c.kind = "extension" -> Made(ns \ {c}, Extension(p \o Decoded(c.path), c.child))
        []   c \in ns /\ c.kind = "leaf" -> Made(ns \ {c}, Leaf(p \o Decoded(c.path), c.value))
        []   c \in ns /\ c.kind = "branch" -> Made(ns, Extension(path, c))

RECURSIVE DeleteBelow(_, _, _)
DeleteBelow(ns, at, key) ==
    CASE at = NoNode \/ at \notin ns -> Same(ns, NoNode)
    []   at \in ns /\ at.kind = "leaf" ->
            IF key = Decoded(at.path) THEN Same(ns \ {at}, NoNode) ELSE Same(ns, at)
    []   at \in ns /\ at.kind = "extension" ->
            LET p == Decoded(at.path)
                r == DeleteBelow(ns, at.child, After(key, Len(p)))
            IN  IF ~IsPrefix(p, key) THEN Same(ns, at)
                ELSE IF r.at = NoNode THEN Same(r.nodes \ {at}, NoNode)
                ELSE TryMergeExtension(r.nodes, at.path, r.at)
    []   at \in ns /\ at.kind = "branch" ->
            IF key = <<>> THEN SimplifyBranch(ns \ {at}, at.children, NoNode)
            ELSE IF at.children[key[1]] = NoNode THEN Same(ns, at)
            ELSE LET r == DeleteBelow(ns, at.children[key[1]], Tail(key))
                 IN  SimplifyBranch(r.nodes \ {at}, [at.children EXCEPT ![key[1]] = r.at], at.value)

-----------------------------------------------------------------------------
(* Operations. *)

SortedByKey_Unstable(b) ==
    FlattenSeq([i \in 1..Len(TrieKeys) |-> SelectSeq(Reverse(b), LAMBDA u : u.key = TrieKeys[i])])

(* sort_by is stable: updates of one key keep their order. *)
SortedByKey(b) == FlattenSeq([i \in 1..Len(TrieKeys) |-> SelectSeq(b, LAMBDA u : u.key = TrieKeys[i])])

(* One update of a commit; after a panic the rest of the batch is gone. *)
Applied(t, u) ==
    IF ~t.ok THEN t
    ELSE LET r == IF u.value # NoNode THEN InsertBelow(t.nodes, t.at, u.key, u.value)
                  ELSE DeleteBelow(t.nodes, t.at, u.key)
         IN  IF r.ok THEN r ELSE [r EXCEPT !.at = t.at]

Described(m, u) == IF u.value = NoNode THEN Drop(m, u.key) ELSE Put(m, u.key, u.value)

(* commit_batch on the updates it took; the path cache is emptied last. *)
Commit(b) ==
    LET t == FoldLeft(Applied, [at |-> root, nodes |-> nodes, ok |-> TRUE], SortedByKey(b))
    IN  /\ root' = t.at /\ nodes' = t.nodes
        /\ panicked' = (panicked \/ ~t.ok)
        /\ paths' = IF t.ok THEN <<>> ELSE paths
        /\ batch' = <<>>
        /\ committed' = FoldLeft(Described, committed, b)
        /\ raced' = (raced \/ \E r \in Readers : reading[r] # NoNode)

CommitBatch ==
    /\ batch # <<>>
    /\ Commit(batch)
    /\ UNCHANGED <<reading, updates>>

(* insert and delete buffer the update; insert commits a full batch. *)
Update(k, v) ==
    /\ updates < MaxUpdates
    /\ updates' = updates + 1
    /\ LET b == Append(batch, [key |-> k, value |-> v])
       IN  IF v # NoNode /\ Len(b) >= BatchSize THEN Commit(b)
           ELSE batch' = b /\ UNCHANGED <<root, nodes, paths, panicked, raced, committed>>
    /\ UNCHANGED reading

(* get: a miss walks the trie and then caches the path of a value it found. *)
GetWalk(r, k) ==
    /\ reading[r] = NoNode /\ k \notin DOMAIN paths
    /\ Lookup(k).value # NoNode
    /\ reading' = [reading EXCEPT ![r] = [key |-> k, path |-> Lookup(k).path]]
    /\ UNCHANGED <<root, nodes, paths, batch, panicked, updates, raced, committed>>

GetCache(r) ==
    /\ reading[r] # NoNode
    /\ \E rest \in IF Cardinality(DOMAIN paths) >= CacheSize
                   THEN {Drop(paths, k) : k \in DOMAIN paths} ELSE {paths} :
          paths' = Put(rest, reading[r].key, reading[r].path)
    /\ reading' = [reading EXCEPT ![r] = NoNode]
    /\ UNCHANGED <<root, nodes, batch, panicked, updates, raced, committed>>

TrieNext ==
    \/ CommitBatch
    \/ \E k \in Range(TrieKeys), v \in Values \cup {NoNode} : Update(k, v)
    \/ \E r \in Readers : GetCache(r) \/ \E k \in Range(TrieKeys) : GetWalk(r, k)

(* With keys of one length a lookup never finds anything but what was last  *)
(* committed for its key, whatever the encoding of odd paths loses and      *)
(* whichever shared node another key's update removed from the store.  (It  *)
(* may well find nothing: a leaf below an even split keeps a path that no   *)
(* key matches.)  The proof of a key that is found is the path to its       *)
(* value.  As long as no read is overtaken by a commit, the shortcut        *)
(* through a cached path gives what a walk from the root would give.        *)
LookupsNeverLie ==
    /\ ~panicked => \A k \in Range(TrieKeys) :
                       LET v == Lookup(k).value
                       IN  v # NoNode => /\ k \in DOMAIN committed /\ v = committed[k]
                                         /\ ProveBelow(root, k) = Lookup(k).path
    /\ ~raced /\ ~panicked => \A k \in DOMAIN paths : CachedValue(paths[k]) = Lookup(k).value
=============================================================================
