-------------------------------- MODULE Trie --------------------------------
(***************************************************************************)
(* The subscriptions of a SUB socket (protocols/pubsub/trie.c, kept by     *)
(* nn_xsub_setopt): a patricia trie with reference counts whose nodes keep *)
(* up to PREFIX_MAX characters, and their children in a sparse array of up *)
(* to SPARSE_MAX or else in a dense array from the least to the greatest   *)
(* character, with holes.                                                  *)
(*                                                                         *)
(* A node is a value: the kids of a sparse node are a function on its      *)
(* characters, those of a dense node on the range of them, with NULL for a *)
(* hole.  The reference is what the application has subscribed to: count.  *)
(* Any string may be cancelled, subscribed to or not.                      *)
(***************************************************************************)
EXTENDS Integers, Sequences, SequencesExt, FiniteSetsExt, Functions

CONSTANTS Chars,        \* the characters, integers
          Strings,      \* what is subscribed to
          MaxCount,     \* bound: subscriptions to one string
          MaxSubs,      \* bound: subscriptions in all
          Messages,     \* what is matched, of any length
          PREFIX_MAX, SPARSE_MAX

ASSUME TrieAssumption ==
  /\ PREFIX_MAX \in Nat /\ SPARSE_MAX \in Nat \ {0}
  /\ Chars \subseteq Nat /\ Strings \subseteq Seq(Chars) /\ Messages \subseteq Seq(Chars)

VARIABLES root, count, failed,  \* failed: an assertion, or NULL was dereferenced
          astray                \* history: the calls that the trie does not survive
vars == <<root, count, failed, astray>>

NULL == [null |-> TRUE]
None == [c \in {} |-> NULL]
Node(refcount, prefix, kids) ==
  [refcount |-> refcount, prefix |-> prefix, kids |-> kids, dense |-> FALSE, nbr |-> 0]

(* nn_trie_init *)
Init == root = NULL /\ count = [s \in Strings |-> 0] /\ failed = FALSE /\ astray = {}

-----------------------------------------------------------------------------
nn_node_has_subscribers(node) == node.refcount > 0

(* How many characters of the prefix the data start with.                  *)
nn_node_check_prefix(node, data) ==
  Max({i \in 0 .. Len(node.prefix) :
         i <= Len(data) /\ SubSeq(data, 1, i) = SubSeq(node.prefix, 1, i)})
Skip(data, i) == SubSeq(data, i + 1, Len(data))

(* nn_node_next: is there a slot for the character?                        *)
nn_node_next(node, c) == c \in DOMAIN node.kids

(* The joining character is lost.                                          *)
nn_node_compact_Char(node) ==
  IF nn_node_has_subscribers(node) \/ node.dense \/ Cardinality(DOMAIN node.kids) # 1 THEN node
  ELSE LET ch == node.kids[CHOOSE c \in DOMAIN node.kids : TRUE]
       IN IF Len(node.prefix) + Len(ch.prefix) + 1 > PREFIX_MAX THEN node
          ELSE [ch EXCEPT !.prefix = node.prefix \o @]

(* A node with one child and no subscription is merged into the child if   *)
(* their characters fit.                                                   *)
nn_node_compact(node) ==
  IF nn_node_has_subscribers(node) \/ node.dense \/ Cardinality(DOMAIN node.kids) # 1 THEN node
  ELSE LET c == CHOOSE k \in DOMAIN node.kids : TRUE
           ch == node.kids[c]
       IN IF Len(node.prefix) + Len(ch.prefix) + 1 > PREFIX_MAX THEN node
          ELSE [ch EXCEPT !.prefix = node.prefix \o <<c>> \o @]

(* Step 5: the subscription.                                               *)
AddRef(node) == [node EXCEPT !.refcount = @ + 1]

(* Step 4: new nodes for what remains.                                     *)
RECURSIVE NewNodes(_)
NewNodes(data) ==
  IF Len(data) <= PREFIX_MAX THEN AddRef(Node(0, data, None))
  ELSE Node(0, SubSeq(data, 1, PREFIX_MAX),
            data[PREFIX_MAX + 1] :> NewNodes(Skip(data, PREFIX_MAX + 1)))

(* Step 3: a child for the next character.  A sparse array that is full    *)
(* becomes a dense one, in a new node with no subscriptions.               *)
Range0(kids) == Min(DOMAIN kids) .. Max(DOMAIN kids)
Widened(kids, c, ch) ==
  LET all == [k \in DOMAIN kids \cup {c} |-> IF k = c THEN ch ELSE kids[k]]
  IN [k \in Range0(all) |-> IF k \in DOMAIN all THEN all[k] ELSE NULL]
AddChild(node, data) ==
  LET c == Head(data)
      ch == NewNodes(Tail(data))
  IN IF data = <<>> THEN AddRef(node)
     ELSE IF node.dense THEN [node EXCEPT !.kids = Widened(@, c, ch), !.nbr = @ + 1]
     ELSE IF Cardinality(DOMAIN node.kids) < SPARSE_MAX THEN [node EXCEPT !.kids = (c :> ch) @@ @]
     ELSE [refcount |-> 0, prefix |-> node.prefix, kids |-> Widened(node.kids, c, ch),
           dense |-> TRUE, nbr |-> Cardinality(DOMAIN node.kids) + 1]

(* Step 2: the prefix is split after pos characters.                       *)
Split(node, pos) ==
  Node(0, SubSeq(node.prefix, 1, pos),
       node.prefix[pos + 1] :> nn_node_compact([node EXCEPT !.prefix = Skip(@, pos + 1)]))

(* nn_trie_subscribe, from the node on.                                    *)
RECURSIVE nn_trie_subscribe(_, _)
nn_trie_subscribe(node, data) ==
  IF node = NULL THEN NewNodes(data)
  ELSE LET pos == nn_node_check_prefix(node, data)
           rest == Skip(data, pos)
       IN IF pos < Len(node.prefix) THEN AddChild(Split(node, pos), rest)
          ELSE IF rest = <<>> THEN AddRef(node)
          ELSE IF ~ nn_node_next(node, Head(rest)) THEN AddChild(node, rest)
          ELSE IF node.kids[Head(rest)] = NULL THEN AddChild(node, rest)
          ELSE [node EXCEPT !.kids[Head(rest)] = nn_trie_subscribe(@, Tail(rest))]

-----------------------------------------------------------------------------
(* What nn_trie_match may return.  Data that end where the trie goes on    *)
(* are read past their end.                                                *)
RECURSIVE nn_trie_match(_, _)
nn_trie_match(node, data) ==
  IF node = NULL THEN {FALSE}
  ELSE LET rest == Skip(data, Len(node.prefix))
       IN IF nn_node_check_prefix(node, data) # Len(node.prefix) THEN {FALSE}
          ELSE IF nn_node_has_subscribers(node) THEN {TRUE}
          ELSE IF rest = <<>> THEN BOOLEAN
          ELSE IF ~ nn_node_next(node, Head(rest)) THEN {FALSE}
          ELSE nn_trie_match(node.kids[Head(rest)], Tail(rest))

-----------------------------------------------------------------------------
(* What nn_node_unsubscribe leaves: the node, the result (-1 is -EINVAL),  *)
(* whether it failed.                                                      *)
Left(node, rc) == [node |-> node, rc |-> rc, failed |-> FALSE]

(* The end of the string.                                                  *)
Found(node) ==
  IF node = NULL THEN Left(node, -1)
  ELSE IF ~ nn_node_has_subscribers(node) THEN Left(node, -1)
  ELSE LET n == [node EXCEPT !.refcount = @ - 1]
       IN IF nn_node_has_subscribers(n) THEN Left(n, 0)
          ELSE IF n.kids = None THEN Left(NULL, 1)
          ELSE Left(nn_node_compact(n), 1)

(* A hole in the middle of a dense array is not counted.                   *)
DenseWithout_Uncounted(node, kids, c) ==
  LET live == {k \in DOMAIN kids : kids[k] # NULL}
  IN IF c \in {Min(DOMAIN kids), Max(DOMAIN kids)}
     THEN [node EXCEPT !.nbr = @ - 1, !.kids = Restrict(kids, Min(live) .. Max(live))]
     ELSE [node EXCEPT !.kids = kids]

(* A dense array that stays one is trimmed at the end that was removed.    *)
DenseWithout(node, kids, c) ==
  LET live == {k \in DOMAIN kids : kids[k] # NULL}
  IN [node EXCEPT !.nbr = @ - 1,
                  !.kids = IF c \in {Min(DOMAIN kids), Max(DOMAIN kids)}
                           THEN Restrict(kids, Min(live) .. Max(live)) ELSE kids]

(* The child is gone; a dense array with SPARSE_MAX children left becomes  *)
(* a sparse one, in a new node with no subscriptions.                      *)
Prune(node, c) ==
  LET kids == [node.kids EXCEPT ![c] = NULL]
      live == {k \in DOMAIN kids : kids[k] # NULL}
      n == [node EXCEPT !.kids = Restrict(kids, DOMAIN kids \ {c})]
  IN IF ~ node.dense
     THEN IF n.kids = None /\ ~ nn_node_has_subscribers(n) THEN Left(NULL, 1)
          ELSE Left(nn_node_compact(n), 1)
     ELSE IF node.nbr > SPARSE_MAX + 1 THEN Left(DenseWithout(node, kids, c), 1)
     ELSE [Left(Node(0, node.prefix, Restrict(kids, live)), 1)
             EXCEPT !.failed = Cardinality(live) # SPARSE_MAX]

RECURSIVE nn_node_unsubscribe(_, _)
nn_node_unsubscribe(node, data) ==
  IF data = <<>> THEN Found(node)
  ELSE IF node = NULL THEN [Left(node, 1) EXCEPT !.failed = TRUE]
  ELSE LET rest == Skip(data, Len(node.prefix))
           c == Head(rest)
           r == nn_node_unsubscribe(node.kids[c], Tail(rest))
       IN IF nn_node_check_prefix(node, data) # Len(node.prefix) THEN Left(node, 0)
          ELSE IF rest = <<>> THEN Found(node)
          ELSE IF ~ nn_node_next(node, c) THEN Left(node, 0)
          ELSE IF r.failed THEN r
          ELSE IF r.rc = 0 \/ r.node # NULL
          THEN Left([node EXCEPT !.kids[c] = r.node], IF r.rc = 0 THEN 0 ELSE 1)
          ELSE Prune(node, c)

-----------------------------------------------------------------------------
(* The calls after which the trie is not what was subscribed to, told by   *)
(* the subscriptions alone.                                                *)
Subscribed(cnt) == {s \in Strings : cnt[s] > 0}
Follow(cnt, p) == {s[Len(p) + 1] : s \in {s \in Subscribed(cnt) : IsStrictPrefix(p, s)}}

(* "converted": the children of a node that is a subscription get too many *)
(* for a sparse array, or few enough for one again: the new node is none.  *)
Converted(cnt) ==
  \E p \in Subscribed(count) \cap Subscribed(cnt) :
     (Cardinality(Follow(count, p)) > SPARSE_MAX) # (Cardinality(Follow(cnt, p)) > SPARSE_MAX)

(* "absent": a string is cancelled that is not subscribed to, in an empty  *)
(* trie (NULL is dereferenced), or one that all longer subscriptions       *)
(* continue in the same way (it may end inside a prefix, which is not      *)
(* compared), or one that leads into a hole of a dense array.              *)
Misled(s) ==
  /\ count[s] = 0
  /\ \/ Subscribed(count) = {} /\ s # <<>>
     \/ Cardinality(Follow(count, s)) = 1
     \/ \E i \in 1 .. Len(s) :
          LET kids == Follow(count, SubSeq(s, 1, i - 1))
          IN Cardinality(kids) > SPARSE_MAX /\ s[i] \in (Min(kids) .. Max(kids)) \ kids

(* nn_xsub_setopt                                                          *)
NN_SUB_SUBSCRIBE(s) ==
  /\ ~ failed /\ count[s] < MaxCount /\ FoldFunction(+, 0, count) < MaxSubs
  /\ root' = nn_trie_subscribe(root, s)
  /\ count' = [count EXCEPT ![s] = @ + 1]
  /\ astray' = astray \cup (IF Converted(count') THEN {"converted"} ELSE {})
  /\ UNCHANGED failed

NN_SUB_UNSUBSCRIBE(s) ==
  LET r == nn_node_unsubscribe(root, s)
  IN /\ ~ failed
     /\ root' = r.node
     /\ failed' = r.failed
     /\ count' = [count EXCEPT ![s] = IF @ > 0 THEN @ - 1 ELSE 0]
     /\ astray' = astray \cup (IF Misled(s) THEN {"absent"} ELSE {})
                         \cup (IF Converted(count') THEN {"converted"} ELSE {})

(* The process is no more.                                                 *)
Dead == failed /\ UNCHANGED vars

Next == Dead \/ \E s \in Strings : NN_SUB_SUBSCRIBE(s) \/ NN_SUB_UNSUBSCRIBE(s)

Spec == Init /\ [][Next]_vars

-----------------------------------------------------------------------------
(* A SUB socket takes the messages that start with a string it is          *)
(* subscribed to, and no others, whatever was subscribed and cancelled in  *)
(* which order, up to the calls of astray.  The code leaves one thing      *)
(* open: a message that a subscription continues, and that starts with     *)
(* none, is read past its end (trie.c:465) and may be taken.               *)
Takes(d) == \E s \in Subscribed(count) : IsPrefix(s, d)
Exact ==
  /\ ~ failed
  /\ \A d \in Messages :
       \/ nn_trie_match(root, d) = {Takes(d)}
       \/ nn_trie_match(root, d) = BOOLEAN /\ ~ Takes(d) /\ Follow(count, d) # {}
MatchExact == astray = {} => Exact

(* Messages that match a topic subscribed to are delivered: doc/           *)
(* nn_pubsub.adoc:36.  Said of applications that cancel what they have     *)
(* subscribed to.                                                          *)
TopicsDelivered ==
  "absent" \notin astray => \A d \in Messages : Takes(d) => nn_trie_match(root, d) = {TRUE}

(* Every node is there for a subscription, its own or that of a node below *)
(* it, so that a trie without subscriptions is empty; a sparse array never *)
(* overflows, and a dense one is trimmed and knows how many children it    *)
(* has, which decides when it is given up (trie.c:560, 621).               *)
RECURSIVE NodeOK(_)
NodeOK(node) ==
  LET live == {c \in DOMAIN node.kids : node.kids[c] # NULL}
  IN /\ Len(node.prefix) <= PREFIX_MAX
     /\ nn_node_has_subscribers(node) \/ live # {}
     /\ IF node.dense
        THEN node.nbr = Cardinality(live) /\ node.nbr > SPARSE_MAX
             /\ {Min(DOMAIN node.kids), Max(DOMAIN node.kids)} \subseteq live
        ELSE live = DOMAIN node.kids /\ Cardinality(live) <= SPARSE_MAX
     /\ \A c \in live : NodeOK(node.kids[c])
WellFormed == astray = {} => (root # NULL => NodeOK(root))
=============================================================================
