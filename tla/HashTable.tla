------------------------------ MODULE HashTable ------------------------------
(***************************************************************************)
(* The hash table of src/rp-l2tp/libevent/hash.c, its links and its        *)
(* iterator, as the table of sessions of a tunnel uses it: the loops of    *)
(* tunnel.c free the entry they stand on, one after hash_remove, two       *)
(* without it, and one deletes it or not.                                  *)
(*                                                                         *)
(* An item's key stands for the ID or address that compute_hash and        *)
(* compare look at.                                                        *)
(***************************************************************************)
EXTENDS Integers, FiniteSets

CONSTANTS Item,          \* memory for the entries
          NULL,
          HASHTAB_SIZE,
          Key            \* IDs

ASSUME HashAssumption ==
    /\ IsFiniteSet(Item) /\ NULL \notin Item
    /\ HASHTAB_SIZE \in Nat \ {0} /\ Key \subseteq Nat

VARIABLES tab,      \* the table with the hash_bucket of every item
          key,      \* the items' keys
          live,     \* the items that are allocated
          walk,     \* the loop over the table that is in progress
          older     \* history: for each entry, those that were inserted before it

vars == <<tab, key, live, walk, older>>

Pointer == Item \cup {NULL}
BucketNo == 0..(HASHTAB_SIZE - 1)
Bucket(i) == {x \in live : key[x] % HASHTAB_SIZE = i}

(* The history of the entries that remain. *)
Remaining(entries) ==
    [x \in Item |-> IF x \in entries THEN older[x] \cap entries ELSE {}]

EmptyTable(b) == [buckets |-> [i \in BucketNo |-> NULL], b |-> b, num_entries |-> 0]

(***************************************************************************)
(* hash.c                                                                  *)
(***************************************************************************)

hash_init(t) == EmptyTable(t.b)

hash_insert(t, x, k) ==
    LET val == k % HASHTAB_SIZE
        head == t.buckets[val]
        linked == [t.b EXCEPT ![x] = [next |-> head, prev |-> NULL, hashval |-> k]]
    IN  [buckets |-> [t.buckets EXCEPT ![val] = x],
         b |-> IF head = NULL THEN linked ELSE [linked EXCEPT ![head].prev = x],
         num_entries |-> t.num_entries + 1]

(* mutant: the follower keeps its prev *)
UnlinkForward(t, x) ==
    [buckets |-> IF t.b[x].prev = NULL
                 THEN [t.buckets EXCEPT ![t.b[x].hashval % HASHTAB_SIZE] = t.b[x].next]
                 ELSE t.buckets,
     b |-> [y \in Item |-> IF y = t.b[x].prev THEN [t.b[y] EXCEPT !.next = t.b[x].next]
                                             ELSE t.b[y]],
     num_entries |-> t.num_entries - 1]

hash_remove(t, x) ==
    LET e == t.b[x]
        relinked(y) == [t.b[y] EXCEPT !.next = IF y = e.prev THEN e.next ELSE @,
                                      !.prev = IF y = e.next THEN e.prev ELSE @]
    IN  [buckets |-> IF e.prev = NULL
                     THEN [t.buckets EXCEPT ![e.hashval % HASHTAB_SIZE] = e.next]
                     ELSE t.buckets,
         b |-> [y \in Item |-> relinked(y)],
         num_entries |-> t.num_entries - 1]

(* The k-th entry of bucket i, counted from zero. *)
Nth(t, i) ==
    LET nth[k \in 0..Cardinality(Item)] ==
            IF k = 0 THEN t.buckets[i]
            ELSE IF nth[k - 1] = NULL THEN NULL ELSE t.b[nth[k - 1]].next
    IN  nth

(* mutant: the first entry of the bucket is taken for the one sought *)
FindBucket(t, k) == t.buckets[k % HASHTAB_SIZE]

hash_find(t, k) ==
    LET nth == Nth(t, k % HASHTAB_SIZE)
        found == {j \in DOMAIN nth : nth[j] # NULL /\ key[nth[j]] = k}
    IN  IF found = {} THEN NULL
        ELSE nth[CHOOSE j \in found : \A l \in found : j <= l]

(* The head of the first bucket that is not empty, from i on. *)
FirstFrom(t, i) ==
    LET used == {j \in BucketNo : j >= i /\ t.buckets[j] # NULL}
    IN  IF used = {} THEN NULL
        ELSE t.buckets[CHOOSE j \in used : \A l \in used : j <= l]

(* mutant: a bucket is skipped *)
SkipBucket(t, x) ==
    IF t.b[x].next # NULL THEN t.b[x].next
    ELSE FirstFrom(t, (t.b[x].hashval % HASHTAB_SIZE) + 2)

hash_next_cursor(t, x) ==
    IF t.b[x].next # NULL THEN t.b[x].next
    ELSE FirstFrom(t, (t.b[x].hashval % HASHTAB_SIZE) + 1)

(* mutant: the cursor is the entry returned, not the one after it *)
CursorOnEntry(t, x) == x

(* "Point cursor to NEXT item so it is valid even if current item is       *)
(* free'd"                                                                 *)
CursorAfter(t, x) == hash_next_cursor(t, x)

(***************************************************************************)
(* tunnel.c: loop, the kind of loop; ses, the entry it stands on; cursor.  *)
(* left, a history, holds the entries the iterator has yet to return;      *)
(* again says that it returned one that was not among them.                *)
(***************************************************************************)

Loops == {"StopCCN", "destruction", "free", "tell_open"}
Idle == [loop |-> "none", ses |-> NULL, cursor |-> NULL, left |-> {}, again |-> FALSE]

Init ==
    /\ tab = EmptyTable([x \in Item |-> [next |-> NULL, prev |-> NULL, hashval |-> 0]])
    /\ key = [x \in Item |-> 0]
    /\ live = {} /\ older = [x \in Item |-> {}] /\ walk = Idle

(* l2tp_tunnel_add_session of a new session, its ID chosen not to clash;   *)
(* keys of tunnels_by_peer_address may.                                    *)
add_session ==
    /\ walk.loop = "none"
    /\ \E x \in Item \ live, k \in Key :
        /\ tab' = hash_insert(tab, x, k)
        /\ key' = [key EXCEPT ![x] = k]
        /\ live' = live \cup {x} /\ older' = [older EXCEPT ![x] = live]
    /\ UNCHANGED walk

delete_session ==
    /\ walk.loop = "none"
    /\ \E x \in live :
        /\ tab' = hash_remove(tab, x)
        /\ live' = live \ {x} /\ older' = Remaining(live \ {x})
    /\ UNCHANGED <<key, walk>>

Standing(loop, x, cursor, left) ==
    [loop |-> loop, ses |-> x, cursor |-> cursor, left |-> left \ {x},
     again |-> x \notin left]

hash_start ==
    /\ walk.loop = "none"
    /\ \E loop \in Loops :
        LET x == FirstFrom(tab, 0)
        IN  /\ x # NULL
            /\ walk' = Standing(loop, x, CursorAfter(tab, x), live)
    /\ UNCHANGED <<tab, key, live, older>>

(* What the body of the loop leaves of the table. *)
Bodies ==
    LET x == walk.ses
        removed == [tab |-> hash_remove(tab, x), live |-> live \ {x}]
        freed == [tab |-> tab, live |-> live \ {x}]
        kept == [tab |-> tab, live |-> live]
    IN  CASE walk.loop = "StopCCN" -> {removed}
          [] walk.loop = "tell_open" -> {removed, kept}
          [] OTHER -> {freed}

(* The body, then hash_next; after the last entry tunnel_free frees the    *)
(* table as well and tunnel_schedule_destruction clears it.                *)
hash_next ==
    /\ walk.loop # "none"
    /\ \E body \in Bodies :
        /\ live' = body.live /\ older' = Remaining(body.live)
        /\ \/ /\ walk.cursor # NULL
              /\ walk' = Standing(walk.loop, walk.cursor,
                                  CursorAfter(body.tab, walk.cursor), walk.left)
              /\ tab' = body.tab
           \/ /\ walk.cursor = NULL
              /\ walk' = [Idle EXCEPT !.left = walk.left]
              /\ tab' = IF walk.loop \in {"destruction", "free"}
                        THEN hash_init(body.tab) ELSE body.tab
    /\ UNCHANGED key

Next == add_session \/ delete_session \/ hash_start \/ hash_next

Spec == Init /\ [][Next]_vars

(***************************************************************************)
(* Properties.                                                             *)
(***************************************************************************)

Table ==
    [buckets : [BucketNo -> Pointer],
     b : [Item -> [next : Pointer, prev : Pointer, hashval : Key \cup {0}]],
     num_entries : 0..Cardinality(Item)]

(* The table, its links and the loop have their types. *)
HashTypeOK ==
    /\ tab \in Table
    /\ key \in [Item -> Key \cup {0}]
    /\ live \subseteq Item /\ older \in [Item -> SUBSET live]
    /\ walk \in [loop : Loops \cup {"none"}, ses : Pointer, cursor : Pointer,
                 left : SUBSET Item, again : BOOLEAN]

(* Of the entries in a set, p is the last that was inserted, or the first; *)
(* NULL if there is none.                                                  *)
IsNewest(p, entries) ==
    IF entries = {} THEN p = NULL ELSE p \in entries /\ entries \ {p} \subseteq older[p]
IsOldest(p, entries) ==
    IF entries = {} THEN p = NULL
    ELSE p \in entries /\ \A x \in entries \ {p} : p \in older[x]

(* The types are right, and every chain is a doubly linked list of its     *)
(* bucket's entries, the newest first, and num_entries, on which the end   *)
(* of a tunnel and of the program depends, counts them; not while a loop   *)
(* frees entries that it leaves in the table.                              *)
ChainsWellFormed ==
    /\ HashTypeOK
    /\ walk.loop \notin {"destruction", "free"} =>
        /\ tab.num_entries = Cardinality(live)
        /\ \A i \in BucketNo :
            /\ IsNewest(tab.buckets[i], Bucket(i))
            /\ \A x \in Bucket(i) :
                /\ IsNewest(tab.b[x].next, Bucket(i) \cap older[x])
                /\ IsOldest(tab.b[x].prev, {y \in Bucket(i) : x \in older[y]})

(* hash_find finds the newest of the entries with a key, so that a call to *)
(* a peer with a closing tunnel and a newer one gets the newer one.        *)
FindsNewest ==
    walk.loop = "none" =>
        \A k \in Key : IsNewest(hash_find(tab, k), {x \in live : key[x] = k})

(* Memory: the entry a loop stands on and the one its cursor points to are *)
(* allocated, whatever the loop does with the entries behind it.           *)
NoFreedEntryRead ==
    walk.loop # "none" => {walk.ses, walk.cursor} \subseteq live \cup {NULL}

(* A loop meets every entry that was in the table when it began, once:     *)
(* no session survives its tunnel, none is freed twice.                    *)
EachVisitedOnce == ~walk.again /\ (walk.loop = "none" => walk.left = {})
=============================================================================
