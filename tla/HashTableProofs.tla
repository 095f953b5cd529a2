--------------------------- MODULE HashTableProofs ---------------------------
(***************************************************************************)
(* The hash table and the loops over it are right for any memory, table    *)
(* size and keys.                                                          *)
(*                                                                         *)
(* The operators below take what a step may change as parameters: t, a     *)
(* table; place, the number of the bucket of each item; entries; old, for  *)
(* each entry those that are older. So a lemma speaks of the state before  *)
(* a step and of the state after it.                                       *)
(***************************************************************************)
EXTENDS HashTable, FiniteSetTheorems, WellFoundedInduction, TLAPS

Place == [x \in Item |-> key[x] % HASHTAB_SIZE]
In(place, entries, i) == {x \in entries : place[x] = i}
Kept(old, entries) == [x \in Item |-> IF x \in entries THEN old[x] \cap entries ELSE {}]

(* The entries that the iterator meets after x, and the one it meets       *)
(* first of such a set.                                                    *)
Ahead(place, entries, old, x) ==
    {y \in entries : place[y] > place[x] \/ (place[y] = place[x] /\ y \in old[x])}
IsFirst(place, entries, old, p, some) ==
    IF some = {} THEN p = NULL
    ELSE p \in some /\ some = {p} \cup Ahead(place, entries, old, p)

IsNewestOf(old, p, some) ==
    IF some = {} THEN p = NULL ELSE p \in some /\ some \ {p} \subseteq old[p]
IsOldestOf(old, p, some) ==
    IF some = {} THEN p = NULL
    ELSE p \in some /\ \A x \in some \ {p} : p \in old[x]

Older(place, entries, old, x) == In(place, entries, place[x]) \cap old[x]
Newer(place, entries, old, x) == {y \in In(place, entries, place[x]) : x \in old[y]}

(* The entries are in a strict total order of age. *)
Aged(entries, old) ==
    /\ entries \subseteq Item /\ old \in [Item -> SUBSET entries]
    /\ \A x \in Item \ entries : old[x] = {}
    /\ \A x \in entries : x \notin old[x] /\ \A y \in old[x] : old[y] \subseteq old[x]
    /\ \A x, y \in entries : x = y \/ x \in old[y] \/ y \in old[x]

(* Forwards, from any entry and from the heads of the buckets from lo on,  *)
(* the links lead to all that is older.                                    *)
Linked(t, place, entries, old, lo) ==
    /\ \A x \in entries :
        /\ t.b[x].hashval % HASHTAB_SIZE = place[x]
        /\ IsNewestOf(old, t.b[x].next, Older(place, entries, old, x))
    /\ \A i \in BucketNo :
        i >= lo => IsNewestOf(old, t.buckets[i], In(place, entries, i))

(* Backwards, and the count. *)
Counted(t, place, entries, old) ==
    /\ t.num_entries = Cardinality(entries)
    /\ \A x \in entries : IsOldestOf(old, t.b[x].prev, Newer(place, entries, old, x))

Frees(w) == w.loop \in {"destruction", "free"}

(* A loop stands on an entry, its cursor is on the one after it, and it    *)
(* has yet to return all that lie ahead; one that frees leaves no others.  *)
WalkOK(place, entries, old, w) ==
    IF w.loop = "none" THEN w = Idle
    ELSE /\ w.ses \in entries /\ ~w.again
         /\ w.left = Ahead(place, entries, old, w.ses)
         /\ IsFirst(place, entries, old, w.cursor, w.left)
         /\ Frees(w) => entries = w.left \cup {w.ses}

(* A loop that frees entries leaves the links to them in the table, and    *)
(* the heads of the buckets that are behind it.                            *)
Good(t, place, entries, old, w) ==
    /\ Aged(entries, old)
    /\ Linked(t, place, entries, old, IF Frees(w) THEN place[w.ses] + 1 ELSE 0)
    /\ ~Frees(w) => Counted(t, place, entries, old)
    /\ WalkOK(place, entries, old, w)

(* The invariant of the table and the loop over it. *)
HashInv == HashTypeOK /\ Good(tab, Place, live, older, walk)

(* The numbers of the buckets. *)
LEMMA Numbers ==
    /\ \A k \in Nat : k % HASHTAB_SIZE \in BucketNo
    /\ 0 \in BucketNo /\ BucketNo \subseteq Nat
    /\ 0 % HASHTAB_SIZE = 0
    /\ Key \subseteq Nat /\ 0 \in Nat
    /\ NULL \notin Item /\ IsFiniteSet(Item) /\ Cardinality(Item) \in Nat
  <1>1. HASHTAB_SIZE \in Nat \ {0}
    BY HashAssumption
  <1>2. \A k \in Nat : k % HASHTAB_SIZE \in 0..(HASHTAB_SIZE - 1)
    BY <1>1
  <1>3. 0 \in 0..(HASHTAB_SIZE - 1) /\ 0 % HASHTAB_SIZE = 0
    BY <1>1
  <1>. QED
    BY <1>1, <1>2, <1>3, HashAssumption, FS_CardinalityType DEF BucketNo

(* An item that leaves a set of entries is forgotten by all of them. *)
LEMMA KeptAged ==
    ASSUME NEW entries, NEW old, Aged(entries, old), NEW some \in SUBSET entries
    PROVE  /\ Aged(some, Kept(old, some))
           /\ \A x \in some : Kept(old, some)[x] = old[x] \cap some
           /\ Kept(old, some) \in [Item -> SUBSET some]
  <1> DEFINE new == Kept(old, some)
  <1>1. /\ entries \subseteq Item /\ old \in [Item -> SUBSET entries]
        /\ \A x \in entries : x \notin old[x] /\ \A y \in old[x] : old[y] \subseteq old[x]
        /\ \A x, y \in entries : x = y \/ x \in old[y] \/ y \in old[x]
    BY DEF Aged
  <1>2. \A x \in some : new[x] = old[x] \cap some
    BY <1>1 DEF Kept
  <1>3. new \in [Item -> SUBSET some]
    BY <1>1 DEF Kept
  <1> HIDE DEF new
  <1>4. ASSUME NEW x \in some, NEW y \in new[x] PROVE new[y] \subseteq new[x]
    <2>1. y \in some /\ y \in old[x] /\ x \in entries
      BY <1>2
    <2>2. old[y] \subseteq old[x]
      BY <1>1, <2>1
    <2>. QED
      BY <1>2, <2>1, <2>2
  <1>5. \A x \in some : x \notin new[x]
    BY <1>1, <1>2
  <1>6. \A x, y \in some : x = y \/ x \in new[y] \/ y \in new[x]
    BY <1>1, <1>2
  <1>7. \A x \in Item \ some : new[x] = {}
    BY DEF Kept, new
  <1>8. Aged(some, new)
    BY <1>1, <1>3, <1>4, <1>5, <1>6, <1>7 DEF Aged
  <1>. QED
    BY <1>2, <1>3, <1>8 DEF new

(* The newest and the oldest of some entries are still so when another is  *)
(* gone, or when one that was not among them is.                           *)
LEMMA StillNewest ==
    ASSUME NEW entries, NEW old, Aged(entries, old), NEW some \in SUBSET entries,
           NEW gone \in entries, NEW p, p # gone
    PROVE  /\ IsNewestOf(old, p, some)
              => IsNewestOf(Kept(old, entries \ {gone}), p, some \ {gone})
           /\ IsOldestOf(old, p, some)
              => IsOldestOf(Kept(old, entries \ {gone}), p, some \ {gone})
  <1> DEFINE rest == entries \ {gone}
             new == Kept(old, rest)
  <1>1. \A x \in rest : new[x] = old[x] \cap rest
    BY KeptAged
  <1> HIDE DEF new
  <1>2. p \in some => p \in some \ {gone} /\ p \in rest
    OBVIOUS
  <1>3. ASSUME IsNewestOf(old, p, some) PROVE IsNewestOf(new, p, some \ {gone})
    <2>1. CASE some = {}
      BY <1>3, <2>1 DEF IsNewestOf
    <2>2. CASE some # {}
      BY <1>1, <1>2, <1>3, <2>2 DEF IsNewestOf
    <2>. QED
      BY <2>1, <2>2
  <1>4. ASSUME IsOldestOf(old, p, some) PROVE IsOldestOf(new, p, some \ {gone})
    <2>1. CASE some = {}
      BY <1>4, <2>1 DEF IsOldestOf
    <2>2. CASE some # {}
      BY <1>1, <1>2, <1>4, <2>2 DEF IsOldestOf
    <2>. QED
      BY <2>1, <2>2
  <1>. QED
    BY <1>3, <1>4 DEF new

(* Every non-empty set of naturals has a least element. *)
LEMMA LeastNatural ==
    ASSUME NEW T, T \subseteq Nat, T # {}
    PROVE  \E x \in T : \A y \in T : x <= y
  <1>1. IsWellFoundedOn(OpToRel(<, Nat), Nat)
    BY NatLessThanWellFounded
  <1>2. PICK x \in T : \A y \in T : ~(<<y, x>> \in OpToRel(<, Nat))
    BY <1>1, WFMin
  <1>3. \A y \in T : y < x => <<y, x>> \in OpToRel(<, Nat)
    BY DEF OpToRel
  <1>4. \A y \in T : ~(y < x)
    BY <1>2, <1>3
  <1>5. x \in Nat /\ \A y \in T : y \in Nat
    OBVIOUS
  <1>6. \A y \in T : x <= y
    BY <1>4, <1>5
  <1>. QED
    BY <1>6

(* The head of the first bucket in use, from bucket i on, is the first of  *)
(* the entries in these buckets.                                           *)
LEMMA FirstFromIsFirst ==
    ASSUME NEW t \in Table, NEW place \in [Item -> BucketNo], NEW entries \in SUBSET Item,
           NEW old, NEW i \in Nat,
           \A j \in BucketNo : j >= i => IsNewestOf(old, t.buckets[j], In(place, entries, j))
    PROVE  IsFirst(place, entries, old, FirstFrom(t, i), {y \in entries : place[y] >= i})
  <1> DEFINE used == {j \in BucketNo : j >= i /\ t.buckets[j] # NULL}
             least == CHOOSE j \in used : \A l \in used : j <= l
             some == {y \in entries : place[y] >= i}
  <1>1. /\ NULL \notin Item /\ BucketNo \subseteq Nat
        /\ \A y \in entries : place[y] \in BucketNo
    BY Numbers
  <1>2. \A j \in BucketNo : j >= i => (t.buckets[j] = NULL <=> In(place, entries, j) = {})
    BY <1>1 DEF IsNewestOf, In
  <1>3. ASSUME NEW y \in some PROVE place[y] \in used
    BY <1>1, <1>2 DEF In
  <1>4. CASE used = {}
    <2>1. some = {}
      BY <1>3, <1>4
    <2>2. FirstFrom(t, i) = NULL
      BY <1>4 DEF FirstFrom
    <2>. QED
      BY <2>1, <2>2 DEF IsFirst
  <1>5. CASE used # {}
    <2> DEFINE p == t.buckets[least]
    <2>1. \E j \in used : \A l \in used : j <= l
      <3>1. used \subseteq Nat
        BY <1>1
      <3> HIDE DEF used
      <3>. QED
        BY <1>5, <3>1, LeastNatural
    <2>2. least \in used /\ \A l \in used : least <= l
      BY <2>1
    <2>3. FirstFrom(t, i) = p
      BY <1>5 DEF FirstFrom
    <2> HIDE DEF least
    <2>4. /\ least \in BucketNo /\ least \in Nat /\ least >= i
          /\ In(place, entries, least) # {}
          /\ IsNewestOf(old, p, In(place, entries, least))
      BY <1>1, <1>2, <2>2
    <2> HIDE DEF p
    <2>5. p \in entries /\ place[p] = least /\ In(place, entries, least) \ {p} \subseteq old[p]
      BY <2>4 DEF IsNewestOf, In
    <2>6. \A y \in some : place[y] \in Nat /\ place[y] >= least
      BY <1>1, <1>3, <2>2
    <2> HIDE DEF used
    <2>7. ASSUME NEW y \in some PROVE y = p \/ y \in Ahead(place, entries, old, p)
      <3>1. place[y] > least \/ place[y] = least
        BY <2>4, <2>6
      <3>2. CASE place[y] = least
        BY <2>5, <3>2 DEF Ahead, In
      <3>3. CASE place[y] > least
        BY <2>5, <3>3 DEF Ahead
      <3>. QED
        BY <3>1, <3>2, <3>3
    <2>8. ASSUME NEW y \in Ahead(place, entries, old, p) PROVE y \in some
      <3>1. y \in entries /\ place[y] \in Nat /\ (place[y] > least \/ place[y] = least)
        BY <1>1, <2>5 DEF Ahead
      <3>2. place[y] >= i
        BY <2>4, <3>1
      <3>. QED
        BY <3>1, <3>2
    <2>9. p \in some
      BY <2>4, <2>5
    <2> HIDE DEF some
    <2>10. some = {p} \cup Ahead(place, entries, old, p)
      BY <2>7, <2>8, <2>9
    <2>. QED
      BY <2>3, <2>9, <2>10 DEF IsFirst, some
  <1>. QED
    BY <1>4, <1>5

(* hash_next_cursor gives the first of the entries ahead. *)
LEMMA CursorIsFirst ==
    ASSUME NEW t \in Table, NEW place \in [Item -> BucketNo], NEW entries, NEW old,
           Aged(entries, old), NEW lo \in Nat, Linked(t, place, entries, old, lo),
           NEW x \in entries, lo <= place[x] + 1
    PROVE  IsFirst(place, entries, old, hash_next_cursor(t, x),
                   Ahead(place, entries, old, x))
  <1> DEFINE p == t.b[x].next
             i == place[x] + 1
             ahead == Ahead(place, entries, old, x)
  <1>1. /\ NULL \notin Item /\ BucketNo \subseteq Nat /\ entries \subseteq Item
        /\ \A y \in entries : place[y] \in BucketNo
        /\ old \in [Item -> SUBSET entries]
    BY Numbers DEF Aged
  <1>2. place[x] \in Nat /\ i \in Nat
    <2>1. place[x] \in Nat
      BY <1>1
    <2>. QED
      BY <2>1
  <1>3. /\ t.b[x].hashval % HASHTAB_SIZE = place[x]
        /\ IsNewestOf(old, p, Older(place, entries, old, x))
        /\ \A j \in BucketNo : j >= lo => IsNewestOf(old, t.buckets[j], In(place, entries, j))
    BY DEF Linked
  <1> HIDE DEF p
  <1>4. CASE p # NULL
    <2>1. /\ p \in entries /\ place[p] = place[x] /\ p \in old[x]
          /\ Older(place, entries, old, x) \ {p} \subseteq old[p]
      BY <1>3, <1>4 DEF IsNewestOf, Older, In
    <2>2. old[p] \subseteq old[x]
      BY <2>1 DEF Aged
    <2>3. ASSUME NEW y \in ahead PROVE y = p \/ y \in Ahead(place, entries, old, p)
      BY <2>1 DEF Ahead, Older, In
    <2>4. Ahead(place, entries, old, p) \subseteq ahead
      BY <2>1, <2>2 DEF Ahead
    <2>5. p \in ahead
      BY <2>1 DEF Ahead
    <2> HIDE DEF ahead
    <2>6. ahead = {p} \cup Ahead(place, entries, old, p)
      BY <2>3, <2>4, <2>5
    <2>7. hash_next_cursor(t, x) = p
      BY <1>4 DEF hash_next_cursor, p
    <2>. QED
      BY <2>5, <2>6, <2>7 DEF IsFirst, ahead
  <1>5. CASE p = NULL
    <2>1. Older(place, entries, old, x) = {}
      BY <1>1, <1>3, <1>5 DEF IsNewestOf, Older, In
    <2>2. \A j \in BucketNo : j >= i => j >= lo
      BY <1>1, <1>2
    <2>3. \A j \in BucketNo : j >= i => IsNewestOf(old, t.buckets[j], In(place, entries, j))
      BY <1>3, <2>2
    <2> HIDE DEF i
    <2>4. IsFirst(place, entries, old, FirstFrom(t, i), {y \in entries : place[y] >= i})
      BY <1>1, <1>2, <2>3, FirstFromIsFirst
    <2>5. ahead = {y \in entries : place[y] >= i}
      <3>1. ASSUME NEW y \in entries PROVE place[y] >= i <=> place[y] > place[x]
        <4>1. place[y] \in Nat
          BY <1>1
        <4>. QED
          BY <1>2, <4>1 DEF i
      <3>2. \A y \in entries : ~(place[y] = place[x] /\ y \in old[x])
        BY <2>1 DEF Older, In
      <3>. QED
        BY <3>1, <3>2 DEF Ahead
    <2>6. hash_next_cursor(t, x) = FirstFrom(t, i)
      BY <1>3, <1>5 DEF hash_next_cursor, p, i
    <2>. QED
      BY <2>4, <2>5, <2>6
  <1>. QED
    BY <1>4, <1>5

(* A new entry is newer than all others. *)
LEMMA AddedAged ==
    ASSUME NEW entries, NEW old, Aged(entries, old), NEW x \in Item \ entries
    PROVE  /\ Aged(entries \cup {x}, [old EXCEPT ![x] = entries])
           /\ [old EXCEPT ![x] = entries][x] = entries
           /\ \A y \in entries : [old EXCEPT ![x] = entries][y] = old[y]
           /\ \A y \in entries : x \notin old[y] /\ y # x
  <1> DEFINE new == [old EXCEPT ![x] = entries]
             more == entries \cup {x}
  <1>1. /\ entries \subseteq Item /\ old \in [Item -> SUBSET entries]
        /\ \A y \in entries : y \notin old[y] /\ \A z \in old[y] : old[z] \subseteq old[y]
        /\ \A y, z \in entries : y = z \/ y \in old[z] \/ z \in old[y]
    BY DEF Aged
  <1>2. /\ new[x] = entries /\ \A y \in entries : new[y] = old[y]
        /\ \A y \in entries : x \notin old[y] /\ y # x
    BY <1>1
  <1>3. new \in [Item -> SUBSET more] /\ more \subseteq Item
    BY <1>1
  <1> HIDE DEF new
  <1>4. ASSUME NEW y \in more PROVE y \notin new[y] /\ \A z \in new[y] : new[z] \subseteq new[y]
    <2>1. CASE y = x
      BY <1>1, <1>2, <2>1
    <2>2. CASE y # x
      BY <1>1, <1>2, <2>2
    <2>. QED
      BY <2>1, <2>2
  <1>5. \A y, z \in more : y = z \/ y \in new[z] \/ z \in new[y]
    BY <1>1, <1>2
  <1>6. \A y \in Item \ more : new[y] = {}
    BY DEF Aged, new
  <1>7. Aged(more, new)
    BY <1>3, <1>4, <1>5, <1>6 DEF Aged
  <1>. QED
    BY <1>2, <1>7 DEF new

(* What hash_insert does to the fields. *)
LEMMA InsertFields ==
    ASSUME NEW t \in Table, NEW x \in Item, NEW k \in Key,
           t.num_entries + 1 \in 0..Cardinality(Item),
           t.buckets[k % HASHTAB_SIZE] # x
    PROVE  LET new == hash_insert(t, x, k)
               head == t.buckets[k % HASHTAB_SIZE]
           IN  /\ new \in Table /\ new.num_entries = t.num_entries + 1
               /\ new.buckets[k % HASHTAB_SIZE] = x
               /\ \A i \in BucketNo : i # k % HASHTAB_SIZE => new.buckets[i] = t.buckets[i]
               /\ new.b[x] = [next |-> head, prev |-> NULL, hashval |-> k]
               /\ \A y \in Item \ {x} :
                   /\ new.b[y].next = t.b[y].next /\ new.b[y].hashval = t.b[y].hashval
                   /\ new.b[y].prev = IF y = head THEN x ELSE t.b[y].prev
  <1> DEFINE val == k % HASHTAB_SIZE
             head == t.buckets[val]
             linked == [t.b EXCEPT ![x] = [next |-> head, prev |-> NULL, hashval |-> k]]
             Links == [Item -> [next : Pointer, prev : Pointer, hashval : Key \cup {0}]]
             new == hash_insert(t, x, k)
             buckets == [t.buckets EXCEPT ![val] = x]
             b == IF head = NULL THEN linked ELSE [linked EXCEPT ![head].prev = x]
  <1>1. val \in BucketNo /\ NULL \notin Item
    BY Numbers
  <1>2. new = [buckets |-> buckets, b |-> b, num_entries |-> t.num_entries + 1]
    BY DEF hash_insert
  <1>3. t.buckets \in [BucketNo -> Pointer] /\ t.b \in Links
    BY DEF Table
  <1> HIDE DEF val, new
  <1>4. /\ buckets \in [BucketNo -> Pointer] /\ buckets[val] = x
        /\ \A i \in BucketNo : i # val => buckets[i] = t.buckets[i]
    BY <1>1, <1>3 DEF Pointer
  <1>5. head \in Pointer /\ head # x
    BY <1>1, <1>3 DEF val
  <1> HIDE DEF head
  <1>6. /\ linked \in Links /\ linked[x] = [next |-> head, prev |-> NULL, hashval |-> k]
        /\ \A y \in Item \ {x} : linked[y] = t.b[y]
    BY <1>3, <1>5 DEF Pointer
  <1> HIDE DEF linked
  <1>7. CASE head = NULL
    <2>1. b = linked /\ \A y \in Item : y # head
      BY <1>1, <1>7
    <2>2. b \in Links /\ b[x] = [next |-> head, prev |-> NULL, hashval |-> k]
      BY <1>6, <2>1
    <2>3. \A y \in Item \ {x} : /\ b[y].next = t.b[y].next /\ b[y].hashval = t.b[y].hashval
                                /\ b[y].prev = IF y = head THEN x ELSE t.b[y].prev
      BY <1>6, <2>1
    <2> HIDE DEF b, buckets
    <2>4. new \in Table
      BY <1>2, <1>4, <2>2 DEF Table
    <2>. QED
      BY <1>2, <1>4, <2>2, <2>3, <2>4 DEF new, val, head
  <1>8. CASE head # NULL
    <2>1. head \in Item /\ b = [linked EXCEPT ![head].prev = x]
      BY <1>5, <1>8 DEF Pointer
    <2>2. b \in Links
      BY <1>6, <2>1 DEF Pointer
    <2>3. \A y \in Item : y # head => b[y] = linked[y]
      BY <1>6, <2>1
    <2>4. /\ b[head].next = t.b[head].next /\ b[head].hashval = t.b[head].hashval
          /\ b[head].prev = x
      BY <1>5, <1>6, <2>1
    <2>5. b[x] = [next |-> head, prev |-> NULL, hashval |-> k]
      BY <1>5, <1>6, <2>3
    <2>6. \A y \in Item \ {x} : /\ b[y].next = t.b[y].next /\ b[y].hashval = t.b[y].hashval
                                /\ b[y].prev = IF y = head THEN x ELSE t.b[y].prev
      BY <1>6, <2>3, <2>4
    <2> HIDE DEF b, buckets
    <2>7. new \in Table
      BY <1>2, <1>4, <2>2 DEF Table
    <2>. QED
      BY <1>2, <1>4, <2>5, <2>6, <2>7 DEF new, val, head
  <1>. QED
    BY <1>7, <1>8

(* hash_insert puts a new entry at the head of its bucket's chain.         *)
LEMMA InsertKeeps ==
    ASSUME NEW t \in Table, NEW place \in [Item -> BucketNo], NEW entries, NEW old,
           Aged(entries, old), Linked(t, place, entries, old, 0),
           Counted(t, place, entries, old), NEW x \in Item \ entries, NEW k \in Key
    PROVE  LET new == hash_insert(t, x, k)
               at == [place EXCEPT ![x] = k % HASHTAB_SIZE]
               more == entries \cup {x}
               age == [old EXCEPT ![x] = entries]
           IN  new \in Table /\ Linked(new, at, more, age, 0) /\ Counted(new, at, more, age)
  <1> DEFINE new == hash_insert(t, x, k)
             v == k % HASHTAB_SIZE
             at == [place EXCEPT ![x] = v]
             more == entries \cup {x}
             age == [old EXCEPT ![x] = entries]
             head == t.buckets[v]
  <1>1. /\ v \in BucketNo /\ NULL \notin Item
        /\ BucketNo \subseteq Nat /\ entries \subseteq Item /\ x \in Item /\ x \notin entries
    BY Numbers DEF Aged
  <1>2. /\ age[x] = entries /\ \A y \in entries : age[y] = old[y]
        /\ \A y \in entries : x \notin old[y] /\ y # x
        /\ \A y \in entries : old[y] \subseteq entries /\ y \notin old[y]
    BY AddedAged DEF Aged
  <1>3. at[x] = v /\ \A y \in entries : at[y] = place[y]
    BY <1>1
  <1>4. /\ \A y \in entries :
            /\ t.b[y].hashval % HASHTAB_SIZE = place[y]
            /\ IsNewestOf(old, t.b[y].next, Older(place, entries, old, y))
            /\ IsOldestOf(old, t.b[y].prev, Newer(place, entries, old, y))
        /\ \A i \in BucketNo : IsNewestOf(old, t.buckets[i], In(place, entries, i))
        /\ t.num_entries = Cardinality(entries)
    BY <1>1 DEF Linked, Counted
  <1>5. IsNewestOf(old, head, In(place, entries, v))
    BY <1>1, <1>4
  <1>6. head # x /\ (head \in entries \/ head = NULL)
    BY <1>1, <1>5 DEF IsNewestOf, In
  <1>7. Cardinality(more) = t.num_entries + 1 /\ t.num_entries + 1 \in 0..Cardinality(Item)
    <2>1. IsFiniteSet(Item) /\ more \subseteq Item
      BY <1>1, Numbers
    <2>2. IsFiniteSet(entries) /\ IsFiniteSet(more) /\ Cardinality(more) <= Cardinality(Item)
      BY <2>1, FS_Subset
    <2>3. Cardinality(more) = Cardinality(entries) + 1
      BY <1>1, <2>2, FS_AddElement
    <2>4. Cardinality(more) \in Nat /\ Cardinality(Item) \in Nat
      BY <2>1, <2>2, FS_CardinalityType
    <2>. QED
      BY <1>4, <2>2, <2>3, <2>4
  <1>8. /\ new \in Table /\ new.num_entries = t.num_entries + 1
        /\ new.buckets[v] = x /\ \A i \in BucketNo : i # v => new.buckets[i] = t.buckets[i]
        /\ new.b[x] = [next |-> head, prev |-> NULL, hashval |-> k]
        /\ \A y \in Item \ {x} :
            /\ new.b[y].next = t.b[y].next /\ new.b[y].hashval = t.b[y].hashval
            /\ new.b[y].prev = IF y = head THEN x ELSE t.b[y].prev
    BY <1>6, <1>7, InsertFields
  <1> HIDE DEF new, at, age, head, v
  <1>9. ASSUME NEW some, some \subseteq entries, NEW p
        PROVE  /\ IsNewestOf(age, p, some) <=> IsNewestOf(old, p, some)
               /\ IsOldestOf(age, p, some) <=> IsOldestOf(old, p, some)
    BY <1>2, <1>9 DEF IsNewestOf, IsOldestOf
  <1>10. /\ In(at, more, v) = In(place, entries, v) \cup {x}
         /\ \A i \in BucketNo : i # v => In(at, more, i) = In(place, entries, i)
    BY <1>3 DEF In
  <1>11. ASSUME NEW i \in BucketNo PROVE IsNewestOf(age, new.buckets[i], In(at, more, i))
    <2>1. CASE i = v
      <3>1. new.buckets[i] = x /\ In(at, more, i) \ {x} \subseteq age[x]
        BY <1>2, <1>8, <1>10, <2>1 DEF In
      <3>2. x \in In(at, more, i)
        BY <1>10, <2>1
      <3>. QED
        BY <3>1, <3>2 DEF IsNewestOf
    <2>2. CASE i # v
      <3>1. In(at, more, i) = In(place, entries, i) /\ In(place, entries, i) \subseteq entries
        BY <1>10, <2>2 DEF In
      <3>2. new.buckets[i] = t.buckets[i]
        BY <1>8, <2>2
      <3>. QED
        BY <1>4, <1>9, <3>1, <3>2
    <2>. QED
      BY <2>1, <2>2
  <1>12. ASSUME NEW y \in entries
         PROVE  /\ new.b[y].hashval % HASHTAB_SIZE = at[y]
                /\ IsNewestOf(age, new.b[y].next, Older(at, more, age, y))
    <2>1. new.b[y].next = t.b[y].next /\ new.b[y].hashval = t.b[y].hashval
      BY <1>1, <1>8
    <2>2. Older(at, more, age, y) = Older(place, entries, old, y)
      BY <1>2, <1>3 DEF Older, In
    <2>3. Older(place, entries, old, y) \subseteq entries
      BY DEF Older, In
    <2>. QED
      BY <1>3, <1>4, <1>9, <2>1, <2>2, <2>3
  <1>13. new.b[x].hashval % HASHTAB_SIZE = at[x]
    BY <1>3, <1>8 DEF v
  <1>14. IsNewestOf(age, new.b[x].next, Older(at, more, age, x))
    <2>1. new.b[x].next = head
      BY <1>8
    <2>2. Older(at, more, age, x) = In(place, entries, v)
      BY <1>1, <1>2, <1>3, <1>10 DEF Older, In
    <2>3. In(place, entries, v) \subseteq entries
      BY DEF In
    <2>. QED
      BY <1>5, <1>9, <2>1, <2>2, <2>3
  <1>15. ASSUME NEW y \in entries
         PROVE  IsOldestOf(age, new.b[y].prev, Newer(at, more, age, y))
    <2>1. new.b[y].prev = IF y = head THEN x ELSE t.b[y].prev
      BY <1>1, <1>8
    <2>2. Newer(place, entries, old, y) \subseteq entries
      BY DEF Newer, In
    <2>3. IsOldestOf(age, t.b[y].prev, Newer(place, entries, old, y))
      BY <1>4, <1>9, <2>2
    <2>4. CASE place[y] # v
      <3>1. Newer(at, more, age, y) = Newer(place, entries, old, y)
        BY <1>2, <1>3, <2>4 DEF Newer, In
      <3>2. y # head
        BY <1>1, <1>5, <2>4 DEF IsNewestOf, In
      <3>. QED
        BY <2>1, <2>3, <3>1, <3>2
    <2>5. CASE place[y] = v
      <3>1. Newer(at, more, age, y) = Newer(place, entries, old, y) \cup {x}
        BY <1>2, <1>3, <2>5 DEF Newer, In
      <3>2. y \in In(place, entries, v) /\ In(place, entries, v) \ {head} \subseteq old[head]
        BY <1>5, <2>5 DEF IsNewestOf, In
      <3>3. CASE y = head
        <4>1. Newer(place, entries, old, y) = {}
          <5>1. ASSUME NEW z \in Newer(place, entries, old, y) PROVE FALSE
            <6>1. z \in In(place, entries, v) /\ y \in old[z] /\ z \in entries
              BY <2>5 DEF Newer, In
            <6>2. z # y
              BY <1>2, <6>1
            <6>3. z \in old[y]
              BY <3>2, <3>3, <6>1, <6>2
            <6>4. old[z] \subseteq old[y]
              BY <6>3 DEF Aged
            <6>. QED
              BY <1>2, <6>1, <6>4
          <5>. QED
            BY <5>1
        <4>. QED
          BY <2>1, <3>1, <3>3, <4>1 DEF IsOldestOf
      <3>4. CASE y # head
        <4>1. head \in Newer(place, entries, old, y)
          BY <1>5, <2>5, <3>2, <3>4 DEF IsNewestOf, Newer, In
        <4>2. /\ t.b[y].prev \in Newer(place, entries, old, y)
              /\ \A z \in Newer(place, entries, old, y) \ {t.b[y].prev} : t.b[y].prev \in age[z]
          BY <2>3, <4>1 DEF IsOldestOf
        <4>3. t.b[y].prev \in age[x]
          BY <1>2, <2>2, <4>2
        <4>. QED
          BY <2>1, <3>1, <3>4, <4>2, <4>3 DEF IsOldestOf
      <3>. QED
        BY <3>3, <3>4
    <2>. QED
      BY <2>4, <2>5
  <1>16. IsOldestOf(age, new.b[x].prev, Newer(at, more, age, x))
    <2>1. new.b[x].prev = NULL
      BY <1>8
    <2>2. Newer(at, more, age, x) = {}
      BY <1>1, <1>2 DEF Newer, In
    <2>. QED
      BY <2>1, <2>2 DEF IsOldestOf
  <1>17. Linked(new, at, more, age, 0)
    BY <1>11, <1>12, <1>13, <1>14 DEF Linked
  <1>18. Counted(new, at, more, age)
    BY <1>7, <1>8, <1>15, <1>16 DEF Counted
  <1>. QED
    BY <1>8, <1>17, <1>18 DEF new, at, age, v

(* What hash_remove does to the fields. *)
LEMMA RemoveFields ==
    ASSUME NEW t \in Table, NEW x \in Item, t.num_entries - 1 \in 0..Cardinality(Item),
           t.b[x].hashval % HASHTAB_SIZE \in BucketNo
    PROVE  LET new == hash_remove(t, x)
               next == t.b[x].next
               prev == t.b[x].prev
           IN  /\ new \in Table /\ new.num_entries = t.num_entries - 1
               /\ \A i \in BucketNo :
                   new.buckets[i] = IF prev = NULL /\ i = t.b[x].hashval % HASHTAB_SIZE
                                    THEN next ELSE t.buckets[i]
               /\ \A y \in Item :
                   /\ new.b[y].hashval = t.b[y].hashval
                   /\ new.b[y].next = IF y = prev THEN next ELSE t.b[y].next
                   /\ new.b[y].prev = IF y = next THEN prev ELSE t.b[y].prev
  <1> DEFINE e == t.b[x]
             relinked(y) == [t.b[y] EXCEPT !.next = IF y = e.prev THEN e.next ELSE @,
                                           !.prev = IF y = e.next THEN e.prev ELSE @]
             Link == [next : Pointer, prev : Pointer, hashval : Key \cup {0}]
             val == e.hashval % HASHTAB_SIZE
             new == hash_remove(t, x)
             buckets == IF e.prev = NULL THEN [t.buckets EXCEPT ![val] = e.next]
                        ELSE t.buckets
             b == [y \in Item |-> relinked(y)]
  <1>1. t.buckets \in [BucketNo -> Pointer] /\ t.b \in [Item -> Link] /\ e \in Link
    BY DEF Table
  <1>2. new = [buckets |-> buckets, b |-> b, num_entries |-> t.num_entries - 1]
    BY DEF hash_remove
  <1> HIDE DEF e, new
  <1>3. ASSUME NEW y \in Item
        PROVE  /\ relinked(y) \in Link /\ relinked(y).hashval = t.b[y].hashval
               /\ relinked(y).next = IF y = e.prev THEN e.next ELSE t.b[y].next
               /\ relinked(y).prev = IF y = e.next THEN e.prev ELSE t.b[y].prev
    <2>1. t.b[y] \in Link
      BY <1>1
    <2>. QED
      BY <1>1, <2>1
  <1> HIDE DEF relinked
  <1>4. b \in [Item -> Link] /\ \A y \in Item : b[y] = relinked(y)
    BY <1>3
  <1>5. val \in BucketNo
    BY DEF e
  <1>6. /\ buckets \in [BucketNo -> Pointer]
        /\ \A i \in BucketNo : buckets[i] = IF e.prev = NULL /\ i = val
                                            THEN e.next ELSE t.buckets[i]
    <2>1. e.next \in Pointer
      BY <1>1
    <2> HIDE DEF val
    <2>. QED
      BY <1>1, <1>5, <2>1
  <1> HIDE DEF b, buckets
  <1>7. new \in Table
    BY <1>2, <1>4, <1>6 DEF Table
  <1>8. \A i \in BucketNo : new.buckets[i] = IF e.prev = NULL /\ i = val
                                             THEN e.next ELSE t.buckets[i]
    BY <1>2, <1>6
  <1>9. \A y \in Item :
            /\ new.b[y].hashval = t.b[y].hashval
            /\ new.b[y].next = IF y = e.prev THEN e.next ELSE t.b[y].next
            /\ new.b[y].prev = IF y = e.next THEN e.prev ELSE t.b[y].prev
    BY <1>2, <1>3, <1>4
  <1>10. new.num_entries = t.num_entries - 1
    BY <1>2
  <1>. QED
    BY <1>7, <1>8, <1>9, <1>10 DEF new, e

(* hash_remove unlinks an entry: its neighbours in the chain are its next  *)
(* and prev.                                                               *)
LEMMA RemoveKeeps ==
    ASSUME NEW t \in Table, NEW place \in [Item -> BucketNo], NEW entries, NEW old,
           Aged(entries, old), Linked(t, place, entries, old, 0),
           Counted(t, place, entries, old), NEW x \in entries
    PROVE  LET new == hash_remove(t, x)
               rest == entries \ {x}
               age == Kept(old, rest)
           IN  /\ new \in Table
               /\ Linked(new, place, rest, age, 0) /\ Counted(new, place, rest, age)
  <1> DEFINE new == hash_remove(t, x)
             rest == entries \ {x}
             age == Kept(old, rest)
             v == place[x]
             next == t.b[x].next
             prev == t.b[x].prev
  <1>1. /\ NULL \notin Item /\ BucketNo \subseteq Nat /\ entries \subseteq Item
        /\ old \in [Item -> SUBSET entries]
        /\ \A y \in entries : y \notin old[y] /\ \A z \in old[y] : old[z] \subseteq old[y]
        /\ \A y, z \in entries : y = z \/ y \in old[z] \/ z \in old[y]
        /\ v \in BucketNo /\ \A i \in BucketNo : i >= 0
    BY Numbers DEF Aged
  <1>2. /\ \A y \in entries :
            /\ t.b[y].hashval % HASHTAB_SIZE = place[y]
            /\ IsNewestOf(old, t.b[y].next, Older(place, entries, old, y))
            /\ IsOldestOf(old, t.b[y].prev, Newer(place, entries, old, y))
        /\ \A i \in BucketNo : IsNewestOf(old, t.buckets[i], In(place, entries, i))
        /\ t.num_entries = Cardinality(entries)
    BY <1>1 DEF Linked, Counted
  <1>3. Cardinality(rest) = t.num_entries - 1 /\ t.num_entries - 1 \in 0..Cardinality(Item)
    <2>1. IsFiniteSet(Item)
      BY Numbers
    <2>2. IsFiniteSet(entries) /\ IsFiniteSet(rest) /\ Cardinality(rest) <= Cardinality(Item)
      <3>1. entries \subseteq Item /\ rest \subseteq Item
        BY <1>1
      <3>. QED
        BY <2>1, <3>1, FS_Subset
    <2>3. Cardinality(rest) = Cardinality(entries) - 1
      BY <2>2, FS_RemoveElement
    <2>4. Cardinality(rest) \in Nat /\ Cardinality(Item) \in Nat
      BY <2>1, <2>2, FS_CardinalityType
    <2>. QED
      BY <1>2, <2>2, <2>3, <2>4
  <1>4. /\ new \in Table /\ new.num_entries = t.num_entries - 1
        /\ \A i \in BucketNo : new.buckets[i] = IF prev = NULL /\ i = v
                                                THEN next ELSE t.buckets[i]
        /\ \A y \in Item :
            /\ new.b[y].hashval = t.b[y].hashval
            /\ new.b[y].next = IF y = prev THEN next ELSE t.b[y].next
            /\ new.b[y].prev = IF y = next THEN prev ELSE t.b[y].prev
    <2>1. x \in Item /\ t.b[x].hashval % HASHTAB_SIZE = v
      BY <1>1, <1>2
    <2>. QED
      BY <1>1, <1>3, <2>1, RemoveFields
  <1>5. \A y \in rest : age[y] = old[y] \cap rest
    BY KeptAged
  <1>6. \A y, z \in entries : ~(y \in old[z] /\ z \in old[y])
    BY <1>1
  <1>7. /\ IsNewestOf(old, next, Older(place, entries, old, x))
        /\ IsOldestOf(old, prev, Newer(place, entries, old, x))
    BY <1>2
  <1> HIDE DEF new, age, v, next, prev
  <1>8. ASSUME NEW some \in SUBSET entries, NEW p, p # x
        PROVE  /\ IsNewestOf(old, p, some) => IsNewestOf(age, p, some \ {x})
               /\ IsOldestOf(old, p, some) => IsOldestOf(age, p, some \ {x})
    BY <1>8, StillNewest DEF age
  <1>9. /\ next = NULL \/ (next \in rest /\ place[next] = v /\ next \in old[x])
        /\ prev = NULL \/ (prev \in rest /\ place[prev] = v /\ x \in old[prev])
    BY <1>1, <1>7 DEF IsNewestOf, IsOldestOf, Older, Newer, In, v
  <1>10. ASSUME NEW y \in rest
         PROVE  /\ Older(place, rest, age, y) = Older(place, entries, old, y) \ {x}
                /\ Newer(place, rest, age, y) = Newer(place, entries, old, y) \ {x}
                /\ Older(place, entries, old, y) \in SUBSET entries
                /\ Newer(place, entries, old, y) \in SUBSET entries
    BY <1>5 DEF Older, Newer, In
  <1>11. ASSUME NEW i \in BucketNo PROVE IsNewestOf(age, new.buckets[i], In(place, rest, i))
    <2>1. /\ In(place, rest, i) = In(place, entries, i) \ {x}
          /\ In(place, entries, i) \in SUBSET entries
      BY DEF In
    <2>2. CASE prev = NULL /\ i = v
      <3>1. Newer(place, entries, old, x) = {}
        BY <1>1, <1>7, <2>2 DEF IsOldestOf, Newer, In
      <3>2. In(place, rest, i) = Older(place, entries, old, x) \ {x}
        BY <1>1, <2>2, <3>1 DEF Older, Newer, In, v
      <3>3. Older(place, entries, old, x) \in SUBSET entries /\ next # x
        BY <1>1, <1>9 DEF Older, In
      <3>. QED
        BY <1>4, <1>7, <1>8, <2>2, <3>2, <3>3
    <2>3. CASE ~(prev = NULL /\ i = v)
      <3>1. new.buckets[i] = t.buckets[i]
        BY <1>4, <2>3
      <3>2. IsNewestOf(old, t.buckets[i], In(place, entries, i))
        BY <1>2
      <3>3. t.buckets[i] # x
        <4> SUFFICES ASSUME t.buckets[i] = x PROVE FALSE
          OBVIOUS
        <4>1. i = v /\ In(place, entries, i) \ {x} \subseteq old[x]
          BY <1>1, <3>2 DEF IsNewestOf, In, v
        <4>2. prev \in In(place, entries, i) /\ prev # x /\ x \in old[prev]
          BY <1>9, <2>3, <4>1 DEF In
        <4>. QED
          BY <1>6, <4>1, <4>2 DEF In
      <3>. QED
        BY <1>8, <2>1, <3>1, <3>2, <3>3
    <2>. QED
      BY <2>2, <2>3
  <1>12. ASSUME NEW y \in rest
         PROVE  /\ new.b[y].hashval % HASHTAB_SIZE = place[y]
                /\ IsNewestOf(age, new.b[y].next, Older(place, rest, age, y))
    <2>1. y \in Item /\ y \in entries /\ y # x
      BY <1>1
    <2>2. new.b[y].hashval % HASHTAB_SIZE = place[y]
      BY <1>2, <1>4, <2>1
    <2>3. IsNewestOf(old, t.b[y].next, Older(place, entries, old, y))
      BY <1>2, <2>1
    <2>4. CASE y = prev
      <3>1. new.b[y].next = next
        BY <1>4, <2>1, <2>4
      <3>2. y \in Newer(place, entries, old, x) /\ x \in old[y] /\ place[y] = v
        BY <1>9, <2>1, <2>4, <1>1 DEF Newer, In, v
      <3>3. \A z \in Newer(place, entries, old, x) \ {y} : y \in old[z]
        BY <1>7, <2>4, <3>2 DEF IsOldestOf
      <3>4. Older(place, entries, old, y) \ {x} = Older(place, entries, old, x) \ {x}
        <4>1. ASSUME NEW z \in Older(place, entries, old, y) \ {x}
              PROVE  z \in Older(place, entries, old, x)
          <5>1. z \in entries /\ place[z] = v /\ z \in old[y]
            BY <3>2 DEF Older, In
          <5>2. z \notin Newer(place, entries, old, x)
            BY <1>1, <1>6, <2>1, <3>3, <5>1
          <5>3. x \notin old[z]
            BY <5>1, <5>2 DEF Newer, In, v
          <5>. QED
            BY <1>1, <5>1, <5>3 DEF Older, In, v
        <4>2. Older(place, entries, old, x) \subseteq Older(place, entries, old, y)
          BY <1>1, <2>1, <3>2 DEF Older, In, v
        <4>. QED
          BY <4>1, <4>2
      <3>5. Older(place, entries, old, x) \in SUBSET entries /\ next # x
        BY <1>1, <1>9 DEF Older, In
      <3>6. IsNewestOf(age, next, Older(place, entries, old, x) \ {x})
        BY <1>7, <1>8, <3>5
      <3>7. Older(place, rest, age, y) = Older(place, entries, old, x) \ {x}
        BY <1>10, <3>4
      <3>. QED
        BY <2>2, <3>1, <3>6, <3>7
    <2>5. CASE y # prev
      <3>1. new.b[y].next = t.b[y].next
        BY <1>4, <2>1, <2>5
      <3>2. t.b[y].next # x
        <4> SUFFICES ASSUME t.b[y].next = x PROVE FALSE
          OBVIOUS
        <4>1. x \in Older(place, entries, old, y)
              /\ Older(place, entries, old, y) \ {x} \subseteq old[x]
          BY <1>1, <2>3 DEF IsNewestOf
        <4>2. y \in Newer(place, entries, old, x)
          BY <2>1, <4>1 DEF Older, Newer, In
        <4>3. prev \in old[y] /\ prev \in Newer(place, entries, old, x)
          BY <1>7, <2>5, <4>2 DEF IsOldestOf
        <4>4. prev \in Older(place, entries, old, y) /\ prev # x
          BY <1>1, <4>1, <4>3 DEF Older, Newer, In
        <4>. QED
          BY <1>6, <4>1, <4>3, <4>4 DEF Newer, In
      <3>3. IsNewestOf(age, t.b[y].next, Older(place, entries, old, y) \ {x})
        BY <1>8, <1>10, <2>3, <3>2
      <3>. QED
        BY <1>10, <2>2, <3>1, <3>3
    <2>. QED
      BY <2>4, <2>5
  <1>13. ASSUME NEW y \in rest
         PROVE  IsOldestOf(age, new.b[y].prev, Newer(place, rest, age, y))
    <2>1. y \in Item /\ y \in entries /\ y # x
      BY <1>1
    <2>2. IsOldestOf(old, t.b[y].prev, Newer(place, entries, old, y))
      BY <1>2, <2>1
    <2>3. CASE y = next
      <3>1. new.b[y].prev = prev
        BY <1>4, <2>1, <2>3
      <3>2. y \in Older(place, entries, old, x) /\ y \in old[x] /\ place[y] = v
        BY <1>9, <2>1, <2>3, <1>1 DEF Older, In, v
      <3>3. Older(place, entries, old, x) \ {y} \subseteq old[y]
        BY <1>7, <2>3, <3>2 DEF IsNewestOf
      <3>4. Newer(place, entries, old, y) \ {x} = Newer(place, entries, old, x) \ {x}
        <4>1. ASSUME NEW z \in Newer(place, entries, old, y) \ {x}
              PROVE  z \in Newer(place, entries, old, x)
          <5>1. z \in entries /\ place[z] = v /\ y \in old[z]
            BY <3>2 DEF Newer, In
          <5>2. z \notin Older(place, entries, old, x)
            BY <1>1, <1>6, <2>1, <3>3, <5>1
          <5>3. z \notin old[x]
            BY <5>1, <5>2 DEF Older, In, v
          <5>. QED
            BY <1>1, <5>1, <5>3 DEF Newer, In, v
        <4>2. Newer(place, entries, old, x) \subseteq Newer(place, entries, old, y)
          BY <1>1, <2>1, <3>2 DEF Newer, In, v
        <4>. QED
          BY <4>1, <4>2
      <3>5. Newer(place, entries, old, x) \in SUBSET entries /\ prev # x
        BY <1>1, <1>9 DEF Newer, In
      <3>6. IsOldestOf(age, prev, Newer(place, entries, old, x) \ {x})
        BY <1>7, <1>8, <3>5
      <3>7. Newer(place, rest, age, y) = Newer(place, entries, old, x) \ {x}
        BY <1>10, <3>4
      <3>. QED
        BY <3>1, <3>6, <3>7
    <2>4. CASE y # next
      <3>1. new.b[y].prev = t.b[y].prev
        BY <1>4, <2>1, <2>4
      <3>2. t.b[y].prev # x
        <4> SUFFICES ASSUME t.b[y].prev = x PROVE FALSE
          OBVIOUS
        <4>1. /\ x \in Newer(place, entries, old, y)
              /\ \A z \in Newer(place, entries, old, y) \ {x} : x \in old[z]
          BY <1>1, <2>2 DEF IsOldestOf
        <4>2. y \in Older(place, entries, old, x)
          BY <2>1, <4>1 DEF Older, Newer, In
        <4>3. y \in old[next] /\ next \in Older(place, entries, old, x)
          BY <1>7, <2>4, <4>2 DEF IsNewestOf
        <4>4. next \in Newer(place, entries, old, y) /\ next # x
          BY <1>1, <4>1, <4>3 DEF Older, Newer, In
        <4>. QED
          BY <1>6, <4>1, <4>3, <4>4 DEF Older, In
      <3>3. IsOldestOf(age, t.b[y].prev, Newer(place, entries, old, y) \ {x})
        BY <1>8, <1>10, <2>2, <3>2
      <3>. QED
        BY <1>10, <3>1, <3>3
    <2>. QED
      BY <2>3, <2>4
  <1>14. Linked(new, place, rest, age, 0)
    BY <1>11, <1>12 DEF Linked
  <1>15. Counted(new, place, rest, age)
    BY <1>3, <1>4, <1>13 DEF Counted
  <1>. QED
    BY <1>4, <1>14, <1>15 DEF new, age

(* If all stay, nothing is forgotten. *)
LEMMA KeptAll ==
    ASSUME NEW entries, NEW old, Aged(entries, old)
    PROVE  Kept(old, entries) = old
  <1>1. /\ old \in [Item -> SUBSET entries] /\ entries \subseteq Item
        /\ \A x \in Item \ entries : old[x] = {}
    BY DEF Aged
  <1>2. \A x \in Item : (IF x \in entries THEN old[x] \cap entries ELSE {}) = old[x]
    BY <1>1
  <1>. QED
    BY <1>1, <1>2 DEF Kept

(* The first of the entries ahead has the others ahead of it, and keeps    *)
(* them when the entry behind it is gone.                                  *)
LEMMA AheadOfFirst ==
    ASSUME NEW place \in [Item -> BucketNo], NEW entries, NEW old, Aged(entries, old),
           NEW x \in entries, NEW p \in Item,
           IsFirst(place, entries, old, p, Ahead(place, entries, old, x))
    PROVE  /\ p \in entries \ {x} /\ place[p] >= place[x]
           /\ p \in Ahead(place, entries, old, x)
           /\ Ahead(place, entries, old, x) \ {p} = Ahead(place, entries, old, p)
           /\ LET rest == entries \ {x}
              IN  Ahead(place, entries, old, p) = Ahead(place, rest, Kept(old, rest), p)
  <1> DEFINE rest == entries \ {x}
             age == Kept(old, rest)
  <1>1. /\ NULL \notin Item /\ BucketNo \subseteq Nat /\ entries \subseteq Item
        /\ \A y \in entries : place[y] \in BucketNo
        /\ \A y \in entries : y \notin old[y] /\ \A z \in old[y] : old[z] \subseteq old[y]
        /\ old \in [Item -> SUBSET entries]
    BY Numbers DEF Aged
  <1>2. /\ p \in Ahead(place, entries, old, x)
        /\ Ahead(place, entries, old, x) = {p} \cup Ahead(place, entries, old, p)
    BY <1>1 DEF IsFirst
  <1>3. \A y \in rest : age[y] = old[y] \cap rest
    BY KeptAged
  <1> HIDE DEF age
  <1>4. p \in entries /\ (place[p] > place[x] \/ (place[p] = place[x] /\ p \in old[x]))
    BY <1>2 DEF Ahead
  <1>5. place[p] \in Nat /\ place[x] \in Nat
    BY <1>1, <1>4
  <1>6. ~(place[x] > place[x]) /\ ~(place[p] > place[p]) /\ place[p] >= place[x]
        /\ ~(place[x] > place[p])
    BY <1>4, <1>5
  <1>7. p # x
    BY <1>1, <1>4, <1>6
  <1>8. p \notin Ahead(place, entries, old, p)
    BY <1>1, <1>4, <1>6 DEF Ahead
  <1>9. x \notin Ahead(place, entries, old, p)
    BY <1>1, <1>4, <1>5, <1>6 DEF Ahead
  <1>10. Ahead(place, entries, old, p) = Ahead(place, rest, age, p)
    <2>1. p \in rest
      BY <1>4, <1>7
    <2>. QED
      BY <1>3, <1>9, <2>1 DEF Ahead
  <1>. QED
    BY <1>2, <1>4, <1>6, <1>7, <1>8, <1>10 DEF age

(* An entry that is freed and left in the table is not reached again from  *)
(* those ahead of it, nor from the buckets ahead.                          *)
LEMMA FreedBehind ==
    ASSUME NEW t, NEW place \in [Item -> BucketNo], NEW entries, NEW old,
           Aged(entries, old), NEW x \in entries, NEW lo \in Nat, lo <= place[x] + 1,
           Linked(t, place, entries, old, lo),
           entries = Ahead(place, entries, old, x) \cup {x}
    PROVE  LET rest == entries \ {x}
           IN  \A i \in Nat : i > place[x] => Linked(t, place, rest, Kept(old, rest), i)
  <1> DEFINE rest == entries \ {x}
             age == Kept(old, rest)
  <1>1. /\ NULL \notin Item /\ BucketNo \subseteq Nat /\ entries \subseteq Item
        /\ \A y \in entries : place[y] \in BucketNo
        /\ \A y \in entries : y \notin old[y] /\ \A z \in old[y] : old[z] \subseteq old[y]
    BY Numbers DEF Aged
  <1>2. \A y \in rest : age[y] = old[y] \cap rest
    BY KeptAged
  <1>3. ASSUME NEW some \in SUBSET entries, NEW p, p # x, IsNewestOf(old, p, some)
        PROVE  IsNewestOf(age, p, some \ {x})
    BY <1>3, StillNewest
  <1> HIDE DEF age
  <1>4. ASSUME NEW p, NEW some \in SUBSET entries, x \notin some, IsNewestOf(old, p, some)
        PROVE  IsNewestOf(age, p, some)
    <2>1. p # x /\ some \ {x} = some
      BY <1>1, <1>4 DEF IsNewestOf
    <2>. QED
      BY <1>3, <1>4, <2>1
  <1>5. ASSUME NEW y \in rest
        PROVE  /\ t.b[y].hashval % HASHTAB_SIZE = place[y]
               /\ IsNewestOf(age, t.b[y].next, Older(place, rest, age, y))
    <2>1. y \in entries /\ (place[y] > place[x] \/ (place[y] = place[x] /\ y \in old[x]))
      BY DEF Ahead
    <2>2. place[y] \in Nat /\ place[x] \in Nat
      BY <1>1, <2>1
    <2>3. x \notin Older(place, entries, old, y)
      BY <1>1, <2>1, <2>2 DEF Older, In
    <2>4. Older(place, rest, age, y) = Older(place, entries, old, y)
          /\ Older(place, entries, old, y) \in SUBSET entries
      BY <1>2, <2>3 DEF Older, In
    <2>5. /\ t.b[y].hashval % HASHTAB_SIZE = place[y]
          /\ IsNewestOf(old, t.b[y].next, Older(place, entries, old, y))
      BY <2>1 DEF Linked
    <2>. QED
      BY <1>4, <2>3, <2>4, <2>5
  <1>6. ASSUME NEW i \in BucketNo, i > place[x]
        PROVE  IsNewestOf(age, t.buckets[i], In(place, rest, i))
    <2>1. i \in Nat /\ place[x] \in Nat
      BY <1>1
    <2>2. i >= lo /\ i # place[x]
      BY <1>6, <2>1
    <2>3. IsNewestOf(old, t.buckets[i], In(place, entries, i))
      BY <2>2 DEF Linked
    <2>4. /\ x \notin In(place, entries, i) /\ In(place, rest, i) = In(place, entries, i)
          /\ In(place, entries, i) \in SUBSET entries
      BY <2>2 DEF In
    <2>. QED
      BY <1>4, <2>3, <2>4
  <1>7. ASSUME NEW i \in Nat, i > place[x] PROVE Linked(t, place, rest, age, i)
    <2>1. ASSUME NEW j \in BucketNo, j >= i PROVE j > place[x]
      <3>1. j \in Nat /\ place[x] \in Nat
        BY <1>1
      <3>. QED
        BY <1>7, <2>1, <3>1
    <2>. QED
      BY <1>5, <1>6, <2>1 DEF Linked
  <1>. QED
    BY <1>7 DEF age

(***************************************************************************)
(* The actions.                                                            *)
(***************************************************************************)

(* What the types say of the variables. *)
LEMMA TypeFacts ==
    /\ HashTypeOK => /\ tab \in Table /\ Place \in [Item -> BucketNo]
                     /\ key \in [Item -> Key \cup {0}] /\ live \subseteq Item
    /\ \A S : Remaining(S) = Kept(older, S)
  <1>1. ASSUME HashTypeOK PROVE Place \in [Item -> BucketNo]
    <2>1. \A x \in Item : key[x] \in Nat
      BY <1>1, Numbers DEF HashTypeOK
    <2>. QED
      BY <2>1, Numbers DEF Place
  <1>. QED
    BY <1>1 DEF HashTypeOK, Remaining, Kept

(* With no loop in progress the invariant is about the table alone. *)
LEMMA GoodIdle ==
    ASSUME NEW t, NEW place, NEW entries, NEW old
    PROVE  Good(t, place, entries, old, Idle) <=>
               /\ Aged(entries, old) /\ Linked(t, place, entries, old, 0)
               /\ Counted(t, place, entries, old)
  <1>1. Idle.loop = "none" /\ ~Frees(Idle)
    BY DEF Idle, Frees
  <1>2. WalkOK(place, entries, old, Idle)
    BY <1>1 DEF WalkOK
  <1> HIDE DEF Idle
  <1>. QED
    BY <1>1, <1>2 DEF Good

(* The types of the walk. *)
WalkType ==
    [loop : Loops \cup {"none"}, ses : Pointer, cursor : Pointer,
     left : SUBSET Item, again : BOOLEAN]

LEMMA IdleType == Idle \in WalkType /\ [Idle EXCEPT !.left = {}] = Idle
  <1>1. Idle \in WalkType /\ Idle.left = {}
    BY DEF Idle, WalkType, Pointer
  <1> HIDE DEF Idle
  <1>. QED
    BY <1>1 DEF WalkType

(* An empty table. *)
LEMMA EmptyGood ==
    ASSUME NEW b \in [Item -> [next : Pointer, prev : Pointer, hashval : Key \cup {0}]],
           NEW place, NEW old, Aged({}, old)
    PROVE  EmptyTable(b) \in Table /\ Good(EmptyTable(b), place, {}, old, Idle)
  <1> DEFINE t == EmptyTable(b)
  <1>1. t.buckets = [i \in BucketNo |-> NULL] /\ t.b = b /\ t.num_entries = 0
    BY DEF EmptyTable
  <1>2. t \in Table
    BY Numbers DEF EmptyTable, Table, Pointer
  <1> HIDE DEF t
  <1>3. \A i \in BucketNo : IsNewestOf(old, t.buckets[i], In(place, {}, i))
    BY <1>1 DEF IsNewestOf, In
  <1>4. Linked(t, place, {}, old, 0)
    BY <1>3 DEF Linked
  <1>5. Counted(t, place, {}, old)
    BY <1>1, FS_EmptySet DEF Counted
  <1>. QED
    BY <1>2, <1>4, <1>5, GoodIdle DEF t

(* The start: nothing is in the table. *)
LEMMA HashInit == Init => HashInv
  <1> SUFFICES ASSUME Init PROVE HashInv
    OBVIOUS
  <1> DEFINE b == [x \in Item |-> [next |-> NULL, prev |-> NULL, hashval |-> 0]]
  <1>1. b \in [Item -> [next : Pointer, prev : Pointer, hashval : Key \cup {0}]]
    BY DEF Pointer
  <1> HIDE DEF b
  <1>2. /\ tab = EmptyTable(b) /\ key = [x \in Item |-> 0] /\ live = {}
        /\ older = [x \in Item |-> {}] /\ walk = Idle
    BY DEF Init, b
  <1>3. Aged(live, older)
    BY <1>2 DEF Aged
  <1>4. tab \in Table /\ Good(tab, Place, live, older, walk)
    BY <1>1, <1>2, <1>3, EmptyGood
  <1>5. key \in [Item -> Key \cup {0}] /\ older \in [Item -> SUBSET live] /\ live \subseteq Item
    BY <1>2
  <1>6. walk \in WalkType
    BY <1>2, IdleType
  <1>. QED
    BY <1>4, <1>5, <1>6 DEF HashInv, HashTypeOK, WalkType

(* What a step must show. *)
LEMMA HashInvNext ==
    ASSUME NEW t \in Table, NEW k \in [Item -> Key \cup {0}], NEW entries, NEW old,
           NEW w \in WalkType,
           Good(t, [x \in Item |-> k[x] % HASHTAB_SIZE], entries, old, w),
           tab' = t, key' = k, live' = entries, older' = old, walk' = w
    PROVE  HashInv'
  <1>1. entries \subseteq Item /\ old \in [Item -> SUBSET entries]
    BY DEF Good, Aged
  <1>2. HashTypeOK'
    BY <1>1 DEF HashTypeOK, WalkType
  <1>3. Place' = [x \in Item |-> k[x] % HASHTAB_SIZE]
    BY DEF Place
  <1>4. Good(tab, Place, live, older, walk)'
    BY <1>3
  <1>. QED
    BY <1>2, <1>4 DEF HashInv

(* l2tp_tunnel_add_session *)
LEMMA AddKeeps == HashInv /\ add_session => HashInv'
  <1> SUFFICES ASSUME HashInv, add_session PROVE HashInv'
    OBVIOUS
  <1>1. PICK x \in Item \ live, k \in Key :
            /\ tab' = hash_insert(tab, x, k) /\ key' = [key EXCEPT ![x] = k]
            /\ live' = live \cup {x} /\ older' = [older EXCEPT ![x] = live]
    BY DEF add_session
  <1>2. walk.loop = "none" /\ walk' = walk
    BY DEF add_session
  <1>3. /\ tab \in Table /\ Place \in [Item -> BucketNo] /\ key \in [Item -> Key \cup {0}]
        /\ Good(tab, Place, live, older, walk)
    BY TypeFacts DEF HashInv
  <1>4. walk = Idle
    BY <1>2, <1>3 DEF Good, WalkOK
  <1>5. /\ Aged(live, older) /\ Linked(tab, Place, live, older, 0)
        /\ Counted(tab, Place, live, older)
    BY <1>3, <1>4, GoodIdle
  <1> DEFINE new == hash_insert(tab, x, k)
             keys == [key EXCEPT ![x] = k]
             at == [Place EXCEPT ![x] = k % HASHTAB_SIZE]
             more == live \cup {x}
             age == [older EXCEPT ![x] = live]
  <1>6. new \in Table /\ Linked(new, at, more, age, 0) /\ Counted(new, at, more, age)
    BY <1>3, <1>5, InsertKeeps
  <1>7. Aged(more, age)
    BY <1>5, AddedAged
  <1>8. keys \in [Item -> Key \cup {0}] /\ at = [y \in Item |-> keys[y] % HASHTAB_SIZE]
    BY <1>3 DEF Place
  <1> HIDE DEF new, keys, at, more, age
  <1>9. Good(new, at, more, age, Idle)
    BY <1>6, <1>7, GoodIdle
  <1>10. /\ tab' = new /\ key' = keys /\ live' = more /\ older' = age
         /\ walk' = Idle /\ Idle \in WalkType
    BY <1>1, <1>2, <1>4, IdleType DEF new, keys, more, age
  <1>. QED
    BY <1>6, <1>8, <1>9, <1>10, HashInvNext

(* l2tp_tunnel_delete_session *)
LEMMA DeleteKeeps == HashInv /\ delete_session => HashInv'
  <1> SUFFICES ASSUME HashInv, delete_session PROVE HashInv'
    OBVIOUS
  <1>1. PICK x \in live : /\ tab' = hash_remove(tab, x) /\ live' = live \ {x}
                          /\ older' = Remaining(live \ {x})
    BY DEF delete_session
  <1>2. walk.loop = "none" /\ walk' = walk /\ key' = key
    BY DEF delete_session
  <1>3. /\ tab \in Table /\ Place \in [Item -> BucketNo] /\ key \in [Item -> Key \cup {0}]
        /\ Good(tab, Place, live, older, walk)
        /\ Remaining(live \ {x}) = Kept(older, live \ {x})
    BY TypeFacts DEF HashInv
  <1>4. walk = Idle
    BY <1>2, <1>3 DEF Good, WalkOK
  <1>5. /\ Aged(live, older) /\ Linked(tab, Place, live, older, 0)
        /\ Counted(tab, Place, live, older)
    BY <1>3, <1>4, GoodIdle
  <1> DEFINE new == hash_remove(tab, x)
             rest == live \ {x}
             age == Kept(older, rest)
  <1>6. new \in Table /\ Linked(new, Place, rest, age, 0) /\ Counted(new, Place, rest, age)
    BY <1>3, <1>5, RemoveKeeps
  <1>7. Aged(rest, age)
    BY <1>5, KeptAged
  <1> HIDE DEF new, rest, age
  <1>8. Good(new, Place, rest, age, Idle)
    BY <1>6, <1>7, GoodIdle
  <1>9. Place = [y \in Item |-> key[y] % HASHTAB_SIZE]
    BY DEF Place
  <1>10. /\ tab' = new /\ live' = rest /\ older' = age
         /\ walk' = Idle /\ Idle \in WalkType
    BY <1>1, <1>2, <1>3, <1>4, IdleType DEF new, rest, age
  <1>. QED
    BY <1>2, <1>3, <1>6, <1>8, <1>9, <1>10, HashInvNext

(* A loop that moves to the first of the entries it has left. *)
LEMMA StandingGood ==
    ASSUME NEW t \in Table, NEW place \in [Item -> BucketNo], NEW entries, NEW old,
           Aged(entries, old), NEW loop \in Loops, NEW p \in entries,
           NEW left \in SUBSET Item, p \in left,
           left \ {p} = Ahead(place, entries, old, p),
           IF loop \in {"destruction", "free"}
           THEN entries = left /\ Linked(t, place, entries, old, place[p] + 1)
           ELSE Linked(t, place, entries, old, 0) /\ Counted(t, place, entries, old)
    PROVE  LET w == Standing(loop, p, CursorAfter(t, p), left)
           IN  w \in WalkType /\ Good(t, place, entries, old, w)
  <1> DEFINE cursor == CursorAfter(t, p)
             w == Standing(loop, p, cursor, left)
             lo == IF loop \in {"destruction", "free"} THEN place[p] + 1 ELSE 0
  <1>1. place[p] \in Nat /\ entries \subseteq Item /\ p \in Item
    BY Numbers DEF Aged
  <1>2. Linked(t, place, entries, old, lo) /\ lo \in Nat /\ lo <= place[p] + 1
    BY <1>1
  <1>3. IsFirst(place, entries, old, cursor, Ahead(place, entries, old, p))
    <2> HIDE DEF lo
    <2>. QED
      BY <1>2, CursorIsFirst DEF CursorAfter
  <1>4. cursor \in Pointer
    BY <1>1, <1>3 DEF IsFirst, Pointer, Ahead
  <1> HIDE DEF cursor
  <1>5. /\ w.loop = loop /\ w.ses = p /\ w.cursor = cursor /\ w.left = left \ {p}
        /\ w.again = FALSE /\ loop # "none"
    BY DEF Standing, Loops
  <1>6. w \in WalkType
    BY <1>1, <1>4 DEF Standing, WalkType, Pointer
  <1> HIDE DEF w
  <1>7. /\ Linked(t, place, entries, old, IF Frees(w) THEN place[w.ses] + 1 ELSE 0)
        /\ ~Frees(w) => Counted(t, place, entries, old)
        /\ Frees(w) => entries = left
    BY <1>5 DEF Frees
  <1>8. WalkOK(place, entries, old, w)
    BY <1>3, <1>5, <1>7 DEF WalkOK
  <1>. QED
    BY <1>6, <1>7, <1>8 DEF Good, w, cursor

(* Fewer heads of buckets to be right. *)
LEMMA LinkedLess ==
    ASSUME NEW t, NEW place, NEW entries, NEW old, Linked(t, place, entries, old, 0),
           NEW i \in Nat
    PROVE  Linked(t, place, entries, old, i)
  <1>1. \A j \in BucketNo : j >= 0
    BY Numbers
  <1>. QED
    BY <1>1 DEF Linked

(* hash_start *)
LEMMA StartKeeps == HashInv /\ hash_start => HashInv'
  <1> SUFFICES ASSUME HashInv, hash_start PROVE HashInv'
    OBVIOUS
  <1> DEFINE x == FirstFrom(tab, 0)
  <1>1. PICK loop \in Loops :
            x # NULL /\ walk' = Standing(loop, x, CursorAfter(tab, x), live)
    BY DEF hash_start
  <1>2. walk.loop = "none" /\ UNCHANGED <<tab, key, live, older>>
    BY DEF hash_start
  <1>3. /\ tab \in Table /\ Place \in [Item -> BucketNo] /\ key \in [Item -> Key \cup {0}]
        /\ live \subseteq Item /\ Good(tab, Place, live, older, walk)
    BY TypeFacts DEF HashInv
  <1>4. walk = Idle
    BY <1>2, <1>3 DEF Good, WalkOK
  <1>5. /\ Aged(live, older) /\ Linked(tab, Place, live, older, 0)
        /\ Counted(tab, Place, live, older)
    BY <1>3, <1>4, GoodIdle
  <1>6. \A j \in BucketNo : IsNewestOf(older, tab.buckets[j], In(Place, live, j))
    <2>1. \A j \in BucketNo : j >= 0
      BY Numbers
    <2>. QED
      BY <1>5, <2>1 DEF Linked
  <1>7. IsFirst(Place, live, older, x, live)
    <2>1. IsFirst(Place, live, older, x, {y \in live : Place[y] >= 0})
      BY <1>3, <1>6, FirstFromIsFirst, Numbers
    <2>2. \A y \in live : Place[y] \in Nat
      BY <1>3, Numbers
    <2>3. \A y \in live : Place[y] >= 0
      BY <2>2
    <2>4. {y \in live : Place[y] >= 0} = live
      BY <2>3
    <2>. QED
      BY <2>1, <2>4
  <1> HIDE DEF x
  <1>8. x \in live /\ live = {x} \cup Ahead(Place, live, older, x)
    BY <1>1, <1>7 DEF IsFirst
  <1>9. Place[x] \in Nat /\ x \notin Ahead(Place, live, older, x)
    <2>1. Place[x] \in Nat
      BY <1>3, <1>8, Numbers
    <2>2. ~(Place[x] > Place[x]) /\ x \notin older[x]
      BY <1>5, <1>8, <2>1 DEF Aged
    <2>. QED
      BY <2>1, <2>2 DEF Ahead
  <1>10. live \ {x} = Ahead(Place, live, older, x)
    BY <1>8, <1>9
  <1>11. Linked(tab, Place, live, older, Place[x] + 1)
    <2>1. Place[x] + 1 \in Nat
      BY <1>9
    <2>. QED
      BY <1>5, <2>1, LinkedLess
  <1> DEFINE w == Standing(loop, x, CursorAfter(tab, x), live)
  <1>12. w \in WalkType /\ Good(tab, Place, live, older, w)
    BY <1>3, <1>5, <1>8, <1>10, <1>11, StandingGood
  <1> HIDE DEF w
  <1>13. Place = [y \in Item |-> key[y] % HASHTAB_SIZE]
    BY DEF Place
  <1>14. walk' = w
    BY <1>1 DEF w
  <1>. QED
    BY <1>2, <1>3, <1>12, <1>13, <1>14, HashInvNext

(* What the body of a loop leaves. *)
LEMMA BodyLeaves ==
    ASSUME HashInv, walk.loop # "none", NEW body \in Bodies
    PROVE  LET rest == body.live
               age == Kept(older, rest)
           IN  /\ body.tab \in Table /\ rest \in SUBSET live /\ Aged(rest, age)
               /\ rest = live \/ rest = live \ {walk.ses}
               /\ IF Frees(walk)
                  THEN /\ rest = live \ {walk.ses}
                       /\ \A i \in Nat :
                           i > Place[walk.ses] => Linked(body.tab, Place, rest, age, i)
                  ELSE Linked(body.tab, Place, rest, age, 0)
                       /\ Counted(body.tab, Place, rest, age)
  <1> DEFINE x == walk.ses
             rest == body.live
             age == Kept(older, rest)
  <1>1. /\ tab \in Table /\ Place \in [Item -> BucketNo] /\ live \subseteq Item
        /\ Good(tab, Place, live, older, walk)
    BY TypeFacts DEF HashInv
  <1>2. Aged(live, older) /\ x \in live
    BY <1>1 DEF Good, WalkOK
  <1>3. walk.loop \in Loops
    BY DEF HashInv, HashTypeOK
  <1>4. CASE Frees(walk)
    <2>1. body = [tab |-> tab, live |-> live \ {x}]
      BY <1>4 DEF Bodies, Frees
    <2>2. /\ live = Ahead(Place, live, older, x) \cup {x}
          /\ Linked(tab, Place, live, older, Place[x] + 1)
      BY <1>1, <1>4 DEF Good, WalkOK
    <2>3. body.tab = tab /\ rest = live \ {x}
      BY <2>1
    <2>4. Place[x] + 1 \in Nat /\ Place[x] + 1 <= Place[x] + 1
      <3>1. Place[x] \in Nat
        BY <1>1, <1>2, Numbers
      <3>. QED
        BY <3>1
    <2>5. \A i \in Nat :
            i > Place[x] => Linked(tab, Place, live \ {x}, Kept(older, live \ {x}), i)
      BY <1>1, <1>2, <2>2, <2>4, FreedBehind
    <2>6. Aged(rest, age)
      BY <1>2, <2>3, KeptAged
    <2>. QED
      BY <1>1, <1>4, <2>3, <2>5, <2>6
  <1>5. CASE ~Frees(walk)
    <2>1. Linked(tab, Place, live, older, 0) /\ Counted(tab, Place, live, older)
      BY <1>1, <1>5 DEF Good
    <2>2. \/ body = [tab |-> hash_remove(tab, x), live |-> live \ {x}]
          \/ body = [tab |-> tab, live |-> live]
      BY <1>3, <1>5 DEF Bodies, Frees, Loops
    <2>3. CASE body = [tab |-> hash_remove(tab, x), live |-> live \ {x}]
      <3>1. body.tab = hash_remove(tab, x) /\ rest = live \ {x}
        BY <2>3
      <3>2. /\ hash_remove(tab, x) \in Table
            /\ Linked(hash_remove(tab, x), Place, live \ {x}, Kept(older, live \ {x}), 0)
            /\ Counted(hash_remove(tab, x), Place, live \ {x}, Kept(older, live \ {x}))
        BY <1>1, <1>2, <2>1, RemoveKeeps
      <3>3. Aged(live \ {x}, Kept(older, live \ {x}))
        BY <1>2, KeptAged
      <3>. QED
        BY <1>5, <3>1, <3>2, <3>3
    <2>4. CASE body = [tab |-> tab, live |-> live]
      <3>1. body.tab = tab /\ rest = live
        BY <2>4
      <3>2. Kept(older, live) = older
        BY <1>2, KeptAll
      <3>. QED
        BY <1>1, <1>2, <1>5, <2>1, <3>1, <3>2
    <2>. QED
      BY <2>2, <2>3, <2>4
  <1>. QED
    BY <1>4, <1>5

(* hash_next, after the body of the loop. *)
LEMMA NextKeeps == HashInv /\ hash_next => HashInv'
  <1> SUFFICES ASSUME HashInv, hash_next PROVE HashInv'
    OBVIOUS
  <1>1. PICK body \in Bodies :
            /\ live' = body.live /\ older' = Remaining(body.live)
            /\ \/ /\ walk.cursor # NULL
                  /\ walk' = Standing(walk.loop, walk.cursor,
                                      CursorAfter(body.tab, walk.cursor), walk.left)
                  /\ tab' = body.tab
               \/ /\ walk.cursor = NULL /\ walk' = [Idle EXCEPT !.left = walk.left]
                  /\ tab' = IF walk.loop \in {"destruction", "free"}
                            THEN hash_init(body.tab) ELSE body.tab
    BY DEF hash_next
  <1>2. walk.loop # "none" /\ key' = key
    BY DEF hash_next
  <1> DEFINE t == body.tab
             rest == body.live
             age == Kept(older, rest)
             x == walk.ses
             p == walk.cursor
             left == walk.left
  <1>3. /\ Place \in [Item -> BucketNo] /\ key \in [Item -> Key \cup {0}] /\ live \subseteq Item
        /\ Good(tab, Place, live, older, walk) /\ Remaining(rest) = age
    BY TypeFacts DEF HashInv
  <1>4. /\ Aged(live, older) /\ x \in live /\ left = Ahead(Place, live, older, x)
        /\ IsFirst(Place, live, older, p, left)
        /\ Frees(walk) => live = left \cup {x}
    BY <1>2, <1>3 DEF Good, WalkOK
  <1>5. /\ t \in Table /\ rest \in SUBSET live /\ Aged(rest, age)
        /\ rest = live \/ rest = live \ {x}
        /\ IF Frees(walk)
           THEN /\ rest = live \ {x}
                /\ \A i \in Nat : i > Place[x] => Linked(t, Place, rest, age, i)
           ELSE Linked(t, Place, rest, age, 0) /\ Counted(t, Place, rest, age)
    BY <1>2, BodyLeaves
  <1>6. /\ walk.loop \in Loops /\ p \in Pointer /\ left \in SUBSET Item
        /\ Frees(walk) <=> walk.loop \in {"destruction", "free"}
    BY <1>2 DEF HashInv, HashTypeOK, Frees
  <1>7. Place = [y \in Item |-> key[y] % HASHTAB_SIZE]
    BY DEF Place
  <1>8. older' = age
    BY <1>1, <1>3
  <1>9. CASE p # NULL
    <2>1. p \in Item
      BY <1>6, <1>9 DEF Pointer
    <2>2. /\ p \in live \ {x} /\ Place[p] >= Place[x] /\ p \in left
          /\ left \ {p} = Ahead(Place, live, older, p)
          /\ Ahead(Place, live, older, p)
                = Ahead(Place, live \ {x}, Kept(older, live \ {x}), p)
      <3> HIDE DEF p, left, x
      <3>1. IsFirst(Place, live, older, p, Ahead(Place, live, older, x))
        BY <1>4
      <3>2. /\ p \in live \ {x} /\ Place[p] >= Place[x]
            /\ p \in Ahead(Place, live, older, x)
            /\ Ahead(Place, live, older, x) \ {p} = Ahead(Place, live, older, p)
            /\ Ahead(Place, live, older, p)
                  = Ahead(Place, live \ {x}, Kept(older, live \ {x}), p)
        <4>1. Place \in [Item -> BucketNo] /\ Aged(live, older) /\ x \in live /\ p \in Item
          BY <1>3, <1>4, <2>1
        <4> HIDE DEF Place
        <4>. QED
          BY <3>1, <4>1, AheadOfFirst
      <3>. QED
        BY <1>4, <3>2
    <2>3. p \in rest /\ left \ {p} = Ahead(Place, rest, age, p)
      <3>1. CASE rest = live
        <4>1. age = older
          BY <1>4, <3>1, KeptAll
        <4>. QED
          BY <2>2, <3>1, <4>1
      <3>2. CASE rest = live \ {x}
        BY <2>2, <3>2
      <3>. QED
        BY <1>5, <3>1, <3>2
    <2>4. IF walk.loop \in {"destruction", "free"}
          THEN rest = left /\ Linked(t, Place, rest, age, Place[p] + 1)
          ELSE Linked(t, Place, rest, age, 0) /\ Counted(t, Place, rest, age)
      <3>1. CASE Frees(walk)
        <4>1. Place[p] \in Nat /\ Place[x] \in Nat
          BY <1>3, <1>4, <2>1, Numbers
        <4>2. Place[p] + 1 \in Nat /\ Place[p] + 1 > Place[x]
          BY <2>2, <4>1
        <4>3. Linked(t, Place, rest, age, Place[p] + 1)
          BY <1>5, <3>1, <4>2
        <4>4. x \notin left
          <5>1. ~(Place[x] > Place[x]) /\ x \notin older[x]
            BY <1>4, <4>1 DEF Aged
          <5>. QED
            BY <1>4, <5>1 DEF Ahead
        <4>5. rest = left
          BY <1>4, <1>5, <3>1, <4>4
        <4>. QED
          BY <1>6, <3>1, <4>3, <4>5
      <3>2. CASE ~Frees(walk)
        BY <1>5, <1>6, <3>2
      <3>. QED
        BY <3>1, <3>2
    <2> DEFINE w == Standing(walk.loop, p, CursorAfter(t, p), left)
    <2>5. w \in WalkType /\ Good(t, Place, rest, age, w)
      <3> HIDE DEF t, rest, age, p, left
      <3>. QED
        BY <1>3, <1>5, <1>6, <2>2, <2>3, <2>4, StandingGood
    <2>6. walk' = w /\ tab' = t /\ live' = rest
      BY <1>1, <1>9
    <2> HIDE DEF w, t, rest, age
    <2>. QED
      BY <1>2, <1>3, <1>5, <1>7, <1>8, <2>5, <2>6, HashInvNext
  <1>10. CASE p = NULL
    <2>1. left = {}
      <3>1. \A y \in left : y # NULL
        BY <1>6, Numbers
      <3>. QED
        BY <1>4, <1>10, <3>1 DEF IsFirst
    <2>2. walk' = Idle
      <3>1. walk' = [Idle EXCEPT !.left = {}]
        BY <1>1, <1>10, <2>1
      <3>. QED
        BY <3>1, IdleType
    <2>3. CASE Frees(walk)
      <3>1. rest = {}
        BY <1>4, <1>5, <2>1, <2>3
      <3>2. tab' = EmptyTable(t.b)
        BY <1>1, <1>6, <1>10, <2>3 DEF hash_init
      <3>3. t.b \in [Item -> [next : Pointer, prev : Pointer, hashval : Key \cup {0}]]
        BY <1>5 DEF Table
      <3>4. EmptyTable(t.b) \in Table /\ Good(EmptyTable(t.b), Place, {}, age, Idle)
        BY <1>5, <3>1, <3>3, EmptyGood
      <3>5. live' = {}
        BY <1>1, <3>1
      <3> HIDE DEF age, t
      <3>. QED
        BY <1>2, <1>3, <1>7, <1>8, <2>2, <3>2, <3>4, <3>5, IdleType, HashInvNext
    <2>4. CASE ~Frees(walk)
      <3>1. tab' = t /\ live' = rest
        BY <1>1, <1>6, <1>10, <2>4
      <3>2. Good(t, Place, rest, age, Idle)
        BY <1>5, <2>4, GoodIdle
      <3> HIDE DEF age, t, rest
      <3>. QED
        BY <1>2, <1>3, <1>5, <1>7, <1>8, <2>2, <3>1, <3>2, IdleType, HashInvNext
    <2>. QED
      BY <2>3, <2>4
  <1>. QED
    BY <1>9, <1>10

(* The table, its links and the loop over it are as the code relies on, in *)
(* every state: chains in the order of insertion from wherever they are    *)
(* read, whatever loops have freed.                                        *)
THEOREM TableSafety == Spec => []HashInv
  <1>1. ASSUME HashInv, [Next]_vars PROVE HashInv'
    <2>1. CASE add_session
      BY <1>1, <2>1, AddKeeps
    <2>2. CASE delete_session
      BY <1>1, <2>2, DeleteKeeps
    <2>3. CASE hash_start
      BY <1>1, <2>3, StartKeeps
    <2>4. CASE hash_next
      BY <1>1, <2>4, NextKeeps
    <2>5. CASE UNCHANGED vars
      <3>1. Place' = Place /\ HashTypeOK'
        BY <1>1, <2>5 DEF vars, Place, HashInv, HashTypeOK
      <3>2. Good(tab, Place, live, older, walk)'
        BY <1>1, <2>5, <3>1 DEF vars, HashInv
      <3>. QED
        BY <3>1, <3>2 DEF HashInv
    <2>. QED
      BY <1>1, <2>1, <2>2, <2>3, <2>4, <2>5 DEF Next
  <1>. QED
    BY <1>1, HashInit, PTL DEF Spec

(***************************************************************************)
(* What follows from the invariant.                                        *)
(***************************************************************************)

(* Outside the loops that free entries, every chain is a doubly linked     *)
(* list of its bucket's entries, the newest first, and num_entries counts  *)
(* them.                                                                   *)
THEOREM ChainsKept == Spec => []ChainsWellFormed
  <1>1. ASSUME HashInv PROVE ChainsWellFormed
    <2>1. ~Frees(walk) => /\ Linked(tab, Place, live, older, 0)
                          /\ Counted(tab, Place, live, older)
      BY <1>1 DEF HashInv, Good
    <2>2. HashTypeOK /\ live \subseteq Item
      BY <1>1 DEF HashInv, HashTypeOK
    <2>3. ASSUME walk.loop \notin {"destruction", "free"}, NEW i \in BucketNo
          PROVE  /\ IsNewest(tab.buckets[i], Bucket(i))
                 /\ \A x \in Bucket(i) :
                     /\ IsNewest(tab.b[x].next, Bucket(i) \cap older[x])
                     /\ IsOldest(tab.b[x].prev, {y \in Bucket(i) : x \in older[y]})
      <3>1. Linked(tab, Place, live, older, 0) /\ Counted(tab, Place, live, older)
        BY <2>1, <2>3 DEF Frees
      <3>2. Bucket(i) = In(Place, live, i)
        BY <2>2 DEF Bucket, In, Place
      <3>3. i >= 0
        BY Numbers
      <3>4. IsNewest(tab.buckets[i], Bucket(i))
        BY <3>1, <3>2, <3>3 DEF Linked, IsNewest, IsNewestOf
      <3>5. ASSUME NEW x \in Bucket(i)
            PROVE  /\ IsNewest(tab.b[x].next, Bucket(i) \cap older[x])
                   /\ IsOldest(tab.b[x].prev, {y \in Bucket(i) : x \in older[y]})
        <4>1. x \in live /\ Place[x] = i
          BY <3>2 DEF In
        <4>2. /\ IsNewestOf(older, tab.b[x].next, Older(Place, live, older, x))
              /\ IsOldestOf(older, tab.b[x].prev, Newer(Place, live, older, x))
          BY <3>1, <4>1 DEF Linked, Counted
        <4>3. /\ Older(Place, live, older, x) = Bucket(i) \cap older[x]
              /\ Newer(Place, live, older, x) = {y \in Bucket(i) : x \in older[y]}
          BY <3>2, <4>1 DEF Older, Newer
        <4>. QED
          BY <4>2, <4>3 DEF IsNewest, IsOldest, IsNewestOf, IsOldestOf
      <3>. QED
        BY <3>4, <3>5
    <2>4. walk.loop \notin {"destruction", "free"} => tab.num_entries = Cardinality(live)
      BY <2>1 DEF Frees, Counted
    <2>. QED
      BY <2>2, <2>3, <2>4 DEF ChainsWellFormed
  <1>. QED
    BY <1>1, TableSafety, PTL

(* The entry a loop stands on and the one its cursor points to are         *)
(* allocated, also when it frees what it stands on and leaves it linked.   *)
THEOREM NoFreedRead == Spec => []NoFreedEntryRead
  <1>1. ASSUME HashInv PROVE NoFreedEntryRead
    <2>1. walk.loop # "none" =>
            /\ walk.ses \in live
            /\ IsFirst(Place, live, older, walk.cursor, Ahead(Place, live, older, walk.ses))
      BY <1>1 DEF HashInv, Good, WalkOK
    <2>2. \A p : IsFirst(Place, live, older, p, Ahead(Place, live, older, walk.ses))
                    => p \in live \cup {NULL}
      BY DEF IsFirst, Ahead
    <2>. QED
      BY <2>1, <2>2 DEF NoFreedEntryRead
  <1>. QED
    BY <1>1, TableSafety, PTL

(* A loop returns each entry that was in the table when it began, and none *)
(* twice.                                                                  *)
THEOREM VisitedOnce == Spec => []EachVisitedOnce
  <1>1. ASSUME HashInv PROVE EachVisitedOnce
    <2>1. WalkOK(Place, live, older, walk)
      BY <1>1 DEF HashInv, Good
    <2>2. CASE walk.loop = "none"
      BY <2>1, <2>2 DEF WalkOK, Idle, EachVisitedOnce
    <2>3. CASE walk.loop # "none"
      BY <2>1, <2>3 DEF WalkOK, EachVisitedOnce
    <2>. QED
      BY <2>2, <2>3
  <1>. QED
    BY <1>1, TableSafety, PTL

(* What is true of 0 and handed on upwards is true up to n. *)
LEMMA Upwards ==
    ASSUME NEW n \in Nat, NEW T, 0 \in T, \A k \in 1..n : k - 1 \in T => k \in T
    PROVE  \A k \in 0..n : k \in T
  <1> DEFINE M == (0..n) \ T
  <1>1. M = {}
    <2> SUFFICES ASSUME M # {} PROVE FALSE
      OBVIOUS
    <2>1. PICK x \in M : \A y \in M : x <= y
      <3>1. M \subseteq Nat
        OBVIOUS
      <3> HIDE DEF M
      <3>. QED
        BY <3>1, LeastNatural
    <2>2. x \in 1..n /\ x - 1 \in 0..n /\ ~(x <= x - 1)
      BY <2>1
    <2>3. x - 1 \in T
      BY <2>1, <2>2
    <2>. QED
      BY <2>1, <2>2, <2>3
  <1>. QED
    BY <1>1

(* Nth is defined along the links. *)
LEMMA NthType ==
    ASSUME NEW t \in Table, NEW i \in BucketNo
    PROVE  /\ Nth(t, i) \in [0..Cardinality(Item) -> Pointer]
           /\ Nth(t, i)[0] = t.buckets[i]
           /\ \A k \in 1..Cardinality(Item) :
               Nth(t, i)[k] = IF Nth(t, i)[k - 1] = NULL THEN NULL
                              ELSE t.b[Nth(t, i)[k - 1]].next
  <1> DEFINE n == Cardinality(Item)
             After(p) == IF p = NULL THEN NULL ELSE t.b[p].next
             Run(m, g) == g[0] = t.buckets[i] /\ \A k \in 1..m : g[k] = After(g[k - 1])
             T == {m \in Nat : \E g \in [0..m -> Pointer] : Run(m, g)}
             Eq(g) == g = [k \in 0..n |-> IF k = 0 THEN t.buckets[i]
                                          ELSE IF g[k - 1] = NULL THEN NULL
                                          ELSE t.b[g[k - 1]].next]
             nth == CHOOSE g : Eq(g)
  <1>1. n \in Nat
    BY Numbers
  <1>2. t.buckets[i] \in Pointer /\ \A p \in Pointer : After(p) \in Pointer
    <2>1. \A p \in Pointer : p # NULL => t.b[p].next \in Pointer
      BY DEF Table, Pointer
    <2>. QED
      BY <2>1 DEF Table, Pointer
  <1>3. Nth(t, i) = nth
    BY DEF Nth
  <1> HIDE DEF n
  <1>4. 0 \in T
    <2>1. /\ [k \in 0..0 |-> t.buckets[i]] \in [0..0 -> Pointer]
          /\ Run(0, [k \in 0..0 |-> t.buckets[i]])
      BY <1>2
    <2>. QED
      BY <2>1
  <1>5. ASSUME NEW k \in 1..n, k - 1 \in T PROVE k \in T
    <2>1. PICK g \in [0..(k - 1) -> Pointer] : Run(k - 1, g)
      BY <1>5
    <2>2. k \in Nat /\ k >= 1 /\ k - 1 \in 0..(k - 1) /\ 0 \in 0..k /\ k # 0
      BY <1>1
    <2> DEFINE h == [l \in 0..k |-> IF l = k THEN After(g[k - 1]) ELSE g[l]]
    <2> HIDE DEF After
    <2>3. h \in [0..k -> Pointer]
      <3>1. After(g[k - 1]) \in Pointer
        BY <1>2, <2>2
      <3>2. \A l \in 0..k : l # k => l \in 0..(k - 1)
        BY <2>2
      <3>. QED
        BY <3>1, <3>2
    <2>4. h[0] = t.buckets[i]
      BY <2>1, <2>2
    <2>5. ASSUME NEW l \in 1..k PROVE h[l] = After(h[l - 1])
      <3>1. l \in 0..k /\ l - 1 \in 0..k /\ l - 1 # k
        BY <2>2
      <3>2. h[l - 1] = g[l - 1]
        BY <3>1
      <3>3. CASE l = k
        BY <3>1, <3>2, <3>3
      <3>4. CASE l # k
        <4>1. l \in 1..(k - 1)
          BY <2>2, <3>4
        <4>2. h[l] = g[l]
          BY <3>1, <3>4
        <4>. QED
          BY <2>1, <3>2, <4>1, <4>2
      <3>. QED
        BY <3>3, <3>4
    <2> HIDE DEF h
    <2>6. Run(k, h)
      BY <2>4, <2>5
    <2> HIDE DEF Run
    <2>. QED
      BY <2>2, <2>3, <2>6
  <1>6. n \in T
    <2> HIDE DEF T
    <2>1. \A k \in 0..n : k \in T
      BY <1>1, <1>4, <1>5, Upwards
    <2>. QED
      BY <1>1, <2>1
  <1>7. PICK g \in [0..n -> Pointer] : Run(n, g)
    BY <1>6
  <1>8. Eq(g)
    <2>1. \A k \in 0..n : k = 0 \/ k \in 1..n
      BY <1>1
    <2>. QED
      BY <1>7, <2>1
  <1>9. Eq(nth)
    BY <1>8
  <1> HIDE DEF nth
  <1>10. nth[0] = t.buckets[i] /\ \A k \in 1..n : nth[k] = After(nth[k - 1])
    <2>1. 0 \in 0..n /\ \A k \in 1..n : k \in 0..n /\ k # 0
      BY <1>1
    <2>2. \A k \in 0..n : nth[k] = IF k = 0 THEN t.buckets[i]
                                   ELSE IF nth[k - 1] = NULL THEN NULL
                                   ELSE t.b[nth[k - 1]].next
      BY <1>9
    <2>. QED
      BY <2>1, <2>2
  <1>11. \A k \in 0..n : nth[k] \in Pointer
    <2> DEFINE G == {k \in Nat : nth[k] \in Pointer}
    <2>1. 0 \in G
      BY <1>2, <1>10
    <2>2. ASSUME NEW k \in 1..n, k - 1 \in G PROVE k \in G
      <3>1. nth[k - 1] \in Pointer /\ nth[k] = After(nth[k - 1]) /\ k \in Nat
        BY <1>1, <1>10, <2>2
      <3> HIDE DEF After
      <3>. QED
        BY <1>2, <3>1
    <2> HIDE DEF G
    <2>3. \A k \in 0..n : k \in G
      BY <1>1, <2>1, <2>2, Upwards
    <2>. QED
      BY <2>3 DEF G
  <1>12. nth \in [0..n -> Pointer]
    <2>1. nth = [k \in 0..n |-> nth[k]]
      BY <1>9
    <2>. QED
      BY <1>11, <2>1
  <1>. QED
    BY <1>3, <1>10, <1>12 DEF n

(* The chain of a bucket leads through all its entries, newer ones first,  *)
(* and ends before as many steps as there are items.                       *)
LEMMA ChainOfBucket ==
    ASSUME NEW t \in Table, NEW place \in [Item -> BucketNo], NEW entries, NEW old,
           Aged(entries, old), Linked(t, place, entries, old, 0), NEW i \in BucketNo
    PROVE  LET nth == Nth(t, i)
               all == In(place, entries, i)
               n == Cardinality(Item)
           IN  /\ \A j \in 0..n : nth[j] = NULL \/ nth[j] \in all
               /\ \A j \in 0..n : \A y \in all :
                   \/ nth[j] # NULL /\ (y = nth[j] \/ y \in old[nth[j]])
                   \/ \E l \in 0..n : l < j /\ nth[l] = y
               /\ nth[n] = NULL
  <1> DEFINE nth == Nth(t, i)
             all == In(place, entries, i)
             n == Cardinality(Item)
             Rest(p) == IF p = NULL THEN {} ELSE {p} \cup (all \cap old[p])
             Passed(j) == \A y \in all : y \in Rest(nth[j]) \/ \E l \in 0..n : l < j /\ nth[l] = y
             Fits(j) == IsFiniteSet(Rest(nth[j])) /\ Cardinality(Rest(nth[j])) <= n - j
             T == {j \in Nat : (nth[j] = NULL \/ nth[j] \in all) /\ Passed(j) /\ Fits(j)}
  <1>1. /\ n \in Nat /\ IsFiniteSet(Item) /\ NULL \notin Item /\ i >= 0
        /\ entries \subseteq Item /\ all \subseteq entries
    BY Numbers DEF Aged, In
  <1>2. /\ nth[0] = t.buckets[i]
        /\ \A k \in 1..n : nth[k] = IF nth[k - 1] = NULL THEN NULL ELSE t.b[nth[k - 1]].next
    BY NthType
  <1>3. /\ IsNewestOf(old, t.buckets[i], all)
        /\ \A p \in all : IsNewestOf(old, t.b[p].next, all \cap old[p])
    BY <1>1 DEF Linked, Older, In
  <1>4. /\ \A p \in entries : p \notin old[p] /\ \A y \in old[p] : old[y] \subseteq old[p]
        /\ \A p \in entries : old[p] \subseteq entries
    BY <1>1 DEF Aged
  <1> HIDE DEF nth, all, n
  <1>5. ASSUME NEW q, NEW some, some \subseteq all, IsNewestOf(old, q, some),
               \A y \in some : all \cap old[y] \subseteq some
        PROVE  Rest(q) = some /\ (q = NULL \/ q \in all)
    <2>1. CASE some = {}
      BY <1>5, <2>1 DEF IsNewestOf
    <2>2. CASE some # {}
      <3>1. q \in some /\ some \ {q} \subseteq old[q] /\ q # NULL
        BY <1>1, <1>5, <2>2 DEF IsNewestOf
      <3>. QED
        BY <1>5, <3>1
    <2>. QED
      BY <2>1, <2>2
  <1>6. 0 \in T
    <2>1. Rest(nth[0]) = all /\ (nth[0] = NULL \/ nth[0] \in all)
      BY <1>2, <1>3, <1>5
    <2>2. Fits(0)
      <3>1. all \subseteq Item
        BY <1>1
      <3>2. IsFiniteSet(all) /\ Cardinality(all) <= n
        BY <1>1, <3>1, FS_Subset DEF n
      <3>. QED
        BY <1>1, <2>1, <3>2
    <2>. QED
      BY <2>1, <2>2
  <1>7. ASSUME NEW k \in 1..n, k - 1 \in T PROVE k \in T
    <2>1. k \in Nat /\ k - 1 \in 0..n /\ k - 1 < k /\ \A l \in 0..n : l < k - 1 => l < k
      BY <1>1
    <2>2. (nth[k - 1] = NULL \/ nth[k - 1] \in all) /\ Passed(k - 1) /\ Fits(k - 1)
      BY <1>7
    <2>3. CASE nth[k - 1] = NULL
      <3>1. nth[k] = NULL
        BY <1>2, <2>3
      <3>2. Passed(k)
        BY <2>1, <2>2, <2>3
      <3>3. Fits(k)
        BY <1>1, <3>1, FS_EmptySet
      <3> HIDE DEF Passed, Fits
      <3>. QED
        BY <2>1, <3>1, <3>2, <3>3
    <2>4. CASE nth[k - 1] # NULL
      <3> DEFINE p == nth[k - 1]
                 some == all \cap old[p]
      <3>1. p \in all /\ p \in entries /\ nth[k] = t.b[p].next
        BY <1>1, <1>2, <2>2, <2>4
      <3>2. IsNewestOf(old, nth[k], some)
        BY <1>3, <3>1
      <3>3. \A y \in some : all \cap old[y] \subseteq some
        BY <1>4, <3>1
      <3>4. Rest(nth[k]) = some /\ (nth[k] = NULL \/ nth[k] \in all)
        <4>1. some \subseteq all
          OBVIOUS
        <4> HIDE DEF some, Rest
        <4>. QED
          BY <1>5, <3>2, <3>3, <4>1
      <3>5. Rest(p) = {p} \cup some /\ p \notin some
        BY <1>4, <2>4, <3>1
      <3>6. Passed(k)
        <4>1. ASSUME NEW y \in all
              PROVE  y \in Rest(nth[k]) \/ \E l \in 0..n : l < k /\ nth[l] = y
          <5>1. y \in Rest(p) \/ \E l \in 0..n : l < k - 1 /\ nth[l] = y
            BY <2>2
          <5>2. y \in some \/ y = p \/ \E l \in 0..n : l < k - 1 /\ nth[l] = y
            BY <3>5, <5>1
          <5>. QED
            BY <2>1, <3>4, <5>2
        <4>. QED
          BY <4>1
      <3>7. Fits(k)
        <4>1. IsFiniteSet(Rest(p)) /\ Cardinality(Rest(p)) <= n - (k - 1)
          BY <2>2
        <4>2. some = Rest(p) \ {p} /\ p \in Rest(p)
          BY <3>5
        <4> HIDE DEF some, Rest, p
        <4>3. IsFiniteSet(some) /\ Cardinality(some) = Cardinality(Rest(p)) - 1
          BY <4>1, <4>2, FS_RemoveElement
        <4>4. Cardinality(Rest(p)) \in Nat
          BY <4>1, FS_CardinalityType
        <4>5. Cardinality(some) <= n - k
          BY <1>1, <2>1, <4>1, <4>3, <4>4
        <4>. QED
          BY <3>4, <4>3, <4>5
      <3> HIDE DEF Passed, Fits
      <3>. QED
        BY <2>1, <3>4, <3>6, <3>7
    <2>. QED
      BY <2>3, <2>4
  <1>8. \A j \in 0..n : j \in T
    <2> HIDE DEF T
    <2>. QED
      BY <1>1, <1>6, <1>7, Upwards
  <1>9. nth[n] = NULL
    <2>1. Fits(n)
      <3>1. n \in T
        <4> HIDE DEF T
        <4>. QED
          BY <1>1, <1>8
      <3>. QED
        BY <3>1
    <2>2. Cardinality(Rest(nth[n])) = 0
      <3>1. Cardinality(Rest(nth[n])) \in Nat
        BY <2>1, FS_CardinalityType
      <3>. QED
        BY <1>1, <2>1, <3>1
    <2>3. Rest(nth[n]) = {}
      <3> HIDE DEF Rest
      <3>. QED
        BY <2>1, <2>2, FS_EmptySet
    <2>. QED
      BY <2>3
  <1>10. \A j \in 0..n : nth[j] = NULL \/ nth[j] \in all
    BY <1>8
  <1>11. ASSUME NEW j \in 0..n, NEW y \in all
         PROVE  \/ nth[j] # NULL /\ (y = nth[j] \/ y \in old[nth[j]])
                \/ \E l \in 0..n : l < j /\ nth[l] = y
    <2>1. Passed(j)
      BY <1>8
    <2>. QED
      BY <2>1
  <1>. QED
    BY <1>9, <1>10, <1>11 DEF nth, all, n

(* Outside the loops hash_find finds the newest entry with a key, and NULL *)
(* if there is none, however many entries share its bucket.                *)
THEOREM NewestFound == Spec => []FindsNewest
  <1>1. ASSUME HashInv, walk.loop = "none", NEW k \in Key
        PROVE  IsNewest(hash_find(tab, k), {x \in live : key[x] = k})
    <2> DEFINE i == k % HASHTAB_SIZE
               nth == Nth(tab, i)
               n == Cardinality(Item)
               found == {j \in DOMAIN nth : nth[j] # NULL /\ key[nth[j]] = k}
               sought == {x \in live : key[x] = k}
    <2>1. /\ tab \in Table /\ Place \in [Item -> BucketNo] /\ live \subseteq Item
          /\ Aged(live, older) /\ Linked(tab, Place, live, older, 0)
      BY <1>1, TypeFacts DEF HashInv, Good, Frees
    <2>2. i \in BucketNo /\ n \in Nat /\ k \in Nat
      BY Numbers
    <2>3. DOMAIN nth = 0..n
      BY <2>1, <2>2, NthType
    <2> DEFINE all == In(Place, live, i)
    <2>4. /\ \A j \in 0..n : nth[j] = NULL \/ nth[j] \in all
          /\ \A j \in 0..n : \A y \in all :
              \/ nth[j] # NULL /\ (y = nth[j] \/ y \in older[nth[j]])
              \/ \E l \in 0..n : l < j /\ nth[l] = y
          /\ nth[n] = NULL
      <3> HIDE DEF i
      <3>. QED
        BY <2>1, <2>2, ChainOfBucket
    <2>5. sought \subseteq all /\ all \subseteq live
      BY <2>1 DEF In, Place
    <2>6. NULL \notin live
      BY <2>1, Numbers
    <2>7. hash_find(tab, k) = IF found = {} THEN NULL
                              ELSE nth[CHOOSE j \in found : \A l \in found : j <= l]
      BY DEF hash_find
    <2> HIDE DEF nth, i, all, n
    <2>8. CASE found = {}
      <3>1. ASSUME NEW y \in sought PROVE FALSE
        <4>1. n \in 0..n
          BY <2>2
        <4>2. PICK l \in 0..n : nth[l] = y
          BY <2>4, <2>5, <4>1
        <4>3. l \in found
          BY <2>3, <2>5, <2>6, <4>2
        <4>. QED
          BY <2>8, <4>3
      <3>2. sought = {}
        BY <3>1
      <3>. QED
        BY <2>7, <2>8, <3>2 DEF IsNewest
    <2>9. CASE found # {}
      <3>1. \E j \in found : \A l \in found : j <= l
        <4>1. found \subseteq Nat
          BY <2>2, <2>3
        <4> HIDE DEF found
        <4>. QED
          BY <2>9, <4>1, LeastNatural
      <3> DEFINE least == CHOOSE j \in found : \A l \in found : j <= l
      <3>2. least \in found /\ \A l \in found : least <= l
        BY <3>1
      <3>3. hash_find(tab, k) = nth[least]
        BY <2>7, <2>9
      <3> HIDE DEF least
      <3>4. least \in 0..n /\ nth[least] \in sought
        BY <2>3, <2>4, <2>5, <3>2
      <3>5. ASSUME NEW y \in sought, y # nth[least] PROVE y \in older[nth[least]]
        <4>1. ASSUME NEW l \in 0..n, l < least, nth[l] = y PROVE FALSE
          <5>1. l \in found
            BY <2>3, <2>5, <2>6, <4>1
          <5>2. least <= l /\ least \in Nat /\ l \in Nat
            BY <2>2, <3>2, <3>4, <5>1
          <5>. QED
            BY <4>1, <5>2
        <4>. QED
          BY <2>4, <2>5, <3>4, <3>5, <4>1
      <3>6. IsNewest(nth[least], sought)
        <4> HIDE DEF sought
        <4>. QED
          BY <3>4, <3>5 DEF IsNewest
      <3>. QED
        BY <3>3, <3>6
    <2> HIDE DEF found
    <2>. QED
      BY <2>8, <2>9
  <1>2. HashInv => FindsNewest
    BY <1>1 DEF FindsNewest
  <1>. QED
    BY <1>2, TableSafety, PTL
=============================================================================
