------------------------------ MODULE LruCache ------------------------------
(***************************************************************************)
(* core/cache.py, class LRUCache: an ordered dictionary of values and      *)
(* sizes, the least recently used first, with a running total.  Every      *)
(* method runs under the lock, so each is one operator here.               *)
(***************************************************************************)
EXTENDS Integers, Sequences

CONSTANT MaxSize   \* max_size_bytes

ASSUME LruAssumption == MaxSize \in Nat

None == <<>>        \* no value of the users is the empty sequence
Empty == [entries |-> <<>>, size |-> 0]

Keys(c) == {c.entries[i].key : i \in DOMAIN c.entries}
Place(c, k) == CHOOSE i \in DOMAIN c.entries : c.entries[i].key = k
Entry(c, k) == c.entries[Place(c, k)]
Without(es, i) == [j \in 1 .. Len(es) - 1 |-> es[IF j < i THEN j ELSE j + 1]]
Others(c, k) == IF k \in Keys(c) THEN Without(c.entries, Place(c, k))
                ELSE c.entries

(* SumTo(es)[n]: the sizes of the first n entries.                           *)
SumTo(es) ==
  LET sum[n \in 0 .. Len(es)] == IF n = 0 THEN 0 ELSE sum[n - 1] + es[n].size
  IN sum

-----------------------------------------------------------------------------
Touch(c, k) ==
  IF k \in Keys(c) THEN [c EXCEPT !.entries = Append(Others(c, k), Entry(c, k))]
  ELSE c

Get(c, k) == IF k \in Keys(c) THEN Entry(c, k).value ELSE None

(* Mutant of Set: the old size stays in the total.                           *)
SetKeepsOldSize(c, k, v, s) ==
  [entries |-> Append(Others(c, k), [key |-> k, value |-> v, size |-> s]),
   size    |-> c.size + s]

(* Set k, with its size in the total in place of the old one.                *)
Set(c, k, v, s) ==
  [entries |-> Append(Others(c, k), [key |-> k, value |-> v, size |-> s]),
   size    |-> c.size + s - (IF k \in Keys(c) THEN Entry(c, k).size ELSE 0)]

(* The oldest go until the rest fits, or one is left.                        *)
Evict(c) ==
  LET es   == c.entries
      fits(n) == c.size - SumTo(es)[n] <= MaxSize \/ n = Len(es) - 1
      drop == CHOOSE n \in 0 .. Len(es) - 1 :
                fits(n) /\ \A m \in 0 .. n - 1 : ~fits(m)
  IN [entries |-> SubSeq(es, drop + 1, Len(es)),
      size    |-> c.size - SumTo(es)[drop]]

Put(c, k, v, s) == Evict(Set(c, k, v, s))

Invalidate(c, k) ==
  [entries |-> Others(c, k),
   size    |-> c.size - (IF k \in Keys(c) THEN Entry(c, k).size ELSE 0)]

-----------------------------------------------------------------------------
(* The total is the sum of the sizes, no key is there twice, and the budget  *)
(* is kept unless a single entry exceeds it.                                 *)
WellFormed(c) ==
  /\ c.size = SumTo(c.entries)[Len(c.entries)]
  /\ \A i, j \in DOMAIN c.entries :
       c.entries[i].key = c.entries[j].key => i = j
  /\ c.size <= MaxSize \/ Len(c.entries) = 1
=============================================================================
