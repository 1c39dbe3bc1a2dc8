---------------------------- MODULE FlatMap ----------------------------
(***************************************************************************)
(* src/src/core/flat_map.hpp: U64Map, the open-addressing table with       *)
(* linear probing and tombstones under the two indexes of the metadata     *)
(* tree.  A table is a record: its slots in order, the number of live      *)
(* entries (size_) and of slots that are not empty (used_).                *)
(***************************************************************************)
EXTENDS Naturals, Sequences, FiniteSets, SequencesExt

CONSTANTS
  MinCap,      \* the first capacity of a table, 16 in the code
  Mix(_),      \* mix64: the hash of a key
  Empty,       \* kEmpty
  Tombstone,   \* kTombstone
  NoValue      \* what find returns for an absent key, nullptr in the code

Slot(k, v) == [key |-> k, value |-> v]
EmptySlot == Slot(Empty, NoValue)
EmptyMap == [slots |-> <<>>, size |-> 0, used |-> 0]

Capacity(m) == Len(m.slots)
\* The position probed after d collisions; the mask of the code is a modulus
\* because every capacity is a power of two.
Position(m, k, d) == 1 + ((Mix(k) + d) % Capacity(m))
Probed(m, k, d) == m.slots[Position(m, k, d)]

\* The number of collisions after which the probe for k stops: at k itself or
\* at an empty slot.
Stop(m, k) ==
  LET stops == { d \in 0..(Capacity(m) - 1) : Probed(m, k, d).key \in {k, Empty} }
  IN  Min(stops)

Find(m, k) ==
  IF m.slots = <<>> THEN NoValue
  ELSE LET s == Probed(m, k, Stop(m, k))
       IN  IF s.key = k THEN s.value ELSE NoValue

HasKey(m, k) == m.slots # <<>> /\ Probed(m, k, Stop(m, k)).key = k

Erase(m, k) ==
  IF ~HasKey(m, k) THEN m
  ELSE [m EXCEPT !.slots[Position(m, k, Stop(m, k))] = Slot(Tombstone, NoValue),
                 !.size = @ - 1]

\* One live slot of the old table put into the new one by rehash.
Reinsert(m, s) ==
  [slots |-> [m.slots EXCEPT ![Position(m, s.key, Stop(m, s.key))] = s],
   size  |-> m.size + 1,
   used  |-> m.used + 1]

Live(s) == s.key \notin {Empty, Tombstone}

Rehash(m, cap) ==
  FoldLeft(Reinsert,
           [slots |-> [i \in 1..cap |-> EmptySlot], size |-> 0, used |-> 0],
           SelectSeq(m.slots, Live))

GrowIfNeeded(m) ==
  IF m.slots # <<>> /\ (m.used + 1) * 4 <= Capacity(m) * 3 THEN m
  ELSE Rehash(m, CASE m.slots = <<>>                    -> MinCap
                   [] (m.size + 1) * 2 > Capacity(m)    -> Capacity(m) * 2
                   [] OTHER                             -> Capacity(m))

\* The entry goes to the slot where the probe stopped, or to the first of the
\* tombstones (tombs, as distances) it met on the way.
PlaceAt(m, k, v, assign, stop, tombs) ==
  IF Probed(m, k, stop).key = k
  THEN IF assign THEN [m EXCEPT !.slots[Position(m, k, stop)].value = v] ELSE m
  ELSE [slots |-> [m.slots EXCEPT
                     ![Position(m, k, IF tombs = {} THEN stop ELSE Min(tombs))] = Slot(k, v)],
        size  |-> m.size + 1,
        used  |-> IF tombs = {} THEN m.used + 1 ELSE m.used]

Place(m, k, v, assign, stop) ==
  PlaceAt(m, k, v, assign, stop, { d \in 0..(stop - 1) : Probed(m, k, d).key = Tombstone })

EmplaceGrown(m, k, v, assign) == Place(m, k, v, assign, Stop(m, k))
Emplace(m, k, v, assign) == EmplaceGrown(GrowIfNeeded(m), k, v, assign)

InsertOrAssign(m, k, v) == Emplace(m, k, v, TRUE)
InsertIfAbsent(m, k, v) == Emplace(m, k, v, FALSE)

\* The capacity reserve(n) asks for: the first doubling of MinCap that keeps
\* n keys within three quarters of it.
Reserve(m, n) ==
  LET fits == { j \in 0..n : MinCap * 2^j * 3 >= n * 4 }
      cap  == MinCap * 2^Min(fits)
  IN  IF cap > Capacity(m) THEN Rehash(m, cap) ELSE m

Clear(m) == [slots |-> [i \in 1..Capacity(m) |-> EmptySlot], size |-> 0, used |-> 0]

-----------------------------------------------------------------------------
\* What a table means: the partial function from its live keys to their values.
Content(m) ==
  LET live == { i \in 1..Capacity(m) : Live(m.slots[i]) }
  IN  [k \in { m.slots[i].key : i \in live } |->
         (m.slots[CHOOSE i \in live : m.slots[i].key = k]).value]

\* A table on which every operation ends and finds what was put in it: a slot
\* is still empty, the counters count what they say, no key is held twice, and
\* no empty slot lies between the home of a key and the slot that holds it.
Sound(m) ==
  LET at(P(_)) == { i \in 1..Capacity(m) : P(m.slots[i]) }
      live  == at(Live)
  IN  /\ m.slots # <<>> => at(LAMBDA s : s.key = Empty) # {}
      /\ m.size = Cardinality(live)
      /\ m.used = Cardinality(at(LAMBDA s : s.key # Empty))
      /\ \A i, j \in live : m.slots[i].key = m.slots[j].key => i = j
      /\ \A i \in live : Find(m, m.slots[i].key) = m.slots[i].value
=============================================================================
