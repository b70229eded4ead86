------------------------- MODULE SocketTableProofs -------------------------
(***************************************************************************)
(* Proofs about SocketTable, for every size of the table, every set of     *)
(* ports and addresses and every number of requests.                       *)
(***************************************************************************)
EXTENDS SocketTable, TLAPS, WellFoundedInduction, FiniteSetTheorems

\* LeastOf is the minimum of a non-empty set of rows.
LEMMA LeastRow ==
    ASSUME NEW S \in SUBSET Row, S # {}
    PROVE  /\ LeastOf(S) \in S
           /\ \A m \in S : LeastOf(S) <= m
<1>0. S \in SUBSET Nat
  BY TableAssumption DEF Row
<1>1. PICK n \in S : \A m \in S : ~(<<m, n>> \in OpToRel(<, Nat))
  BY <1>0, NatLessThanWellFounded, WFMin
<1>2. ASSUME NEW m \in S PROVE n <= m
  <2>1. m < n => <<m, n>> \in OpToRel(<, Nat)
    BY <1>0 DEF OpToRel
  <2>2. ~(m < n)
    BY <1>1, <2>1, Zenon
  <2>. QED
    BY <1>0, <2>2
<1>. QED
  BY <1>2 DEF LeastOf

LEMMA RowsFinite ==
    /\ IsFiniteSet(Row)
    /\ Cardinality(Row) = HASH_MAP_DEFAULT_SIZE
    /\ \A h : IsFiniteSet(UsedRows(h))
<1>1. IsFiniteSet(Row) /\ Cardinality(Row) = HASH_MAP_DEFAULT_SIZE
  BY FS_Interval, TableAssumption DEF Row
<1>2. \A h : UsedRows(h) \in SUBSET Row
  BY DEF UsedRows
<1>. QED
  BY <1>1, <1>2, FS_Subset

\* The parts of the invariant about a table h whose sockets have the ids in ids.
TableInv(h, ids) ==
    /\ h \in HashMap
    /\ ids \in [SocketRef -> Key \union {Null}]
    /\ Consistent(h)
    /\ \A i, j \in UsedRows(h) : ids[h.table[i]] = ids[h.table[j]] => i = j
    /\ {h.table[i] : i \in Row} \ {Null} = {s \in SocketRef : ids[s] # Null}

\* The socket in a used row is allocated, and every allocated socket has a row.
LEMMA Placed ==
    ASSUME NEW h, NEW ids, TableInv(h, ids)
    PROVE  /\ \A i \in UsedRows(h) : h.table[i] \in SocketRef /\ ids[h.table[i]] \in Key
           /\ \A s \in SocketRef : ids[s] # Null => \E i \in UsedRows(h) : h.table[i] = s
           /\ \A s \in SocketRef : ids[s] = Null => \A i \in Row : h.table[i] # s
<1>1. \A i \in UsedRows(h) : h.table[i] \in {s \in SocketRef : ids[s] # Null}
  BY DEF TableInv, UsedRows
<1>2. \A s \in {t \in SocketRef : ids[t] # Null} : s \in {h.table[i] : i \in Row} \ {Null}
  BY DEF TableInv
<1>. QED
  BY <1>1, <1>2, TableAssumption DEF TableInv, UsedRows

\* hasKey and getSocket see exactly the keys of the used rows, and getSocket
\* returns the one socket that has the key.
LEMMA Lookup ==
    ASSUME NEW h, NEW ids, TableInv(h, ids), NEW k
    PROVE  /\ hasKey(h, ids, k) <=> \E i \in UsedRows(h) : ids[h.table[i]] = k
           /\ \A i \in UsedRows(h) :
                ids[h.table[i]] = k => /\ RowsOf(h, ids, k) = {i}
                                       /\ getSocket(h, ids, k) = h.table[i]
           /\ getSocket(h, ids, k) = Null => ~hasKey(h, ids, k)
<1>1. hasKey(h, ids, k) <=> \E i \in UsedRows(h) : ids[h.table[i]] = k
  BY DEF hasKey, UsedRows, TableInv, Consistent
<1>2. ASSUME NEW i \in UsedRows(h), ids[h.table[i]] = k
      PROVE  RowsOf(h, ids, k) = {i} /\ getSocket(h, ids, k) = h.table[i]
  <2>1. RowsOf(h, ids, k) = {i}
    BY <1>2 DEF RowsOf, UsedRows, TableInv
  <2>2. LeastOf(RowsOf(h, ids, k)) = i
    BY <2>1, LeastRow DEF UsedRows
  <2>3. h.number_of_sockets # 0
    BY <1>2, RowsFinite, FS_EmptySet DEF TableInv, Consistent
  <2>. QED
    BY <1>1, <1>2, <2>1, <2>2, <2>3 DEF getSocket
<1>3. ASSUME getSocket(h, ids, k) = Null, hasKey(h, ids, k) PROVE FALSE
  <2>1. PICK i \in UsedRows(h) : ids[h.table[i]] = k
    BY <1>1, <1>3
  <2>. QED
    BY <1>2, <1>3, <2>1 DEF UsedRows
<1>. QED
  BY <1>1, <1>2, <1>3

\* insertSocket puts a socket that is not in the table into a free row.
LEMMA InsertEffect ==
    ASSUME NEW h \in HashMap, Consistent(h), NEW s \in SocketRef, NEW ids,
           \A i \in Row : h.table[i] # s, CanInsert(h, ids, s)
    PROVE  \E j \in Row : /\ h.table[j] = Null
                          /\ insertSocket(h, ids, s).table = [h.table EXCEPT ![j] = s]
                          /\ insertSocket(h, ids, s) \in HashMap
                          /\ Consistent(insertSocket(h, ids, s))
<1>. DEFINE j == LeastOf(FreeRows(h))
            g == insertSocket(h, ids, s)
<1>1. j \in Row /\ h.table[j] = Null
  BY LeastRow DEF CanInsert, FreeRows
<1>2. g = SetRow(h, j, s, h.number_of_sockets + 1)
  BY DEF insertSocket
<1>. HIDE DEF j, g
<1>3. /\ g \in HashMap /\ g.table = [h.table EXCEPT ![j] = s]
      /\ g.socket_id = [h.socket_id EXCEPT ![j] = s]
      /\ g.number_of_sockets = h.number_of_sockets + 1
  BY <1>1, <1>2 DEF HashMap, SetRow
<1>4. UsedRows(g) = UsedRows(h) \union {j} /\ j \notin UsedRows(h)
  BY <1>1, <1>3, TableAssumption DEF UsedRows, HashMap
<1>5. Cardinality(UsedRows(g)) = Cardinality(UsedRows(h)) + 1
  BY <1>4, RowsFinite, FS_AddElement
<1>6. \A a, b \in UsedRows(g) : g.table[a] = g.table[b] => a = b
  BY <1>1, <1>3, <1>4 DEF Consistent, UsedRows, HashMap
<1>7. Consistent(g)
  BY <1>3, <1>5, <1>6 DEF Consistent
<1>. QED
  BY <1>1, <1>3, <1>7 DEF g

\* hashmapRemove clears the row of the key and leaves room in the table.
LEMMA RemoveEffect ==
    ASSUME NEW h, NEW ids, TableInv(h, ids), NEW i \in UsedRows(h)
    PROVE  LET g == hashmapRemove(h, ids, ids[h.table[i]]) IN
           /\ g \in HashMap
           /\ g.table = [h.table EXCEPT ![i] = Null]
           /\ Consistent(g)
           /\ FreeRows(g) # {} /\ g.number_of_sockets # HASH_MAP_DEFAULT_SIZE
<1>. DEFINE g == hashmapRemove(h, ids, ids[h.table[i]])
<1>1. RowsOf(h, ids, ids[h.table[i]]) = {i} /\ i \in Row
  BY Lookup DEF UsedRows
<1>2. LeastOf(RowsOf(h, ids, ids[h.table[i]])) = i
  BY <1>1, LeastRow
<1>3. g = SetRow(h, i, Null, h.number_of_sockets - 1)
  BY <1>1, <1>2 DEF hashmapRemove
<1>. HIDE DEF g
<1>4. /\ g \in HashMap /\ g.table = [h.table EXCEPT ![i] = Null]
      /\ g.socket_id = [h.socket_id EXCEPT ![i] = Null]
      /\ g.number_of_sockets = h.number_of_sockets - 1
  BY <1>1, <1>3 DEF HashMap, TableInv, SetRow
<1>5. UsedRows(g) = UsedRows(h) \ {i} /\ i \in FreeRows(g)
  BY <1>1, <1>4 DEF UsedRows, HashMap, TableInv, FreeRows
<1>6. Cardinality(UsedRows(g)) = Cardinality(UsedRows(h)) - 1
  BY <1>5, RowsFinite, FS_RemoveElement
<1>7. g.table = g.socket_id
  BY <1>4 DEF Consistent, TableInv
<1>8. \A a, b \in UsedRows(g) : g.table[a] = g.table[b] => a = b
  BY <1>1, <1>4, <1>5 DEF Consistent, UsedRows, HashMap, TableInv
<1>9. Consistent(g)
  BY <1>4, <1>6, <1>7, <1>8 DEF Consistent, TableInv
<1>10. g.number_of_sockets # HASH_MAP_DEFAULT_SIZE
  <2>1. UsedRows(g) \in SUBSET Row /\ i \in Row /\ i \notin UsedRows(g)
    BY <1>1, <1>5 DEF UsedRows
  <2>2. Cardinality(UsedRows(g)) # Cardinality(Row)
    BY <2>1, RowsFinite, FS_Subset
  <2>. QED
    BY <1>9, <2>2, RowsFinite DEF Consistent
<1>. QED
  BY <1>4, <1>5, <1>9, <1>10 DEF g

----------------------------------------------------------------------------
(* The three changes of the table preserve TableInv.                       *)

\* A new socket with a key of its own is inserted.
LEMMA InsertNew ==
    ASSUME NEW h, NEW ids, TableInv(h, ids), NEW s \in SocketRef, ids[s] = Null,
           NEW k \in Key, CanInsert(h, [ids EXCEPT ![s] = k], s)
    PROVE  TableInv(insertSocket(h, [ids EXCEPT ![s] = k], s), [ids EXCEPT ![s] = k])
<1>. DEFINE jds == [ids EXCEPT ![s] = k]
            g == insertSocket(h, jds, s)
<1>1. \A i \in Row : h.table[i] # s
  BY Placed
<1>2. /\ jds \in [SocketRef -> Key \union {Null}] /\ jds[s] = k
      /\ \A u \in SocketRef : u # s => jds[u] = ids[u]
  BY DEF TableInv
<1>3. \A i \in UsedRows(h) : h.table[i] # s /\ h.table[i] \in SocketRef
                             /\ jds[h.table[i]] = ids[h.table[i]]
  BY <1>1, <1>2, Placed DEF UsedRows
<1>4. ~hasKey(h, jds, jds[s])
  BY DEF CanInsert
<1>5. PICK j \in Row : /\ h.table[j] = Null /\ g.table = [h.table EXCEPT ![j] = s]
                       /\ g \in HashMap /\ Consistent(g)
  <2>. HIDE DEF jds
  <2>. QED
    BY <1>1, InsertEffect DEF TableInv, g, jds
<1>. HIDE DEF jds, g
<1>6. /\ g.table[j] = s /\ \A i \in Row : i # j => g.table[i] = h.table[i]
      /\ h.table \in [Row -> SocketRef \union {Null}]
  BY <1>5 DEF TableInv, HashMap
<1>7. UsedRows(g) = UsedRows(h) \union {j} /\ j \notin UsedRows(h)
  BY <1>5, <1>6, TableAssumption DEF UsedRows
<1>8. \A i \in UsedRows(h) : jds[h.table[i]] # k
  BY <1>2, <1>4 DEF hasKey, UsedRows, TableInv, Consistent
<1>9. ASSUME NEW a \in UsedRows(g), NEW b \in UsedRows(g), jds[g.table[a]] = jds[g.table[b]]
      PROVE  a = b
  <2>1. a \in Row /\ b \in Row
    BY DEF UsedRows
  <2>2. CASE a = j
    BY <1>2, <1>6, <1>7, <1>8, <1>9, <2>1, <2>2
  <2>3. CASE b = j
    BY <1>2, <1>6, <1>7, <1>8, <1>9, <2>1, <2>3
  <2>4. CASE a # j /\ b # j
    BY <1>3, <1>6, <1>7, <1>9, <2>1, <2>4 DEF TableInv
  <2>. QED
    BY <2>2, <2>3, <2>4
<1>10. {g.table[i] : i \in Row} \ {Null} = {u \in SocketRef : jds[u] # Null}
  <2>1. ASSUME NEW i \in Row, g.table[i] # Null
        PROVE  g.table[i] \in SocketRef /\ jds[g.table[i]] # Null
    <3>1. CASE i = j
      BY <1>2, <1>6, <3>1, TableAssumption
    <3>2. CASE i # j
      BY <1>3, <1>6, <2>1, <3>2, Placed, TableAssumption DEF UsedRows
    <3>. QED
      BY <3>1, <3>2
  <2>2. ASSUME NEW u \in SocketRef, jds[u] # Null
        PROVE  \E i \in Row : g.table[i] = u
    <3>1. CASE u = s
      BY <1>6, <3>1
    <3>2. CASE u # s
      BY <1>2, <1>5, <1>6, <2>2, <3>2, Placed DEF UsedRows
    <3>. QED
      BY <3>1, <3>2
  <2>. QED
    BY <2>1, <2>2, TableAssumption
<1>. QED
  BY <1>2, <1>5, <1>9, <1>10 DEF TableInv, g, jds

\* A socket leaves the table and is freed.
LEMMA RemoveOld ==
    ASSUME NEW h, NEW ids, TableInv(h, ids), NEW s \in SocketRef, ids[s] # Null
    PROVE  TableInv(hashmapRemove(h, ids, ids[s]), [ids EXCEPT ![s] = Null])
<1>. DEFINE jds == [ids EXCEPT ![s] = Null]
            g == hashmapRemove(h, ids, ids[s])
<1>1. PICK i \in UsedRows(h) : h.table[i] = s
  BY Placed
<1>2. /\ g \in HashMap /\ g.table = [h.table EXCEPT ![i] = Null] /\ Consistent(g)
  BY <1>1, RemoveEffect
<1>3. /\ jds \in [SocketRef -> Key \union {Null}] /\ jds[s] = Null
      /\ \A u \in SocketRef : u # s => jds[u] = ids[u]
  BY DEF TableInv
<1>. HIDE DEF jds, g
<1>4. /\ i \in Row /\ h.table[i] # Null
      /\ g.table[i] = Null /\ \A a \in Row : a # i => g.table[a] = h.table[a]
  BY <1>1, <1>2 DEF TableInv, HashMap, UsedRows
<1>5. UsedRows(g) = UsedRows(h) \ {i}
  BY <1>4 DEF UsedRows
<1>6. \A a \in UsedRows(g) : /\ g.table[a] = h.table[a] /\ a \in UsedRows(h)
                             /\ h.table[a] \in SocketRef /\ h.table[a] # s
                             /\ jds[g.table[a]] = ids[h.table[a]]
  <2>1. \A a \in UsedRows(g) : g.table[a] = h.table[a] /\ a \in UsedRows(h) /\ a # i
    BY <1>4, <1>5 DEF UsedRows
  <2>2. \A a \in UsedRows(g) : h.table[a] \in SocketRef /\ h.table[a] # s
    BY <1>1, <2>1, Placed DEF TableInv, Consistent
  <2>. QED
    BY <1>3, <2>1, <2>2
<1>7. \A a, b \in UsedRows(g) : jds[g.table[a]] = jds[g.table[b]] => a = b
  BY <1>6 DEF TableInv
<1>8. {g.table[a] : a \in Row} \ {Null} = {u \in SocketRef : jds[u] # Null}
  <2>1. ASSUME NEW a \in Row, g.table[a] # Null
        PROVE  g.table[a] \in SocketRef /\ jds[g.table[a]] # Null
    <3>1. a \in UsedRows(g)
      BY <2>1 DEF UsedRows
    <3>2. ids[h.table[a]] # Null
      BY <1>6, <3>1, Placed, TableAssumption
    <3>. QED
      BY <1>6, <3>1, <3>2
  <2>2. ASSUME NEW u \in SocketRef, jds[u] # Null
        PROVE  \E a \in Row : g.table[a] = u
    <3>1. u # s /\ ids[u] # Null
      BY <1>3, <2>2
    <3>2. PICK a \in UsedRows(h) : h.table[a] = u
      BY <3>1, Placed
    <3>. QED
      BY <1>1, <1>4, <3>1, <3>2 DEF UsedRows
  <2>. QED
    BY <2>1, <2>2, TableAssumption
<1>. QED
  BY <1>2, <1>3, <1>7, <1>8 DEF TableInv, g, jds

\* The key of a socket in the table changes to one that is not in use.
LEMMA Rename ==
    ASSUME NEW h, NEW ids, TableInv(h, ids), NEW s \in SocketRef, ids[s] # Null,
           NEW k \in Key, \A i \in UsedRows(h) : ids[h.table[i]] # k
    PROVE  TableInv(h, [ids EXCEPT ![s] = k])
<1>. DEFINE jds == [ids EXCEPT ![s] = k]
<1>1. /\ jds \in [SocketRef -> Key \union {Null}] /\ jds[s] = k
      /\ \A u \in SocketRef : u # s => jds[u] = ids[u]
  BY DEF TableInv
<1>. HIDE DEF jds
<1>2. \A i \in UsedRows(h) : h.table[i] \in SocketRef
  BY Placed
<1>3. ASSUME NEW a \in UsedRows(h), NEW b \in UsedRows(h), jds[h.table[a]] = jds[h.table[b]]
      PROVE  a = b
  <2>1. CASE h.table[a] = s /\ h.table[b] = s
    BY <2>1 DEF TableInv, Consistent
  <2>2. CASE h.table[a] # s \/ h.table[b] # s
    BY <1>1, <1>2, <1>3, <2>2 DEF TableInv
  <2>. QED
    BY <2>1, <2>2
<1>4. {u \in SocketRef : jds[u] # Null} = {u \in SocketRef : ids[u] # Null}
  BY <1>1, TableAssumption
<1>. QED
  BY <1>1, <1>3, <1>4 DEF TableInv, jds

----------------------------------------------------------------------------
(* The loop.                                                               *)

\* Where the loop is: at the row of its socket, with every socket in the rows
\* up to there visited.
Position ==
    current # Null => /\ running
                      /\ map.iterator_index \in Row
                      /\ map.socket_id[map.iterator_index] = current
                      /\ visited = {map.table[i] : i \in 0 .. map.iterator_index} \ {Null}

IInv == TypeOK /\ TableInv(map, key) /\ Pending /\ Position

\* The invariant in the form the steps are proved in, and as the runs check it.
LEMMA InvForms == IInv <=> Inv
<1>1. TypeOK /\ TableInv(map, key) <=> TypeOK /\ TableConsistent /\ KeysDistinct /\ NoLeak
  BY DEF TypeOK, TableInv, TableConsistent, KeysDistinct, NoLeak, InTable
<1>2. ASSUME TableInv(map, key), Position, current # Null
      PROVE  getSocket(map, key, key[current]) = current
  <2>1. map.iterator_index \in UsedRows(map) /\ map.table[map.iterator_index] = current
    BY <1>2 DEF Position, UsedRows, TableInv, Consistent
  <2>. QED
    BY <1>2, <2>1, Lookup
<1>3. ASSUME TableInv(map, key)
      PROVE  Position <=> LoopFindsItsSocket /\ VisitedUpToIterator
  BY <1>2, <1>3 DEF Position, LoopFindsItsSocket, VisitedUpToIterator
<1>. QED
  BY <1>1, <1>3 DEF IInv, Inv

\* hashMapGetFirst goes to the first row in use.
LEMMA FirstRow ==
    ASSUME NEW h \in HashMap, h.table = h.socket_id
    PROVE  /\ hashMapGetFirst(h) \in HashMap
           /\ hashMapGetFirst(h).table = h.table
           /\ hashMapGetFirst(h).socket_id = h.socket_id
           /\ hashMapGetFirst(h).number_of_sockets = h.number_of_sockets
           /\ FirstId(h) = Null => \A i \in Row : h.table[i] = Null
           /\ FirstId(h) # Null =>
                LET n == hashMapGetFirst(h).iterator_index IN
                /\ n \in Row /\ h.socket_id[n] = FirstId(h)
                /\ \A i \in Row : i < n => h.table[i] = Null
<1>1. RowsFrom(h, 0) = {i \in Row : h.table[i] # Null}
  BY TableAssumption DEF RowsFrom, Row
<1>2. CASE RowsFrom(h, 0) = {}
  BY <1>1, <1>2 DEF hashMapGetFirst, FirstId
<1>3. CASE RowsFrom(h, 0) # {}
  <2>. DEFINE n == LeastOf(RowsFrom(h, 0))
  <2>1. n \in RowsFrom(h, 0) /\ \A m \in RowsFrom(h, 0) : n <= m
    BY <1>1, <1>3, LeastRow
  <2>2. hashMapGetFirst(h) = [h EXCEPT !.iterator_index = n] /\ FirstId(h) = h.socket_id[n]
    BY <1>3 DEF hashMapGetFirst, FirstId
  <2>. HIDE DEF n
  <2>3. n \in Row /\ n \in Int /\ h.table[n] # Null /\ \A i \in Row : i < n => h.table[i] = Null
    BY <1>1, <2>1, TableAssumption DEF Row
  <2>. QED
    BY <2>2, <2>3 DEF HashMap
<1>. QED
  BY <1>2, <1>3

\* hashMapGetNext goes to the next row in use, or finds that there is none.
LEMMA NextRow ==
    ASSUME NEW h \in HashMap, h.table = h.socket_id, h.iterator_index \in Row
    PROVE  /\ hashMapGetNext(h) \in HashMap
           /\ hashMapGetNext(h).table = h.table
           /\ hashMapGetNext(h).socket_id = h.socket_id
           /\ hashMapGetNext(h).number_of_sockets = h.number_of_sockets
           /\ NextId(h) = Null => \A i \in Row : h.iterator_index < i => h.table[i] = Null
           /\ NextId(h) # Null =>
                LET n == hashMapGetNext(h).iterator_index IN
                /\ n \in Row /\ h.socket_id[n] = NextId(h) /\ h.iterator_index < n
                /\ \A i \in Row : h.iterator_index < i /\ i < n => h.table[i] = Null
<1>. DEFINE m == h.iterator_index + 1
            R == RowsFrom(h, m)
<1>1. m \in Int /\ R = {i \in Row : h.iterator_index < i /\ h.table[i] # Null}
  BY TableAssumption DEF RowsFrom, Row
<1>2. ~(h.iterator_index >= HASH_MAP_DEFAULT_SIZE) /\ AfterIterator(h) = m
  BY TableAssumption DEF Row, AfterIterator
<1>3. CASE R = {}
  <2>1. hashMapGetNext(h) = [h EXCEPT !.iterator_index = m] /\ NextId(h) = Null
    BY <1>2, <1>3 DEF hashMapGetNext, NextId
  <2>. HIDE DEF m, R
  <2>. QED
    BY <1>1, <1>3, <2>1 DEF HashMap
<1>4. CASE R # {}
  <2>. DEFINE n == LeastOf(R)
  <2>1. n \in R /\ \A i \in R : n <= i
    BY <1>1, <1>4, LeastRow DEF R
  <2>2. hashMapGetNext(h) = [h EXCEPT !.iterator_index = n] /\ NextId(h) = h.socket_id[n]
    BY <1>2, <1>4 DEF hashMapGetNext, NextId
  <2>. HIDE DEF n, R, m
  <2>3. /\ n \in Row /\ n \in Int /\ h.table[n] # Null /\ h.iterator_index < n
        /\ \A i \in Row : h.iterator_index < i /\ i < n => h.table[i] = Null
    BY <1>1, <2>1, TableAssumption DEF Row
  <2>. QED
    BY <2>2, <2>3 DEF HashMap
<1>. QED
  BY <1>3, <1>4

\* TableInv does not depend on the iterator.
LEMMA SameRows ==
    ASSUME NEW h, NEW g \in HashMap, NEW ids, TableInv(h, ids),
           g.table = h.table, g.socket_id = h.socket_id,
           g.number_of_sockets = h.number_of_sockets
    PROVE  TableInv(g, ids)
<1>1. UsedRows(g) = UsedRows(h)
  BY DEF UsedRows
<1>. QED
  BY <1>1 DEF TableInv, Consistent

LEMMA InitInv == Init => IInv
<1>. SUFFICES ASSUME Init PROVE IInv
  OBVIOUS
<1>. DEFINE none == [s \in SocketRef |-> Null]
<1>1. createHashMap \in HashMap /\ \A i \in Row : createHashMap.table[i] = Null
  BY DEF createHashMap, HashMap
<1>2. UsedRows(createHashMap) = {}
  BY <1>1 DEF UsedRows
<1>3. Consistent(createHashMap)
  BY <1>2, FS_EmptySet DEF Consistent, createHashMap
<1>4. TableInv(createHashMap, none)
  BY <1>1, <1>2, <1>3 DEF TableInv
<1>5. TableInv(map, key)
  BY <1>4 DEF Init
<1>6. TypeOK
  <2>1. map \in HashMap /\ key \in [SocketRef -> Key \union {Null}]
    BY <1>1 DEF Init
  <2>2. running \in BOOLEAN /\ inserted \in BOOLEAN
    BY DEF Init
  <2>3. requests \in 0 .. MaxRequests
    BY TableAssumption DEF Init
  <2>4. syn_sent \subseteq SocketRef /\ visited \subseteq SocketRef /\ current = Null
    BY DEF Init
  <2>. QED
    BY <2>1, <2>2, <2>3, <2>4 DEF TypeOK
<1>7. Pending /\ Position
  BY DEF Init, Pending, Position
<1>. QED
  BY <1>5, <1>6, <1>7 DEF IInv

\* Two bound keys are the same when their ports are, and no key with a
\* destination is a bound key.
LEMMA Keys ==
    /\ \A p \in Port : Bound(p) \in Key /\ Bound(p).port = p /\ Bound(p).dst = NoDst
    /\ \A k \in Key : k.port \in Port /\ (k.dst = NoDst => k = Bound(k.port))
    /\ \A p \in Port, d \in Dst : [port |-> p, dst |-> d] \in Key
    /\ \A p, q \in Port, d \in Dst : [port |-> p, dst |-> d] # Bound(q)
    /\ \A p, q \in Port : Bound(p) = Bound(q) => p = q
  BY TableAssumption DEF Key, Bound

\* A socket offered to the table, while the loop is not in a turn.
LEMMA OfferInv ==
    ASSUME IInv, NEW s \in SocketRef, NEW k \in Key, Offer(s, k),
           current = Null, UNCHANGED <<syn_sent, current, visited>>,
           running' \in BOOLEAN, requests' \in 0 .. MaxRequests,
           \A t \in syn_sent : k # Bound(key[t].port)
    PROVE  IInv'
<1>. DEFINE ids == [key EXCEPT ![s] = k]
<1>1. /\ TableInv(map, key) /\ key[s] = Null /\ TypeOK /\ Pending
      /\ map \in HashMap /\ key \in [SocketRef -> Key \union {Null}]
  BY DEF IInv, Offer, TypeOK
<1>2. CASE CanInsert(map, ids, s)
  <2>1. map' = insertSocket(map, ids, s) /\ key' = ids /\ inserted' \in BOOLEAN
    BY <1>2 DEF Offer, CanInsert
  <2>2. TableInv(map', key')
    BY <1>1, <1>2, <2>1, InsertNew
  <2>3. /\ key'[s] = k /\ s \notin syn_sent
        /\ \A t \in SocketRef : t # s => key'[t] = key[t]
    BY <1>1, <2>1 DEF Pending
  <2>4. InTable' \subseteq InTable \union {s}
    BY <1>1, <2>2, <2>3, TableAssumption DEF InTable, TableInv
  <2>5. \A t \in syn_sent : key'[t] = key[t] /\ t \in SocketRef /\ key[t] # Null
    BY <1>1, <2>3 DEF Pending, TypeOK
  <2>6. ASSUME NEW t \in syn_sent, NEW u \in InTable' PROVE key'[u] # Bound(key'[t].port)
    <3>1. CASE u = s
      BY <2>3, <2>5, <3>1
    <3>2. CASE u # s
      <4>1. u \in InTable /\ u \in SocketRef
        BY <1>1, <2>4, <3>2 DEF InTable, TableInv
      <4>. QED
        BY <1>1, <2>3, <2>5, <3>2, <4>1 DEF Pending
    <3>. QED
      BY <3>1, <3>2
  <2>7. Pending'
    BY <1>1, <2>5, <2>6, <2>3 DEF Pending
  <2>. QED
    BY <1>1, <2>1, <2>2, <2>7 DEF IInv, TypeOK, Position, TableInv
<1>3. CASE ~CanInsert(map, ids, s)
  <2>1. map' = map /\ key' = key /\ inserted' \in BOOLEAN
    BY <1>3 DEF Offer, insertSocket, CanInsert
  <2>. QED
    BY <1>1, <2>1 DEF IInv, TypeOK, Position, Pending, InTable
<1>. QED
  BY <1>2, <1>3

LEMMA BindInv ==
    ASSUME IInv, NEW s \in SocketRef, NEW p \in Port, handle_bind_request(s, p)
    PROVE  IInv'
<1>1. requests' \in 0 .. MaxRequests /\ running' \in BOOLEAN
  BY TableAssumption DEF handle_bind_request, Request, IInv, TypeOK, Offer, CanInsert
<1>2. \A t \in syn_sent : Bound(p) # Bound(key[t].port)
  <2>1. \A t \in syn_sent : key[t] \in Key /\ key[t].port # p
    BY DEF handle_bind_request, IInv, TypeOK, Pending
  <2>. QED
    BY <2>1, Keys
<1>3. current = Null /\ Offer(s, Bound(p)) /\ UNCHANGED <<syn_sent, current, visited>>
  BY DEF handle_bind_request, BetweenTurns
<1>. QED
  BY <1>1, <1>2, <1>3, Keys, OfferInv

LEMMA ListenInv ==
    ASSUME IInv, NEW s \in SocketRef, NEW p \in Port, NEW d \in Dst,
           handle_packet_listen(s, p, d)
    PROVE  IInv'
<1>1. requests' \in 0 .. MaxRequests /\ running' \in BOOLEAN
  BY TableAssumption DEF handle_packet_listen, Request, IInv, TypeOK
<1>2. \A t \in syn_sent : [port |-> p, dst |-> d] # Bound(key[t].port)
  <2>1. \A t \in syn_sent : key[t] \in Key
    BY DEF IInv, TypeOK, Pending
  <2>. QED
    BY <2>1, Keys
<1>3. /\ current = Null /\ Offer(s, [port |-> p, dst |-> d])
      /\ UNCHANGED <<syn_sent, current, visited>>
  BY DEF handle_packet_listen, BetweenTurns
<1>. QED
  BY <1>1, <1>2, <1>3, Keys, OfferInv

LEMMA OutsideInv ==
    ASSUME IInv, LeaveLoop \/ \E s \in SocketRef : LeaveSynSent(s)
    PROVE  IInv'
<1>1. CASE LeaveLoop
  BY ZenonT(60), <1>1 DEF LeaveLoop, BetweenTurns, IInv, TypeOK, Pending, Position, InTable
<1>2. ASSUME NEW s \in SocketRef, LeaveSynSent(s) PROVE IInv'
  BY <1>2 DEF LeaveSynSent, BetweenTurns, IInv, TypeOK, Pending, Position, InTable
<1>. QED
  BY <1>1, <1>2

\* hashDestroy leaves an empty table and frees every socket.
LEMMA DestroyInv ==
    ASSUME IInv, hashDestroy
    PROVE  IInv'
<1>1. \A s \in SocketRef : key[s] = Null \/ \E i \in Row : map.table[i] = s
  BY Placed DEF IInv, UsedRows
<1>2. key' = [s \in SocketRef |-> Null]
  BY <1>1 DEF hashDestroy
<1>3. createHashMap \in HashMap /\ \A i \in Row : createHashMap.table[i] = Null
  BY DEF createHashMap, HashMap
<1>4. UsedRows(createHashMap) = {}
  BY <1>3 DEF UsedRows
<1>5. Consistent(createHashMap)
  BY <1>4, FS_EmptySet DEF Consistent, createHashMap
<1>6. TableInv(map', key')
  BY <1>2, <1>3, <1>4, <1>5 DEF TableInv, hashDestroy
<1>7. current' = Null
  BY DEF hashDestroy, IInv, Position
<1>. QED
  <2>1. TypeOK'
    <3>1. map' \in HashMap /\ key' \in [SocketRef -> Key \union {Null}]
      BY <1>6 DEF TableInv
    <3>. QED
      BY <1>7, <3>1 DEF hashDestroy, IInv, TypeOK
  <2>2. Pending' /\ Position'
    BY <1>7 DEF hashDestroy, Pending, Position
  <2>. QED
    BY <1>6, <2>1, <2>2 DEF IInv, TableInv

\* hashMapGetNext keeps the position: what is between the old and the new row
\* is empty.
LEMMA AdvanceInv ==
    ASSUME NEW ids, TableInv(map, ids), Position, current # Null, visited \subseteq SocketRef,
           Advance, UNCHANGED running
    PROVE  /\ TableInv(map', ids)
           /\ Position' /\ current' \in SocketRef \union {Null} /\ visited' \subseteq SocketRef
           /\ map'.table = map.table
           /\ current' = Null => InTable \subseteq visited
<1>. DEFINE n == map'.iterator_index
            m == map.iterator_index
<1>1. /\ map \in HashMap /\ map.table = map.socket_id
      /\ map.table \in [Row -> SocketRef \union {Null}]
      /\ m \in Row /\ visited = {map.table[i] : i \in 0 .. m} \ {Null}
      /\ map' = hashMapGetNext(map) /\ current' = NextId(map)
      /\ visited' = IF NextId(map) = Null THEN visited ELSE visited \union {NextId(map)}
  BY DEF TableInv, Consistent, HashMap, Position, Advance
<1>2. /\ map' \in HashMap /\ map'.table = map.table /\ map'.socket_id = map.socket_id
      /\ map'.number_of_sockets = map.number_of_sockets
  BY <1>1, NextRow
<1>3. TableInv(map', ids)
  BY <1>2, SameRows
<1>4. CASE NextId(map) = Null
  <2>1. \A i \in Row : m < i => map.table[i] = Null
    BY <1>1, <1>4, NextRow
  <2>2. InTable \subseteq visited
    BY <1>1, <2>1, TableAssumption DEF InTable, Row
  <2>. QED
    BY <1>1, <1>2, <1>3, <1>4, <2>2 DEF Position
<1>5. CASE NextId(map) # Null
  <2>1. /\ n \in Row /\ map.table[n] = NextId(map) /\ m < n
        /\ \A i \in Row : m < i /\ i < n => map.table[i] = Null
    BY <1>1, <1>5, NextRow
  <2>. HIDE DEF n, m
  <2>2. NextId(map) \in SocketRef
    BY <1>1, <1>5, <2>1
  <2>3. /\ 0 .. m \subseteq 0 .. n /\ 0 .. n \subseteq Row
        /\ \A i \in 0 .. n : i \in 0 .. m \/ i = n \/ (m < i /\ i < n)
    BY <1>1, <2>1, TableAssumption DEF Row
  <2>4. {map.table[i] : i \in 0 .. n} \ {Null}
            = ({map.table[i] : i \in 0 .. m} \ {Null}) \union {map.table[n]}
    <3>1. n \in 0 .. n /\ map.table[n] # Null
      BY <1>5, <2>1, TableAssumption DEF Row
    <3>. QED
      BY <2>1, <2>3, <3>1
  <2>5. visited' = {map'.table[i] : i \in 0 .. n} \ {Null}
    BY <1>1, <1>2, <1>5, <2>1, <2>4
  <2>6. running
    BY DEF Position
  <2>. QED
    BY <1>1, <1>2, <1>3, <1>5, <2>1, <2>2, <2>5, <2>6 DEF Position, n
<1>. QED
  BY <1>4, <1>5

LEMMA StartInv ==
    ASSUME IInv, StartTurn PROVE IInv'
<1>. DEFINE n == map'.iterator_index
<1>1. /\ map \in HashMap /\ map.table = map.socket_id /\ TableInv(map, key)
      /\ map.table \in [Row -> SocketRef \union {Null}]
      /\ running /\ map' = hashMapGetFirst(map) /\ current' = FirstId(map)
      /\ current' # Null /\ visited' = {FirstId(map)}
  BY DEF IInv, TableInv, Consistent, HashMap, StartTurn, BetweenTurns
<1>2. /\ map' \in HashMap /\ map'.table = map.table /\ map'.socket_id = map.socket_id
      /\ map'.number_of_sockets = map.number_of_sockets
      /\ n \in Row /\ map.table[n] = FirstId(map)
      /\ \A i \in Row : i < n => map.table[i] = Null
  BY <1>1, FirstRow
<1>3. TableInv(map', key)
  BY <1>1, <1>2, SameRows
<1>4. current' \in SocketRef
  BY <1>1, <1>2
<1>. HIDE DEF n
<1>5. visited' = {map'.table[i] : i \in 0 .. n} \ {Null}
  <2>1. n \in 0 .. n /\ 0 .. n \subseteq Row /\ \A i \in 0 .. n : i = n \/ i < n
    BY <1>2, TableAssumption DEF Row
  <2>. QED
    BY <1>1, <1>2, <2>1
<1>6. Position'
  BY <1>1, <1>2, <1>5 DEF Position, n, StartTurn
<1>7. UNCHANGED <<key, syn_sent, running, inserted, requests>> /\ InTable' = InTable
  BY <1>2 DEF StartTurn, InTable
<1>8. Pending'
  BY <1>7 DEF IInv, Pending
<1>9. TypeOK'
  BY <1>1, <1>2, <1>4, <1>7 DEF IInv, TypeOK
<1>. QED
  BY <1>3, <1>6, <1>7, <1>8, <1>9 DEF IInv

LEMMA LeaveAloneInv ==
    ASSUME IInv, LeaveAlone PROVE IInv'
<1>1. /\ TableInv(map, key) /\ Position /\ current # Null /\ visited \subseteq SocketRef
      /\ Advance /\ UNCHANGED <<key, syn_sent, running, inserted, requests>>
  BY DEF IInv, TypeOK, LeaveAlone
<1>2. /\ TableInv(map', key) /\ map'.table = map.table
      /\ Position' /\ current' \in SocketRef \union {Null} /\ visited' \subseteq SocketRef
  BY <1>1, AdvanceInv
<1>3. InTable' = InTable
  BY <1>2 DEF InTable
<1>4. Pending'
  BY <1>1, <1>3 DEF IInv, Pending
<1>5. TypeOK'
  BY <1>1, <1>2 DEF IInv, TypeOK, TableInv
<1>. QED
  BY <1>1, <1>2, <1>4, <1>5 DEF IInv

\* CloseSynSent is a change of key to one that Pending says is not in use.
LEMMA CloseEffect ==
    ASSUME IInv, CloseSynSent
    PROVE  LET k == Bound(key[current].port) IN
           /\ current \in SocketRef /\ key[current] \in Key /\ k \in Key
           /\ key' = [key EXCEPT ![current] = k]
           /\ \A i \in UsedRows(map) : key[map.table[i]] # k
           /\ TableInv(map, key')
<1>. DEFINE k == Bound(key[current].port)
<1>1. current \in SocketRef /\ current \in syn_sent /\ key[current] \in Key
  BY DEF IInv, TypeOK, Pending, CloseSynSent
<1>2. [key[current] EXCEPT !.dst = NoDst] = k /\ k \in Key
  BY <1>1, Keys DEF Key, Bound
<1>3. key' = [key EXCEPT ![current] = k]
  BY <1>2 DEF CloseSynSent
<1>4. \A i \in UsedRows(map) : key[map.table[i]] # k
  BY <1>1 DEF UsedRows, IInv, Pending, InTable
<1>5. TableInv(map, [key EXCEPT ![current] = k])
  BY <1>1, <1>2, <1>4, Rename, TableAssumption DEF IInv
<1>. QED
  BY <1>1, <1>2, <1>3, <1>4, <1>5

LEMMA CloseInv ==
    ASSUME IInv, CloseSynSent PROVE IInv'
<1>. DEFINE k == Bound(key[current].port)
<1>1. /\ current \in SocketRef /\ current \in syn_sent /\ key[current] \in Key /\ k \in Key
      /\ key' = [key EXCEPT ![current] = k] /\ TableInv(map, key')
  BY CloseEffect DEF CloseSynSent
<1>2. /\ Position /\ current # Null /\ visited \subseteq SocketRef /\ Advance
      /\ syn_sent' = syn_sent \ {current} /\ UNCHANGED <<running, inserted, requests>>
  BY <1>1, TableAssumption DEF IInv, TypeOK, CloseSynSent
<1>3. /\ TableInv(map', key') /\ map'.table = map.table
      /\ Position' /\ current' \in SocketRef \union {Null} /\ visited' \subseteq SocketRef
  BY <1>1, <1>2, AdvanceInv
<1>4. InTable' = InTable
  BY <1>3 DEF InTable
<1>5. key'[current] = k /\ \A t \in SocketRef : t # current => key'[t] = key[t]
  BY <1>1 DEF IInv, TypeOK
<1>6. \A t \in syn_sent' : /\ t \in syn_sent /\ t \in SocketRef /\ t # current
                           /\ key'[t] = key[t] /\ key[t] \in Key
                           /\ key[t].port # key[current].port
  BY <1>1, <1>2, <1>5 DEF IInv, TypeOK, Pending
<1>7. ASSUME NEW t \in syn_sent', NEW u \in InTable' PROVE key'[u] # Bound(key'[t].port)
  <2>1. CASE u = current
    BY <1>1, <1>5, <1>6, <2>1, Keys
  <2>2. CASE u # current
    <3>1. u \in InTable /\ u \in SocketRef
      BY <1>4 DEF IInv, TableInv, InTable
    <3>. QED
      BY <1>5, <1>6, <2>2, <3>1 DEF IInv, Pending
  <2>. QED
    BY <2>1, <2>2
<1>8. Pending'
  BY <1>6, <1>7, TableAssumption DEF IInv, Pending
<1>9. TypeOK'
  BY <1>1, <1>2, <1>3 DEF IInv, TypeOK, TableInv
<1>. QED
  BY <1>3, <1>8, <1>9 DEF IInv, TableInv

LEMMA RemoveInv ==
    ASSUME IInv, RemoveSocket PROVE IInv'
<1>1. /\ current \in SocketRef /\ key[current] # Null /\ TableInv(map, key)
      /\ current \notin syn_sent /\ current' = Null
      /\ map' = hashmapRemove(map, key, key[current])
      /\ key' = [key EXCEPT ![current] = Null]
      /\ UNCHANGED <<syn_sent, running, inserted, visited, requests>>
  <2>1. current \in InTable
    BY DEF IInv, Position, TableInv, Consistent, InTable, RemoveSocket
  <2>. QED
    BY <2>1 DEF IInv, TableInv, InTable, RemoveSocket, BreakIteration
<1>2. TableInv(map', key')
  BY <1>1, RemoveOld
<1>3. key'[current] = Null /\ \A t \in SocketRef : t # current => key'[t] = key[t]
  BY <1>1 DEF TableInv
<1>4. InTable' \subseteq InTable \ {current}
  BY <1>1, <1>2, <1>3 DEF TableInv, InTable
<1>5. \A t \in syn_sent : t \in SocketRef /\ key'[t] = key[t]
  BY <1>1, <1>3 DEF IInv, TypeOK
<1>6. \A u \in InTable' : u \in InTable /\ key'[u] = key[u]
  BY <1>1, <1>3, <1>4 DEF TableInv, InTable
<1>7. Pending'
  BY <1>1, <1>5, <1>6 DEF IInv, Pending
<1>8. TypeOK'
  BY <1>1, <1>2 DEF IInv, TypeOK, TableInv
<1>9. Position'
  BY <1>1 DEF Position
<1>. QED
  BY <1>2, <1>7, <1>8, <1>9 DEF IInv, TableInv

\* The socket that connects comes back into the row it left or an earlier free
\* one: insertSocket does not refuse it.
LEMMA ConnectEffect ==
    ASSUME IInv, NEW d \in Dst, ConnectSocket(d)
    PROVE  LET k == [port |-> key[current].port, dst |-> d] IN
           /\ current \in SocketRef /\ key[current] \in Key /\ k \in Key
           /\ key[current] = Bound(key[current].port)
           /\ \A i \in UsedRows(map) : key[map.table[i]] # k
           /\ key' = [key EXCEPT ![current] = k]
           /\ TableInv(map', key')
           /\ inserted' = TRUE
           /\ syn_sent' = syn_sent \union {current}
<1>. DEFINE k == [port |-> key[current].port, dst |-> d]
            ids == [key EXCEPT ![current] = k]
            removed == hashmapRemove(map, key, key[current])
            none == [key EXCEPT ![current] = Null]
<1>0. /\ TableInv(map, key) /\ map \in HashMap
      /\ key \in [SocketRef -> Key \union {Null}]
  BY DEF IInv, TableInv
<1>1. PICK i \in UsedRows(map) : map.table[i] = current
  BY DEF IInv, Position, ConnectSocket, TableInv, Consistent, UsedRows
<1>2. current \in SocketRef /\ key[current] \in Key
  BY <1>0, <1>1, Placed
<1>3. /\ k \in Key /\ key[current] = Bound(key[current].port)
      /\ [key[current] EXCEPT !.dst = d] = k
  BY <1>2, Keys DEF Key, ConnectSocket
<1>4. \A a \in UsedRows(map) : key[map.table[a]] # k
  <2>1. getSocket(map, key, k) = Null
    BY <1>3 DEF ConnectSocket
  <2>. QED
    BY <1>0, <2>1, Lookup
<1>. HIDE DEF k
<1>5. TableInv(removed, none) /\ none[current] = Null
  BY <1>0, <1>2, RemoveOld, TableAssumption
<1>6. /\ removed.table = [map.table EXCEPT ![i] = Null] /\ Consistent(removed)
      /\ removed \in HashMap
      /\ FreeRows(removed) # {} /\ removed.number_of_sockets # HASH_MAP_DEFAULT_SIZE
  BY <1>0, <1>1, RemoveEffect
<1>7. [none EXCEPT ![current] = k] = ids /\ ids[current] = k
  BY <1>0, <1>2
<1>8. ~hasKey(removed, ids, k)
  <2>1. ASSUME NEW a \in Row, removed.socket_id[a] # Null PROVE ids[removed.socket_id[a]] # k
    <3>1. a \in UsedRows(map) /\ removed.socket_id[a] = map.table[a] /\ a # i
      BY <1>0, <1>1, <1>6, <2>1 DEF Consistent, HashMap, UsedRows
    <3>2. map.table[a] # current /\ map.table[a] \in SocketRef
      BY <1>0, <1>1, <3>1, Placed DEF TableInv, Consistent
    <3>. QED
      BY <1>0, <1>4, <3>1, <3>2
  <2>. QED
    BY <2>1 DEF hasKey
<1>9. CanInsert(removed, ids, current)
  BY <1>6, <1>7, <1>8 DEF CanInsert
<1>10. /\ map' = insertSocket(removed, ids, current) /\ key' = ids /\ inserted' = TRUE
       /\ syn_sent' = syn_sent \union {current}
  BY <1>3, <1>9 DEF ConnectSocket, CanInsert
<1>. HIDE DEF none, removed
<1>11. TableInv(map', key')
  <2>1. CanInsert(removed, [none EXCEPT ![current] = k], current)
    BY <1>7, <1>9
  <2>2. TableInv(insertSocket(removed, [none EXCEPT ![current] = k], current),
                 [none EXCEPT ![current] = k])
    BY <1>2, <1>3, <1>5, <2>1, InsertNew DEF k
  <2>. QED
    BY <1>7, <1>10, <2>2
<1>. QED
  BY <1>2, <1>3, <1>4, <1>10, <1>11 DEF k

LEMMA ConnectInv ==
    ASSUME IInv, NEW d \in Dst, ConnectSocket(d) PROVE IInv'
<1>. DEFINE k == [port |-> key[current].port, dst |-> d]
<1>1. /\ current \in SocketRef /\ key[current] \in Key /\ k \in Key
      /\ key[current] = Bound(key[current].port)
      /\ key' = [key EXCEPT ![current] = k] /\ TableInv(map', key') /\ inserted' = TRUE
      /\ syn_sent' = syn_sent \union {current}
      /\ current' = Null /\ UNCHANGED <<running, visited, requests>>
  BY ConnectEffect DEF ConnectSocket, BreakIteration
<1>2. /\ TypeOK /\ Pending /\ TableInv(map, key) /\ current \in InTable
      /\ key'[current] = k /\ \A t \in SocketRef : t # current => key'[t] = key[t]
  BY <1>1, TableAssumption DEF IInv, TableInv, InTable
<1>3. InTable' = InTable
  BY <1>1, <1>2, TableAssumption DEF TableInv, InTable
<1>4. \A t \in syn_sent : /\ t \in SocketRef /\ key[t] \in Key
                          /\ key[t].port # key[current].port
                          /\ t # current /\ key'[t] = key[t]
  <2>1. \A t \in syn_sent : t \in SocketRef /\ key[t] \in Key /\ key[current] # Bound(key[t].port)
    BY <1>2 DEF TypeOK, Pending
  <2>. QED
    BY <1>1, <1>2, <2>1
<1>5. \A t \in syn_sent' : /\ key'[t].port \in Port /\ key'[t] # Null
                           /\ key'[t].port = key[t].port
                           /\ t = current \/ t \in syn_sent
  BY <1>1, <1>2, <1>4, Keys, TableAssumption
<1>6. ASSUME NEW t \in syn_sent', NEW u \in InTable' PROVE key'[u] # Bound(key'[t].port)
  <2>1. CASE u = current
    BY <1>1, <1>2, <1>5, <2>1, Keys
  <2>2. ASSUME u # current PROVE key'[u] = key[u] /\ u \in SocketRef /\ u \in InTable
    BY <1>2, <1>3, <2>2 DEF TableInv, InTable
  <2>3. CASE u # current /\ t = current
    <3>1. key[u] # key[current]
      BY <1>2, <2>2, <2>3 DEF TableInv, InTable, UsedRows
    <3>. QED
      BY <1>1, <1>5, <2>2, <2>3, <3>1
  <2>4. CASE u # current /\ t \in syn_sent
    BY <1>2, <1>5, <2>2, <2>4 DEF Pending
  <2>. QED
    BY <1>5, <2>1, <2>3, <2>4
<1>7. \A t, u \in syn_sent' : t # u => key'[t].port # key'[u].port
  BY <1>2, <1>4, <1>5 DEF Pending
<1>8. Pending'
  BY <1>5, <1>6, <1>7 DEF Pending
<1>9. TypeOK' /\ Position'
  BY <1>1, <1>2 DEF TypeOK, TableInv, Position
<1>. QED
  BY <1>1, <1>8, <1>9 DEF IInv, TableInv

----------------------------------------------------------------------------
(* Theorems.                                                               *)

\* Every step of the program preserves the invariant.
LEMMA StepInv == IInv /\ [Next]_vars => IInv'
<1>. SUFFICES ASSUME IInv, [Next]_vars PROVE IInv'
  OBVIOUS
<1>1. CASE LoopStep
  BY <1>1, StartInv, LeaveAloneInv, CloseInv, RemoveInv, ConnectInv DEF LoopStep
<1>2. CASE LeaveLoop \/ \E s \in SocketRef : LeaveSynSent(s)
  BY <1>2, OutsideInv
<1>3. CASE hashDestroy
  BY <1>3, DestroyInv
<1>4. ASSUME NEW s \in SocketRef, NEW p \in Port,
             handle_bind_request(s, p) \/ \E d \in Dst : handle_packet_listen(s, p, d)
      PROVE  IInv'
  BY <1>4, BindInv, ListenInv
<1>5. CASE UNCHANGED vars
  BY <1>5 DEF vars, IInv, TypeOK, TableInv, Pending, Position, InTable
<1>. QED
  BY <1>1, <1>2, <1>3, <1>4, <1>5 DEF Next

\* The invariant the run checks holds for tables of every size.
THEOREM Invariance == Spec => []Inv
<1>1. IInv => Inv
  BY InvForms
<1>. QED
  BY InitInv, StepInv, <1>1, PTL DEF Spec

\* The two arrays and the counter of Hashmap.c agree after every sequence of
\* insertSocket, hashmapRemove and changes of ids in place.
THEOREM TableIsConsistent == Spec => []TableConsistent
<1>1. Inv => TableConsistent
  BY DEF Inv
<1>. QED
  BY Invariance, <1>1, PTL

\* No handler leaks a socket, and no row of the table points to freed memory.
THEOREM NothingLeaks == Spec => []NoLeak
<1>1. Inv => NoLeak
  BY DEF Inv
<1>. QED
  BY Invariance, <1>1, PTL

\* getSocket finds, for the id the iterator points to, the socket the loop is
\* at, although handlers insert, remove and rename during the turn.
THEOREM LoopIsAtItsSocket == Spec => []LoopFindsItsSocket
<1>1. Inv => LoopFindsItsSocket
  BY DEF Inv
<1>. QED
  BY Invariance, <1>1, PTL

\* HASH_MAP_FOREACH leaves out a socket only when a handler broke it off.
THEOREM TurnIsComplete == Spec => TurnLeavesNobodyOut
<1>. DEFINE Complete ==
        current # Null /\ current' = Null /\ map'.table = map.table /\ key' = key
            => InTable \subseteq visited
<1>1. IInv /\ [Next]_vars => [Complete]_vars
  <2>. SUFFICES ASSUME IInv, Next, current # Null, current' = Null, key' = key
                PROVE  InTable \subseteq visited
    OBVIOUS
  <2>1. TableInv(map, key) /\ Position /\ visited \subseteq SocketRef /\ running
    BY DEF IInv, TypeOK, Position
  <2>2. CASE LeaveAlone
    BY <2>1, <2>2, AdvanceInv DEF LeaveAlone
  <2>3. CASE CloseSynSent
    <3>1. Advance /\ UNCHANGED running
      BY <2>3 DEF CloseSynSent
    <3>. QED
      BY <2>1, <3>1, AdvanceInv
  <2>4. CASE RemoveSocket
    <3>1. current \in InTable /\ current \in SocketRef
      BY <2>1 DEF Position, TableInv, Consistent, InTable, IInv, TypeOK
    <3>. QED
      BY <2>1, <2>4, <3>1 DEF RemoveSocket, TableInv, InTable
  <2>5. ASSUME NEW d \in Dst, ConnectSocket(d) PROVE FALSE
    <3>1. /\ current \in SocketRef /\ key[current] = Bound(key[current].port)
          /\ key' = [key EXCEPT ![current] = [port |-> key[current].port, dst |-> d]]
      BY <2>5, ConnectEffect
    <3>2. key'[current] = [port |-> key[current].port, dst |-> d]
      BY <2>1, <3>1 DEF TableInv
    <3>. QED
      BY <3>1, <3>2, TableAssumption DEF Bound
  <2>6. ASSUME ~LoopStep PROVE FALSE
    BY <2>1, <2>6 DEF Next, LeaveLoop, hashDestroy, LeaveSynSent, BetweenTurns,
                      handle_bind_request, handle_packet_listen
  <2>7. ~StartTurn
    BY DEF StartTurn, BetweenTurns
  <2>. QED
    BY <2>2, <2>3, <2>4, <2>5, <2>6, <2>7 DEF LoopStep
<1>. QED
  BY InitInv, StepInv, <1>1, PTL DEF Spec, TurnLeavesNobodyOut

(* The table implements SocketMap.                                         *)

LEMMA SameCardinality == \A S : Map!Cardinality(S) = Cardinality(S)
  BY DEF Map!Cardinality, Cardinality

\* The rows in use and the sockets in the map are the same number, so that the
\* map is full exactly when the table is.
LEMMA SameSize ==
    ASSUME TableInv(map, key)
    PROVE  /\ Map!Full <=> map.number_of_sockets = HASH_MAP_DEFAULT_SIZE
           /\ FreeRows(map) = {} => map.number_of_sockets = HASH_MAP_DEFAULT_SIZE
<1>. DEFINE f == [i \in UsedRows(map) |-> map.table[i]]
<1>1. /\ Map!Present = {s \in SocketRef : key[s] # Null}
      /\ Map!Present = {map.table[i] : i \in Row} \ {Null}
  BY DEF Map!Present, TableInv
<1>2. \A i \in UsedRows(map) : map.table[i] \in Map!Present
  BY <1>1 DEF UsedRows
<1>3. \A s \in Map!Present : \E i \in UsedRows(map) : map.table[i] = s
  BY <1>1 DEF UsedRows
<1>4. f \in Bijection(UsedRows(map), Map!Present)
  <2>1. f \in [UsedRows(map) -> Map!Present]
    BY <1>2
  <2>2. \A i, j \in UsedRows(map) : f[i] = f[j] => i = j
    BY DEF TableInv, Consistent
  <2>3. \A s \in Map!Present : \E i \in UsedRows(map) : f[i] = s
    BY <1>3
  <2>. HIDE DEF f
  <2>. QED
    BY <2>1, <2>2, <2>3 DEF Bijection, Injection, Surjection, IsInjective
<1>5. Cardinality(Map!Present) = Cardinality(UsedRows(map))
  <2>1. ExistsBijection(UsedRows(map), Map!Present)
    BY <1>4 DEF ExistsBijection
  <2>. QED
    BY <2>1, RowsFinite, FS_Bijection
<1>6. ASSUME FreeRows(map) = {} PROVE UsedRows(map) = Row
  BY <1>6 DEF FreeRows, UsedRows
<1>. QED
  BY <1>5, <1>6, RowsFinite, SameCardinality DEF Map!Full, TableInv, Consistent

\* insertSocket answers what the map answers.
LEMMA OfferIsInsert ==
    ASSUME TableInv(map, key), NEW s \in SocketRef, NEW k \in Key, Offer(s, k)
    PROVE  Map!Insert(s, k)
<1>. DEFINE ids == [key EXCEPT ![s] = k]
<1>1. key[s] = Null /\ ids[s] = k /\ \A u \in SocketRef : u # s => ids[u] = key[u]
  BY DEF Offer, TableInv
<1>2. \A i \in UsedRows(map) : map.table[i] \in SocketRef /\ ids[map.table[i]] = key[map.table[i]]
  BY <1>1, Placed DEF UsedRows
<1>. HIDE DEF ids
<1>3. hasKey(map, ids, k) <=> k \in Map!KeysUsed
  <2>1. hasKey(map, ids, k) <=> \E i \in UsedRows(map) : key[map.table[i]] = k
    BY <1>2 DEF hasKey, UsedRows, TableInv, Consistent
  <2>2. k \in Map!KeysUsed <=> \E u \in SocketRef : key[u] # Null /\ key[u] = k
    BY DEF Map!KeysUsed, Map!Present
  <2>3. ASSUME NEW u \in SocketRef, key[u] # Null, key[u] = k
        PROVE  \E i \in UsedRows(map) : key[map.table[i]] = k
    BY <2>3, Placed
  <2>4. ASSUME NEW i \in UsedRows(map), key[map.table[i]] = k
        PROVE  \E u \in SocketRef : key[u] # Null /\ key[u] = k
    BY <2>4, Placed, TableAssumption
  <2>. QED
    BY <2>1, <2>2, <2>3, <2>4
<1>4. CanInsert(map, ids, s) <=> k \notin Map!KeysUsed /\ ~Map!Full
  BY <1>1, <1>3, SameSize DEF CanInsert
<1>5. inserted' = CanInsert(map, ids, s) /\ key' = IF CanInsert(map, ids, s) THEN ids ELSE key
  BY DEF Offer, ids
<1>6. CanInsert(map, ids, s) = (k \notin Map!KeysUsed /\ ~Map!Full)
  BY <1>4 DEF CanInsert
<1>. QED
  BY <1>1, <1>5, <1>6 DEF Map!Insert, ids

\* A change of key, by leaving the table and coming back or in place.
LEMMA ChangeIsRekey ==
    ASSUME TableInv(map, key), NEW s \in SocketRef, key[s] # Null, NEW k \in Key,
           \A i \in UsedRows(map) : key[map.table[i]] # k,
           key' = [key EXCEPT ![s] = k], inserted' \in {inserted, TRUE}
    PROVE  Map!Rekey(s, k)
<1>1. ASSUME k \in Map!KeysUsed PROVE FALSE
  <2>1. PICK u \in SocketRef : key[u] # Null /\ key[u] = k
    BY <1>1 DEF Map!KeysUsed, Map!Present
  <2>. QED
    BY <2>1, Placed
<1>. QED
  BY <1>1 DEF Map!Rekey

\* Every step of the table and of its users is a step of the map.
LEMMA StepOfMap ==
    ASSUME IInv, [Next]_vars PROVE [Map!Next]_(Map!vars)
<1>1. TableInv(map, key) /\ TypeOK
  BY DEF IInv
<1>2. ASSUME NEW s \in SocketRef, NEW p \in Port, handle_bind_request(s, p) PROVE Map!Next
  <2>1. Map!Insert(s, Bound(p))
    BY <1>1, <1>2, Keys, OfferIsInsert DEF handle_bind_request
  <2>. QED
    BY <2>1, Keys DEF Map!Next
<1>3. ASSUME NEW s \in SocketRef, NEW p \in Port, NEW d \in Dst, handle_packet_listen(s, p, d)
      PROVE  Map!Next
  <2>1. Map!Insert(s, [port |-> p, dst |-> d])
    BY <1>1, <1>3, Keys, OfferIsInsert DEF handle_packet_listen
  <2>. QED
    BY <2>1, Keys DEF Map!Next
<1>4. ASSUME NEW d \in Dst, ConnectSocket(d) PROVE Map!Next
  <2>. DEFINE k == [port |-> key[current].port, dst |-> d]
  <2>1. Map!Rekey(current, k)
    BY <1>1, <1>4, ConnectEffect, ChangeIsRekey, TableAssumption
  <2>. QED
    BY <1>4, <2>1, ConnectEffect DEF Map!Next
<1>5. ASSUME CloseSynSent PROVE Map!Next
  <2>1. Map!Rekey(current, Bound(key[current].port))
    BY <1>1, <1>5, CloseEffect, ChangeIsRekey, TableAssumption DEF CloseSynSent
  <2>. QED
    BY <1>5, <2>1, CloseEffect DEF Map!Next
<1>6. ASSUME RemoveSocket PROVE Map!Next
  <2>1. current \in SocketRef /\ key[current] # Null
    BY <1>6, TableAssumption DEF IInv, Position, TableInv, Consistent, InTable, TypeOK, RemoveSocket
  <2>2. Map!Remove(current)
    BY <1>6, <2>1 DEF Map!Remove, RemoveSocket
  <2>. QED
    BY <2>1, <2>2 DEF Map!Next
<1>7. ASSUME hashDestroy PROVE Map!Next
  <2>1. \A s \in SocketRef : key[s] = Null \/ \E i \in Row : map.table[i] = s
    BY <1>1, Placed DEF UsedRows
  <2>2. key' = [s \in SocketRef |-> Null] /\ UNCHANGED inserted
    BY <1>7, <2>1 DEF hashDestroy
  <2>. QED
    BY <2>2 DEF Map!Next, Map!Clear
<1>8. ASSUME UNCHANGED <<key, inserted>> PROVE UNCHANGED Map!vars
  BY <1>8 DEF Map!vars
<1>9. ASSUME \/ StartTurn \/ LeaveAlone \/ LeaveLoop \/ UNCHANGED vars
             \/ \E s \in SocketRef : LeaveSynSent(s)
      PROVE  UNCHANGED <<key, inserted>>
  BY <1>9 DEF StartTurn, LeaveAlone, LeaveLoop, vars, LeaveSynSent
<1>. QED
  BY <1>2, <1>3, <1>4, <1>5, <1>6, <1>7, <1>8, <1>9 DEF Next, LoopStep

\* The flat table with its counter and its iterator implements a bounded map:
\* an insertion is refused exactly when the key is in use or the table full.
THEOREM TableImplementsMap == Spec => ImplementsSocketMap
<1>1. Init => Map!Init
  BY DEF Init, Map!Init
<1>2. IInv /\ [Next]_vars => [Map!Next]_(Map!vars)
  BY StepOfMap
<1>. QED
  BY InitInv, StepInv, <1>1, <1>2, PTL DEF Spec, ImplementsSocketMap
=============================================================================
