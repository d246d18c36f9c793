---------------------------- MODULE ModbusProofs ----------------------------
(***************************************************************************)
(* Proofs about a slave of any table sizes, rings and times, and a master  *)
(* that sends any number of requests.                                      *)
(***************************************************************************)
EXTENDS Modbus, TLAPS, FiniteSetTheorems

-----------------------------------------------------------------------------
(* What the loop of the multiple writes leaves behind, for a request of    *)
(* any quantity and a table of any size.  The loop is a fold; a fold is a  *)
(* function on the sets of indices already done, and what it computes is   *)
(* proved on a smallest set for which it would be wrong.                   *)

(* The table with the registers of the indices in s written.               *)
Upto(r, table, s) ==
  [i \in DOMAIN table |-> IF \E j \in s : i = r.start + j - 1
                          THEN r.data[i - r.start + 1] ELSE table[i]]

-----------------------------------------------------------------------------
(* Of the subsets of a finite set with a property, one is smallest.        *)
LEMMA Smallest ==
  ASSUME NEW S, IsFiniteSet(S), NEW T, T \subseteq SUBSET S, T # {}
  PROVE  \E x \in T : \A y \in T : ~(y \subseteq x /\ y # x)
<1>1. IsWellFoundedOn(StrictSubsetOrdering(S), SUBSET S)
  <2>1. FiniteSubsetsOf(S) = SUBSET S
    BY FS_FiniteSubsetsOfFinite
  <2> QED BY <2>1, FS_StrictSubsetOrderingWellFounded
<1>2. \E x \in T : \A y \in T : <<y, x>> \notin StrictSubsetOrdering(S)
  BY <1>1, WFMin
<1> QED BY <1>2 DEF StrictSubsetOrdering

(* The indices of a request are finitely many.                             *)
LEMMA IntervalFinite ==
  ASSUME NEW q \in Nat
  PROVE  IsFiniteSet(1 .. q)
<1> QED BY FS_Interval

(* The index the fold takes next is one of those left.                     *)
LEMMA MaxIn ==
  ASSUME NEW q \in Nat, NEW s \in SUBSET (1 .. q), s # {}
  PROVE  Max(s) \in s
<1> DEFINE above(a) == {b \in s : b >= a}
<1>1. PICK T : T = {above(a) : a \in s}
  OBVIOUS
<1>2. T \subseteq SUBSET (1 .. q) /\ T # {}
  BY <1>1
<1>3. PICK u \in T : \A v \in T : ~(v \subseteq u /\ v # u)
  <2> DEFINE D == 1 .. q
  <2>1. IsFiniteSet(D)
    BY IntervalFinite
  <2>2. T \subseteq SUBSET D /\ T # {}
    BY <1>2
  <2> HIDE DEF D
  <2> QED BY <2>1, <2>2, Smallest
<1>4. PICK a \in s : u = above(a)
  BY <1>1
<1>5. ASSUME NEW b \in s
      PROVE  a >= b
  <2>1. a \in Nat /\ b \in Nat /\ a \in above(a)
    OBVIOUS
  <2>2. CASE b >= a
    <3>1. above(b) \subseteq above(a)
      <4>1. ASSUME NEW c \in s, c >= b
            PROVE  c >= a
        <5>1. c \in Nat
          OBVIOUS
        <5> QED BY <2>1, <2>2, <4>1, <5>1
      <4> QED BY <4>1
    <3>2. above(b) = above(a)
      BY <1>1, <1>3, <1>4, <3>1
    <3> QED BY <2>1, <3>2
  <2> QED BY <2>1, <2>2
<1> QED BY <1>5 DEF Max

(* One more index done.                                                    *)
LEMMA OneMore ==
  ASSUME NEW r, NEW table, NEW q \in Nat, r.start \in Nat,
         NEW s \in SUBSET (1 .. q), NEW x \in s
  PROVE  [Upto(r, table, s \ {x}) EXCEPT ![r.start + x - 1] = r.data[x]]
         = Upto(r, table, s)
<1> DEFINE start == r.start
           before == Upto(r, table, s \ {x})
           after  == [before EXCEPT ![start + x - 1] = r.data[x]]
<1>1. start \in Nat
  OBVIOUS
<1>2. DOMAIN after = DOMAIN table
  BY DEF Upto
<1>3. ASSUME NEW i \in DOMAIN table
      PROVE  after[i] = IF \E j \in s : i = start + j - 1
                        THEN r.data[i - start + 1] ELSE table[i]
  <2>1. before[i] = IF \E j \in s \ {x} : i = start + j - 1
                    THEN r.data[i - start + 1] ELSE table[i]
    BY DEF Upto
  <2>2. CASE i = start + x - 1
    <3>1. i - start + 1 = x
      BY <1>1, <2>2
    <3> QED BY <2>2, <3>1 DEF Upto
  <2>3. CASE i # start + x - 1
    <3>1. after[i] = before[i]
      BY <2>3 DEF Upto
    <3> QED BY <2>1, <2>3, <3>1
  <2> QED BY <2>2, <2>3
<1> QED BY <1>2, <1>3 DEF Upto

(* The loop writes the registers it is asked to and no others.             *)
THEOREM StoredTable ==
  ASSUME NEW r, NEW table, table = [i \in DOMAIN table |-> table[i]],
         NEW q \in Nat, r.qty = q, r.start \in Nat
  PROVE  Stored(r, table) = Upto(r, table, 1 .. q)
<1> DEFINE seq == [i \in 1 .. q |-> i]
           Fold(h) == h = [s \in SUBSET (DOMAIN seq) |->
                             IF s = {} THEN table
                             ELSE LET x == Max(s)
                                  IN  [h[s \ {x}] EXCEPT ![r.start + seq[x] - 1] =
                                         r.data[seq[x]]]]
           fold == CHOOSE h : Fold(h)
           good == [s \in SUBSET (1 .. q) |-> Upto(r, table, s)]
<1>1. Stored(r, table) = fold[DOMAIN seq]
  BY DEF Stored, FoldLeft, MapThenFoldSet
<1>2. \A s \in SUBSET (1 .. q) : s # {} =>
        Max(s) \in s /\ seq[Max(s)] = Max(s) /\ s \ {Max(s)} \in SUBSET (1 .. q)
  BY MaxIn
<1>3. Upto(r, table, {}) = table
  BY DEF Upto
<1>4. Fold(good)
  <2>1. ASSUME NEW s \in SUBSET (1 .. q), s # {}
        PROVE  Upto(r, table, s)
               = [good[s \ {Max(s)}] EXCEPT ![r.start + seq[Max(s)] - 1] =
                    r.data[seq[Max(s)]]]
    <3> DEFINE x == Max(s)
    <3>1. x \in s /\ seq[x] = x /\ s \ {x} \in SUBSET (1 .. q)
      BY <1>2, <2>1
    <3>2. good[s \ {x}] = Upto(r, table, s \ {x})
      BY <3>1
    <3> HIDE DEF x, good, seq
    <3>3. [Upto(r, table, s \ {x}) EXCEPT ![r.start + x - 1] = r.data[x]]
          = Upto(r, table, s)
      BY <3>1, OneMore
    <3> QED BY <3>1, <3>2, <3>3 DEF x
  <2> QED BY <1>3, <2>1
<1>5. Fold(fold)
  <2>1. \E h : Fold(h)
    BY <1>4
  <2> HIDE DEF Fold
  <2> QED BY <2>1
<1> HIDE DEF fold
<1>6. ASSUME NEW s \in SUBSET (1 .. q), fold[s] # Upto(r, table, s)
      PROVE  FALSE
  <2> DEFINE T == {u \in SUBSET (1 .. q) : fold[u] # Upto(r, table, u)}
  <2>1. PICK u \in T : \A v \in T : ~(v \subseteq u /\ v # u)
    <3>1. s \in T
      BY <1>6
    <3> DEFINE D == 1 .. q
    <3>2. IsFiniteSet(D)
      BY IntervalFinite
    <3>3. T \subseteq SUBSET D
      OBVIOUS
    <3> HIDE DEF D, T
    <3> QED BY <3>1, <3>2, <3>3, Smallest
  <2>2. u # {}
    BY <1>3, <1>5
  <2>3. fold[u \ {Max(u)}] = Upto(r, table, u \ {Max(u)})
    <3>1. u \ {Max(u)} \in SUBSET (1 .. q) /\ u \ {Max(u)} \subseteq u
          /\ u \ {Max(u)} # u
      BY <1>2, <2>2
    <3> QED BY <2>1, <3>1
  <2>4. fold[u] = [fold[u \ {Max(u)}] EXCEPT ![r.start + Max(u) - 1] = r.data[Max(u)]]
    BY <1>2, <1>5, <2>2
  <2> DEFINE x == Max(u)
  <2>5. x \in u /\ u \in SUBSET (1 .. q)
    BY <1>2, <2>2
  <2> HIDE DEF x
  <2>6. [Upto(r, table, u \ {x}) EXCEPT ![r.start + x - 1] = r.data[x]]
        = Upto(r, table, u)
    BY <2>5, OneMore
  <2>7. fold[u] = Upto(r, table, u)
    BY <2>3, <2>4, <2>6 DEF x
  <2> QED BY <2>7
<1> QED BY <1>1, <1>6

-----------------------------------------------------------------------------
(* A table of n entries, whatever is in them.                              *)
IsTable(t, n) == t = [i \in 0 .. n - 1 |-> t[i]]

Tabled ==
  /\ map = [coils |-> map.coils, discrete |-> map.discrete,
            holding |-> map.holding, inputs |-> map.inputs]
  /\ IsTable(map.coils, NumCoils) /\ IsTable(map.discrete, 0)
  /\ IsTable(map.holding, NumRegs) /\ IsTable(map.inputs, 1)

-----------------------------------------------------------------------------
LEMMA TableSize ==
  ASSUME NEW t, NEW n \in Nat, IsTable(t, n)
  PROVE  /\ DOMAIN t = 0 .. n - 1 /\ Size(t) = n
         /\ t = [i \in DOMAIN t |-> t[i]]
<1>1. DOMAIN t = 0 .. n - 1
  BY DEF IsTable
<1>2. 0 \in Int /\ n - 1 \in Int
  OBVIOUS
<1>3. Cardinality(0 .. n - 1) = n
  BY <1>2, FS_Interval
<1> QED BY <1>1, <1>3 DEF Size, IsTable

(* The sum of the handlers tells whether a range leaves the table.         *)
LEMMA BeyondTold ==
  ASSUME NEW t, NEW n \in Nat, IsTable(t, n), NEW r, NEW start \in Nat, NEW qty \in Nat \ {0},
         r.start = start, r.qty = qty
  PROVE  Beyond(r, t) <=> ~(start .. start + qty - 1 \subseteq DOMAIN t)
<1>1. DOMAIN t = 0 .. n - 1 /\ Size(t) = n
  BY TableSize
<1>2. start + qty - 1 \in start .. start + qty - 1
  OBVIOUS
<1>3. CASE start + qty > n
  <2>1. start + qty - 1 \notin 0 .. n - 1
    BY <1>3
  <2> QED BY <1>1, <1>2, <1>3, <2>1 DEF Beyond
<1>4. CASE ~(start + qty > n)
  <2>1. start .. start + qty - 1 \subseteq 0 .. n - 1
    BY <1>4
  <2> QED BY <1>1, <1>4, <2>1 DEF Beyond
<1> QED BY <1>3, <1>4

LEMMA RequestFields ==
  ASSUME NEW r \in Requests
  PROVE  /\ r.fc \in Nat /\ r.start \in Nat /\ r.qty \in Nat /\ r.value \in Nat
         /\ r.bytes \in Nat /\ r.len \in Nat
BY ModbusAssumption

(* What a handler and the register server say of one request.              *)
Refused(r, resp) == /\ r.fc \in Server!Reads \cup Server!Writes
                    /\ r.len \notin Server!Lengths(r) /\ resp = Dropped
Failed(r, resp)  == /\ ~Server!Sound(r)
                    /\ r.fc \in Server!Reads \cup Server!Writes =>
                         r.len \in Server!Lengths(r) \/ ~Server!Legal(r)
                    /\ resp \in [kind : {"exception"}, exc : {1, 2, 3}]
Done(r)          == Server!Sound(r) /\ r.len \in Server!Lengths(r)

LEMMA ReadAgrees ==
  ASSUME NEW r \in Requests, NEW t, NEW n \in Nat, IsTable(t, n), NEW limit, NEW bytes,
         r.fc \in Server!Reads, t = map[Server!Table(r)],
         limit = Server!Most(r), bytes = Server!Octets(r)
  PROVE  LET resp == HandleRead(r, t, limit, bytes)
         IN  \/ Refused(r, resp)
             \/ Failed(r, resp)
             \/ Done(r) /\ resp = Data([i \in 0 .. r.qty - 1 |-> t[r.start + i]])
<1> DEFINE resp == HandleRead(r, t, limit, bytes)
<1>0. /\ r.start \in Nat /\ r.qty \in Nat /\ limit \in Nat /\ bytes \in Nat /\ MaxAdu \in Nat
      /\ r.fc \in {1, 2, 3, 4}
  BY RequestFields, MaxAduAssumption DEF Server!Most, Server!Octets, Server!Reads
<1>1. Server!Lengths(r) = {8} /\ Server!Touched(r) = r.start .. r.start + r.qty - 1
  BY <1>0 DEF Server!Lengths, Server!Touched, Server!Singles
<1>2. Server!Legal(r) <=> r.qty # 0 /\ ~(r.qty > limit)
  BY <1>0 DEF Server!Legal, Server!Reads
<1>3. Server!Fits(r) <=> ~(bytes + 5 > MaxAdu)
  BY <1>0 DEF Server!Fits, Server!Reads
<1>4. r.qty # 0 => (Beyond(r, t) <=> ~(Server!Touched(r) \subseteq DOMAIN t))
  BY <1>0, <1>1, BeyondTold
<1>5. Server!Sound(r) <=>
        r.qty # 0 /\ ~(r.qty > limit) /\ ~(bytes + 5 > MaxAdu) /\ ~Beyond(r, t)
  BY <1>2, <1>3, <1>4 DEF Server!Sound
<1>6. CASE r.len # 8
  <2>1. resp = Dropped
    BY <1>6 DEF HandleRead
  <2> QED BY <1>1, <1>6, <2>1 DEF Refused
<1>7. CASE r.len = 8 /\ ~Server!Sound(r)
  <2>1. resp = Exception(IllegalValue) \/ resp = Exception(IllegalAddress)
    BY <1>5, <1>7 DEF HandleRead
  <2>2. resp \in [kind : {"exception"}, exc : {1, 2, 3}]
    BY <2>1 DEF Exception, IllegalValue, IllegalAddress
  <2> QED BY <1>1, <1>7, <2>2 DEF Failed
<1>8. CASE r.len = 8 /\ Server!Sound(r)
  <2>1. resp = Data([i \in 0 .. r.qty - 1 |-> t[r.start + i]])
    BY <1>5, <1>8 DEF HandleRead
  <2> QED BY <1>1, <1>8, <2>1 DEF Done
<1> QED BY <1>6, <1>7, <1>8

(* The table a write leaves, by the register server.                       *)
WrittenTable(r, t) ==
  [i \in DOMAIN t |-> IF i \in Server!Touched(r) THEN Server!Value(r, i) ELSE t[i]]

LEMMA MultipleAgrees ==
  ASSUME NEW r \in Requests, NEW t, NEW n \in Nat, IsTable(t, n), NEW limit, NEW bytes,
         r.fc \in {15, 16}, t = map[Server!Table(r)],
         limit = Server!Most(r), bytes = Server!Octets(r)
  PROVE  LET res == HandleWriteMultiple(r, t, limit, bytes)
         IN  \/ Refused(r, res.resp) /\ res.table = t
             \/ Failed(r, res.resp) /\ res.table = t
             \/ Done(r) /\ res.resp = Echo /\ res.table = WrittenTable(r, t)
<1> DEFINE res == HandleWriteMultiple(r, t, limit, bytes)
<1>0. /\ r.start \in Nat /\ r.qty \in Nat /\ limit \in Nat /\ bytes \in Nat
      /\ r.bytes \in Nat /\ r.len \in Nat
  BY RequestFields DEF Server!Most, Server!Octets
<1>1. /\ Server!Lengths(r) = {9 + r.bytes}
      /\ Server!Touched(r) = r.start .. r.start + r.qty - 1
      /\ r.fc \in Server!Writes /\ r.fc \notin Server!Reads
  BY DEF Server!Lengths, Server!Touched, Server!Singles, Server!Writes, Server!Reads
<1>2. Server!Legal(r) <=> r.qty # 0 /\ ~(r.qty > limit) /\ r.bytes = bytes
  BY <1>0 DEF Server!Legal, Server!Reads
<1>3. Server!Fits(r)
  BY <1>1 DEF Server!Fits
<1>4. r.qty # 0 => (Beyond(r, t) <=> ~(Server!Touched(r) \subseteq DOMAIN t))
  BY <1>0, <1>1, BeyondTold
<1>5. Server!Sound(r) <=>
        r.qty # 0 /\ ~(r.qty > limit) /\ r.bytes = bytes /\ ~Beyond(r, t)
  BY <1>1, <1>2, <1>3, <1>4 DEF Server!Sound
<1>6. r.len \in Server!Lengths(r) <=> 7 + r.bytes + 2 = r.len
  BY <1>0, <1>1
<1>7. CASE r.len < 9
  <2>1. res = Kept(t, Dropped)
    BY <1>7 DEF HandleWriteMultiple
  <2>2. r.len \notin Server!Lengths(r)
    BY <1>0, <1>6, <1>7
  <2> QED BY <1>1, <2>1, <2>2 DEF Refused, Kept
<1>8. CASE ~(r.len < 9) /\ ~Server!Legal(r)
  <2>1. res = Kept(t, Exception(IllegalValue))
    BY <1>2, <1>8 DEF HandleWriteMultiple
  <2>2. res.table = t /\ res.resp \in [kind : {"exception"}, exc : {1, 2, 3}]
    BY <2>1 DEF Kept, Exception, IllegalValue
  <2> QED BY <1>2, <1>5, <1>8, <2>2 DEF Failed
<1>9. CASE ~(r.len < 9) /\ Server!Legal(r) /\ 7 + r.bytes + 2 # r.len
  <2>1. res = Kept(t, Dropped)
    BY <1>2, <1>9 DEF HandleWriteMultiple
  <2> QED BY <1>1, <1>6, <1>9, <2>1 DEF Refused, Kept
<1>10. CASE /\ ~(r.len < 9) /\ Server!Legal(r) /\ 7 + r.bytes + 2 = r.len
            /\ Beyond(r, t)
  <2>1. res = Kept(t, Exception(IllegalAddress))
    BY <1>2, <1>10 DEF HandleWriteMultiple
  <2>2. res.table = t /\ res.resp \in [kind : {"exception"}, exc : {1, 2, 3}]
    BY <2>1 DEF Kept, Exception, IllegalAddress
  <2> QED BY <1>5, <1>6, <1>10, <2>2 DEF Failed
<1>11. CASE /\ ~(r.len < 9) /\ Server!Legal(r) /\ 7 + r.bytes + 2 = r.len
            /\ ~Beyond(r, t)
  <2>1. res = Kept(Stored(r, t), Echo)
    BY <1>2, <1>11 DEF HandleWriteMultiple
  <2>2. Stored(r, t) = Upto(r, t, 1 .. r.qty)
    BY <1>0, TableSize, StoredTable
  <2>3. Upto(r, t, 1 .. r.qty) = WrittenTable(r, t)
    <3>1. ASSUME NEW i \in DOMAIN t
          PROVE  (\E j \in 1 .. r.qty : i = r.start + j - 1) <=> i \in Server!Touched(r)
      <4>1. i \in Nat
        BY TableSize
      <4>2. i \in Server!Touched(r) => i - r.start + 1 \in 1 .. r.qty
                                       /\ i = r.start + (i - r.start + 1) - 1
        BY SMTT(20), <1>0, <1>1, <4>1
      <4> QED BY SMTT(20), <1>0, <1>1, <4>1, <4>2
    <3>2. \A i : Server!Value(r, i) = r.data[i - r.start + 1]
      BY DEF Server!Value
    <3> QED BY <3>1, <3>2 DEF Upto, WrittenTable
  <2> QED BY <1>2, <1>5, <1>6, <1>11, <2>1, <2>2, <2>3 DEF Done, Kept
<1> QED BY <1>7, <1>8, <1>9, <1>10, <1>11

LEMMA SingleAgrees ==
  ASSUME NEW r \in Requests, NEW t, NEW n \in Nat, IsTable(t, n), NEW res,
         t = map[Server!Table(r)],
         \/ r.fc = 5 /\ res = HandleWriteSingleCoil(r, t)
         \/ r.fc = 6 /\ res = HandleWriteSingleReg(r, t)
  PROVE  \/ Refused(r, res.resp) /\ res.table = t
         \/ Failed(r, res.resp) /\ res.table = t
         \/ Done(r) /\ res.resp = Echo /\ res.table = WrittenTable(r, t)
<1>0. r.start \in Nat /\ DOMAIN t = 0 .. n - 1 /\ Size(t) = n
  BY RequestFields, TableSize
<1>1. /\ Server!Lengths(r) = {8} /\ Server!Touched(r) = {r.start}
      /\ r.fc \in Server!Writes /\ r.fc \notin Server!Reads
  BY DEF Server!Lengths, Server!Touched, Server!Singles, Server!Writes, Server!Reads
<1>2. Server!Legal(r) <=> (r.fc = 5 => r.value \in {0, 65280})
  BY DEF Server!Legal, Server!Reads
<1>3. Server!Sound(r) <=> Server!Legal(r) /\ ~(r.start >= Size(t))
  BY <1>0, <1>1 DEF Server!Sound, Server!Fits
<1>4. CASE r.len # 8
  <2>1. res = Kept(t, Dropped)
    BY <1>4 DEF HandleWriteSingleCoil, HandleWriteSingleReg
  <2> QED BY <1>1, <1>4, <2>1 DEF Refused, Kept
<1>5. CASE r.len = 8 /\ ~Server!Sound(r)
  <2>1. res = Kept(t, Exception(IllegalValue)) \/ res = Kept(t, Exception(IllegalAddress))
    <3>1. CASE r.fc = 5
      BY <1>2, <1>3, <1>5, <3>1 DEF HandleWriteSingleCoil
    <3>2. CASE r.fc = 6
      BY <1>2, <1>3, <1>5, <3>2 DEF HandleWriteSingleReg
    <3> QED BY <3>1, <3>2
  <2>2. res.table = t /\ res.resp \in [kind : {"exception"}, exc : {1, 2, 3}]
    BY <2>1 DEF Kept, Exception, IllegalValue, IllegalAddress
  <2> QED BY <1>1, <1>5, <2>2 DEF Failed
<1>6. CASE r.len = 8 /\ Server!Sound(r)
  <2>1. res = Kept([t EXCEPT ![r.start] = Server!Value(r, r.start)], Echo)
    BY <1>2, <1>3, <1>6 DEF HandleWriteSingleCoil, HandleWriteSingleReg, Server!Value
  <2>2. [t EXCEPT ![r.start] = Server!Value(r, r.start)] = WrittenTable(r, t)
    <3>1. t = [i \in DOMAIN t |-> t[i]]
      BY TableSize
    <3> QED BY <1>1, <3>1 DEF WrittenTable
  <2> QED BY <1>1, <1>6, <2>1, <2>2 DEF Done, Kept
<1> QED BY <1>4, <1>5, <1>6

(* Every request gets from the handlers what the register server allows:   *)
(* none and no change, an exception and no change, or what it asks for.    *)
LEMMA HandleAgrees ==
  ASSUME Tabled, NEW r \in Requests
  PROVE  LET done == Handle(r, map)
         IN  \/ Refused(r, done.resp) /\ done.map = map
             \/ /\ done.resp # Dropped
                /\ r.fc \in Server!Reads \cup Server!Writes =>
                     r.len \in Server!Lengths(r) \/ ~Server!Legal(r)
                /\ done.map = IF Server!Sound(r) /\ r.fc \in Server!Writes
                              THEN Server!Performed(r) ELSE map
                /\ done.resp \in Server!Answers(r)
<1> DEFINE done == Handle(r, map)
<1>0. NumCoils \in Nat /\ NumRegs \in Nat
  BY ModbusAssumption
<1>1. CASE r.fc \in {1, 2, 3, 4}
  <2> DEFINE t == map[Server!Table(r)]
             resp == HandleRead(r, t, Server!Most(r), Server!Octets(r))
  <2>1. PICK n \in Nat : IsTable(t, n)
    BY <1>0, <1>1 DEF Tabled, Server!Table
  <2>2. r.fc \in Server!Reads /\ r.fc \notin Server!Writes
    BY <1>1 DEF Server!Reads, Server!Writes
  <2>3. done = Reading(map, resp)
    <3>1. r.qty \in Nat
      BY RequestFields
    <3> QED BY <1>1, <3>1 DEF Handle, HandleReadBits, HandleReadRegs, BitBytes, RegBytes,
              Server!Table, Server!Most, Server!Octets, Server!Bits
  <2>4. \/ Refused(r, resp)
        \/ Failed(r, resp)
        \/ Done(r) /\ resp = Data([i \in 0 .. r.qty - 1 |-> t[r.start + i]])
    BY <2>1, <2>2, ReadAgrees
  <2> HIDE DEF resp, t, done
  <2>5. done.map = map /\ done.resp = resp
    BY <2>3 DEF Reading
  <2>6. CASE Failed(r, resp)
    <3>1. resp # Dropped
      BY <2>6 DEF Failed, Dropped
    <3> QED BY <2>5, <2>6, <3>1 DEF Failed, Server!Answers, done
  <2>7. CASE Done(r) /\ resp = Data([i \in 0 .. r.qty - 1 |-> t[r.start + i]])
    <3>1. resp # Dropped
      BY <2>7 DEF Data, Dropped
    <3>2. resp \in Server!Answers(r)
      BY <2>2, <2>7 DEF Done, Server!Answers, Data, t
    <3> QED BY <2>2, <2>5, <2>7, <3>1, <3>2 DEF Done, done
  <2> QED BY <2>4, <2>5, <2>6, <2>7 DEF done
<1>2. CASE r.fc \in {5, 6, 15, 16}
  <2> DEFINE name == Server!Table(r)
             t == map[name]
             res == CASE r.fc = 5 -> HandleWriteSingleCoil(r, t)
                      [] r.fc = 6 -> HandleWriteSingleReg(r, t)
                      [] OTHER -> HandleWriteMultiple(r, t, Server!Most(r), Server!Octets(r))
  <2>1. PICK n \in Nat : IsTable(t, n)
    BY <1>0, <1>2 DEF Tabled, Server!Table
  <2>2. r.fc \in Server!Writes /\ r.fc \notin Server!Reads
    BY <1>2 DEF Server!Reads, Server!Writes
  <2>3. done = Writing(map, name, res)
    <3>1. r.qty \in Nat
      BY RequestFields
    <3> QED BY <1>2, <3>1 DEF Handle, HandleWriteCoils, HandleWriteRegs, BitBytes, RegBytes,
              Server!Table, Server!Most, Server!Octets, Server!Bits
  <2>4. \/ Refused(r, res.resp) /\ res.table = t
        \/ Failed(r, res.resp) /\ res.table = t
        \/ Done(r) /\ res.resp = Echo /\ res.table = WrittenTable(r, t)
    <3>1. CASE r.fc \in {5, 6}
      BY <2>1, <3>1, SingleAgrees
    <3>2. CASE r.fc \in {15, 16}
      BY <2>1, <3>2, MultipleAgrees
    <3> QED BY <1>2, <3>1, <3>2
  <2>5. t = map[name] /\ map = [map EXCEPT ![name] = t]
    BY DEF Tabled
  <2>6. [map EXCEPT ![name] = WrittenTable(r, t)] = Server!Performed(r)
    BY DEF Server!Performed, WrittenTable
  <2> HIDE DEF res, t, name, done
  <2>7. done.map = [map EXCEPT ![name] = res.table] /\ done.resp = res.resp
    BY <2>3 DEF Writing
  <2>8. CASE Refused(r, res.resp) /\ res.table = t
    BY <2>5, <2>7, <2>8 DEF done
  <2>9. CASE Failed(r, res.resp) /\ res.table = t
    <3>1. res.resp # Dropped
      BY <2>9 DEF Failed, Dropped
    <3>2. done.map = map
      BY <2>5, <2>7, <2>9
    <3> QED BY <2>7, <2>9, <3>1, <3>2 DEF Failed, Server!Answers, done
  <2>10. CASE Done(r) /\ res.resp = Echo /\ res.table = WrittenTable(r, t)
    <3>1. res.resp # Dropped
      BY <2>10 DEF Echo, Dropped
    <3>2. res.resp \in Server!Answers(r)
      BY <2>2, <2>10 DEF Done, Server!Answers, Echo
    <3>3. done.map = Server!Performed(r)
      BY <2>6, <2>7, <2>10
    <3> QED BY <2>2, <2>7, <2>10, <3>1, <3>2, <3>3 DEF Done, done
  <2> QED BY <2>4, <2>8, <2>9, <2>10
<1>3. CASE r.fc \notin {1, 2, 3, 4, 5, 6, 15, 16}
  <2>1. done = Reading(map, Exception(IllegalFunction))
    BY <1>3 DEF Handle
  <2>2. r.fc \notin Server!Reads \cup Server!Writes /\ ~Server!Sound(r)
    BY <1>3 DEF Server!Reads, Server!Writes, Server!Sound
  <2> QED BY <2>1, <2>2 DEF Reading, Exception, IllegalFunction, Dropped, Server!Answers
<1> QED BY <1>1, <1>2, <1>3

(* The tables keep their sizes.                                            *)
LEMMA TablesStay ==
  ASSUME Tabled, NEW r \in Requests, map' = Handle(r, map).map
  PROVE  Tabled'
<1>1. CASE map' = map
  BY <1>1 DEF Tabled
<1>2. CASE map' = Server!Performed(r) /\ r.fc \in Server!Writes
  <2>1. CASE Server!Table(r) = "coils"
    <3>1. map' = [map EXCEPT !.coils = WrittenTable(r, map.coils)]
      BY <1>2, <2>1 DEF Server!Performed, WrittenTable
    <3>2. IsTable(WrittenTable(r, map.coils), NumCoils)
      BY DEF Tabled, IsTable, WrittenTable
    <3> QED BY <3>1, <3>2 DEF Tabled
  <2>2. CASE Server!Table(r) = "holding"
    <3>1. map' = [map EXCEPT !.holding = WrittenTable(r, map.holding)]
      BY <1>2, <2>2 DEF Server!Performed, WrittenTable
    <3>2. IsTable(WrittenTable(r, map.holding), NumRegs)
      BY DEF Tabled, IsTable, WrittenTable
    <3> QED BY <3>1, <3>2 DEF Tabled
  <2> QED BY <1>2, <2>1, <2>2 DEF Server!Writes, Server!Table
<1> QED BY <1>1, <1>2, HandleAgrees

-----------------------------------------------------------------------------
(* What is typed, and the pace of the master: the silence it keeps or      *)
(* waits for, and the place it has reached in its frame.                   *)
Chars == (1 .. MaxAsk) \X (0 .. Big)

Flags    == /\ busy \in BOOLEAN /\ dirOn \in BOOLEAN /\ dir \in BOOLEAN /\ late \in BOOLEAN
            /\ torn \in BOOLEAN
Buffers  == /\ ring \in Seq(Chars) /\ frame \in Seq(Chars)
            /\ Len(ring) <= Ring /\ Len(frame) <= Adu
Numbered ==
  /\ asked \in 0 .. MaxAsk /\ hit \in 0 .. asked /\ served \in 0 .. asked
  /\ dest \in [1 .. MaxAsk -> Dests] /\ request \in Requests \cup {None}
Sending ==
  /\ mst \in {"rest", "send", "wait"} /\ pos \in 0 .. Big /\ gap \in 0 .. Gap + Pause + Timeout
  /\ mst = "rest" => gap <= Gap
  /\ mst = "send" => asked > 0 /\ pos < Len1(dest[asked]) /\ gap <= Pause + 1
  /\ mst = "wait" => asked > 0 /\ gap <= Patience
  /\ asked > 0 => pos <= Len1(dest[asked])
Timed ==
  /\ txq \in 0 .. (IF torn THEN Wrapped ELSE TxRing)
  /\ left \in 0 .. Reply /\ surplus \in 0 .. Ring
  /\ elapsed \in 0 .. 2 * T35 /\ phase \in 0 .. Ms - 1
  /\ pc \in {"rest", "read", "drain", "stamp", "check", "enable", "write", "flush"}
  /\ since \in 0 .. Late + Prompt + CallTime
  /\ pc # "rest" => since <= CallTime

Typed == Flags /\ Buffers /\ Numbered /\ Sending /\ Timed

LEMMA Sizes ==
  /\ Ring \in Nat \ {0} /\ TxRing \in Nat \ {0} /\ Whole \in Nat \ {0} /\ Reply \in Nat \ {0}
  /\ Ms \in Nat \ {0} /\ T35 \in Nat \ {0} /\ Gap \in Nat \ {0} /\ Timeout \in Nat \ {0}
  /\ Adu \in Nat /\ Big \in Nat /\ Pause \in Nat /\ Prompt \in Nat /\ Late \in Nat
  /\ CallTime \in Nat /\ MaxAsk \in Nat /\ Wrapped \in Nat /\ TxRing <= Wrapped
  /\ Whole <= Adu /\ Adu < Big /\ 1 + Pause + CallTime <= (T35 - 1) * Ms
BY ModbusAssumption

LEMMA Lengths ==
  ASSUME NEW d \in Dests
  PROVE  Len1(d) \in Nat /\ 0 < Len1(d) /\ Len1(d) <= Big
BY Sizes DEF Len1

LEMMA Waits ==
  Patience \in Nat /\ Patience <= Gap + Pause + Timeout
BY Sizes DEF Patience

LEMMA NextPhase ==
  ASSUME phase \in 0 .. Ms - 1
  PROVE  (phase + 1) % Ms = IF phase + 1 = Ms THEN 0 ELSE phase + 1
<1>1. CASE phase + 1 = Ms
  BY <1>1, Sizes
<1>2. CASE phase + 1 # Ms
  BY <1>2, Sizes
<1> QED BY <1>1, <1>2

LEMMA FlagsStep ==
  ASSUME Flags, [Next]_vars
  PROVE  Flags'
<1> USE DEF Flags, Steady, Step, master, uart, slave, time, poll, work
<1>1. CASE \E d \in Dests : Ask(d)
  BY <1>1 DEF Ask
<1>2. CASE Send \/ GiveUp
  BY <1>2 DEF Send, GiveUp
<1>3. CASE Poll \/ Read \/ Drain \/ Stamp \/ Check \/ Reject \/ Process
  BY <1>3 DEF Poll, Read, Drain, Stamp, Check, Reject, Process
<1>4. CASE Enable \/ Write \/ Written \/ Release
  BY <1>4 DEF Enable, Write, Written, Release
<1>5. CASE Unit
  BY <1>5 DEF Unit
<1>6. CASE Race
  <2>1. torn' \in BOOLEAN
    BY <1>6 DEF Race
  <2>2. UNCHANGED <<busy, dirOn, dir, late>>
    BY <1>6 DEF Race
  <2> QED BY <2>1, <2>2
<1>7. CASE UNCHANGED vars
  BY <1>7 DEF vars
<1> QED BY <1>1, <1>2, <1>3, <1>4, <1>5, <1>6, <1>7 DEF Next, Main

LEMMA BuffersStep ==
  ASSUME Typed, [Next]_vars
  PROVE  Buffers'
<1> USE Sizes DEF Typed, Buffers, Steady, Step, uart, slave
<1>1. CASE Send
  <2>1. <<asked, pos + 1>> \in Chars /\ <<asked, 0>> \in Chars
    BY <1>1, Lengths DEF Send, Sending, Numbered, Chars
  <2>2. UNCHANGED frame
    BY <1>1 DEF Send
  <2>3. ASSUME NEW c \in Chars, Receive(c)
        PROVE  ring' \in Seq(Chars) /\ Len(ring') <= Ring
    BY <2>3 DEF Receive
  <2> QED BY <1>1, <2>1, <2>2, <2>3 DEF Send
<1>2. CASE Read
  <2>1. CASE Len(frame) < Adu /\ ring # << >>
    <3>1. Head(ring) \in Chars /\ Tail(ring) \in Seq(Chars) /\ Len(Tail(ring)) <= Ring
      BY <2>1
    <3>2. \A c \in Chars : Append(frame, c) \in Seq(Chars)
                          /\ Len(Append(frame, c)) = Len(frame) + 1
      OBVIOUS
    <3>3. frame' = Append(frame, Head(ring)) /\ ring' = Tail(ring)
      BY <1>2, <2>1 DEF Read
    <3>4. Len(frame) \in Nat /\ Len(frame) + 1 <= Adu
      BY <2>1
    <3> QED BY <3>1, <3>2, <3>3, <3>4
  <2>2. CASE ~(Len(frame) < Adu /\ ring # << >>)
    BY <1>2, <2>2 DEF Read
  <2> QED BY <2>1, <2>2
<1>3. CASE Drain
  BY <1>3 DEF Drain
<1>4. CASE Reject \/ Process
  <2>1. frame' = << >> /\ ring' = ring
    BY <1>4 DEF Reject, Process
  <2> QED BY <2>1
<1>5. CASE UNCHANGED <<ring, frame>>
  BY <1>5
<1>6. CASE (\E d \in Dests : Ask(d)) \/ GiveUp \/ Poll \/ Stamp \/ Check \/ Enable \/ Write
           \/ Written \/ Release \/ Race \/ Unit
  BY <1>5, <1>6 DEF Ask, GiveUp, Poll, Stamp, Check, Enable, Write, Written, Release, Race,
     Unit
<1> QED BY <1>1, <1>2, <1>3, <1>4, <1>5, <1>6 DEF Next, Main, vars

LEMMA NumberedStep ==
  ASSUME Typed, [Next]_vars
  PROVE  Numbered'
<1> USE Sizes DEF Typed, Numbered, Steady, Step, master, work
<1>1. CASE \E d \in Dests : Ask(d)
  BY <1>1 DEF Ask
<1>2. CASE Send
  BY <1>2 DEF Send, Sending
<1>3. CASE Process
  BY <1>3 DEF Process, Act
<1>4. CASE Poll
  BY <1>4 DEF Poll
<1>5. CASE UNCHANGED <<asked, hit, served, dest, request>>
  BY <1>5
<1>6. CASE GiveUp \/ Read \/ Drain \/ Stamp \/ Check \/ Reject \/ Enable \/ Write
           \/ Written \/ Release \/ Race \/ Unit
  BY <1>5, <1>6 DEF GiveUp, Read, Drain, Stamp, Check, Reject, Enable, Write, Written,
     Release, Race, Unit
<1> QED BY <1>1, <1>2, <1>3, <1>4, <1>5, <1>6 DEF Next, Main, vars

LEMMA SendingStep ==
  ASSUME Typed, [Next]_vars
  PROVE  Sending'
<1> USE Sizes DEF Typed, Sending
<1>0. asked > 0 => /\ dest[asked] \in Dests /\ Len1(dest[asked]) \in Nat
                   /\ 0 < Len1(dest[asked]) /\ Len1(dest[asked]) <= Big
  BY Lengths DEF Numbered
<1>1. ASSUME NEW d \in Dests, Ask(d)
      PROVE  Sending'
  <2>1. asked' = asked + 1 /\ dest'[asked'] = d /\ mst' = "send" /\ pos' = 0 /\ gap' = 1
    BY <1>1 DEF Ask, Numbered
  <2>2. Len1(d) \in Nat /\ 0 < Len1(d)
    BY Lengths
  <2> QED BY <2>1, <2>2 DEF Numbered
<1>2. CASE Send
  BY <1>0, <1>2, Waits DEF Send, Numbered, Patience
<1>3. CASE GiveUp
  BY <1>0, <1>3 DEF GiveUp
<1>4. CASE Unit
  BY <1>0, <1>4, Waits DEF Unit, Patience
<1>5. CASE UNCHANGED master
  BY <1>5 DEF master, Patience
<1> QED BY <1>1, <1>2, <1>3, <1>4, <1>5 DEF Next, Main, vars, Poll, Read, Drain, Stamp,
        Check, Reject, Process, Enable, Write, Written, Release, Race, Steady

LEMMA TimedStep ==
  ASSUME Typed, [Next]_vars
  PROVE  Timed'
<1> USE Sizes DEF Typed, Timed, Steady, Step, master, uart, slave, time, poll, work
<1>1. CASE (\E d \in Dests : Ask(d)) \/ Send \/ GiveUp \/ UNCHANGED vars
  BY <1>1 DEF Ask, Send, GiveUp, vars
<1>2. CASE Poll
  BY <1>2 DEF Poll, Buffers
<1>3. CASE Read
  BY <1>3 DEF Read
<1>4. CASE Drain
  BY <1>4 DEF Drain
<1>5. CASE Stamp
  BY <1>5 DEF Stamp
<1>6. CASE Check \/ Reject
  BY <1>6 DEF Check, Reject
<1>7. CASE Process
  BY <1>7 DEF Process, Act
<1>8. CASE Enable \/ Write
  BY <1>8 DEF Enable, Write
<1>9. CASE Written \/ Release
  BY <1>9 DEF Written, Release
<1>10. CASE Unit
  <2>1. phase' \in 0 .. Ms - 1
    BY <1>10, NextPhase DEF Unit
  <2>2. elapsed' \in 0 .. 2 * T35
    BY <1>10 DEF Unit
  <2>3. /\ since' \in 0 .. Late + Prompt + CallTime
        /\ pc # "rest" => since' <= CallTime
    BY <1>10 DEF Unit, Ready
  <2>4. txq' \in 0 .. (IF torn' THEN Wrapped ELSE TxRing)
    BY <1>10 DEF Unit
  <2> QED BY <1>10, <2>1, <2>2, <2>3, <2>4 DEF Unit
<1>11. CASE Race
  <2>1. torn' = TRUE /\ txq' \in 0 .. Wrapped
    BY <1>11 DEF Race
  <2> QED BY <1>11, <2>1 DEF Race
<1> QED BY <1>1, <1>2, <1>3, <1>4, <1>5, <1>6, <1>7, <1>8, <1>9, <1>10, <1>11 DEF Next, Main

LEMMA TypedHolds == Spec => []Typed
<1>1. Init => Typed
  <2> USE Sizes DEF Init
  <2>1. Init => Flags
    BY DEF Flags
  <2>2. Init => Buffers
    BY DEF Buffers
  <2>3. Init => Numbered
    BY DEF Numbered, Dests
  <2>4. Init => Sending /\ Timed
    BY DEF Sending, Timed
  <2> QED BY <2>1, <2>2, <2>3, <2>4 DEF Typed
<1>2. Typed /\ [Next]_vars => Typed'
  BY FlagsStep, BuffersStep, NumberedStep, SendingStep, TimedStep DEF Typed
<1> QED BY <1>1, <1>2, PTL DEF Spec

(* Types: every ring, frame and counter stays within its limit.            *)
THEOREM ModbusTypes == Spec => []TypeOK
<1>1. Typed => TypeOK
  <2>1. ASSUME Flags PROVE busy \in BOOLEAN /\ dirOn \in BOOLEAN /\ dir \in BOOLEAN
                           /\ late \in BOOLEAN /\ torn \in BOOLEAN
    BY <2>1 DEF Flags
  <2>2. ASSUME Buffers, Numbered, Sending, Timed
        PROVE  /\ asked \in 0 .. MaxAsk /\ dest \in [1 .. MaxAsk -> Dests]
               /\ hit \in 0 .. MaxAsk /\ served \in 0 .. MaxAsk
               /\ {ring, frame} \subseteq Seq((1 .. MaxAsk) \X (0 .. Big))
    BY <2>2, Sizes DEF Buffers, Numbered, Chars
  <2> QED BY <2>1, <2>2 DEF Typed, TypeOK, Buffers, Numbered, Sending, Timed
<1> QED BY <1>1, TypedHolds, PTL

-----------------------------------------------------------------------------
(* The driver enable pin is set from Enable to Release; there is something *)
(* left to write, in the ring or in the shift register, as long as an      *)
(* answer is under way; no frame is collected meanwhile.                   *)
Held ==
  /\ dir <=> dirOn /\ pc \in {"write", "flush"}
  /\ left > 0 => pc \in {"enable", "write"}
  /\ pc = "enable" => left > 0
  /\ pc = "flush" => left = 0 /\ dirOn
  /\ dirOn /\ busy => pc \in {"write", "flush"}
  /\ txq > 0 => busy
  /\ dirOn /\ answers # << >> => \/ pc = "enable"
                                 \/ pc = "write" /\ (left > 0 \/ busy)
                                 \/ pc = "flush" /\ busy
  /\ pc \in {"enable", "write", "flush"} => frame = << >>

LEMMA HeldStep ==
  ASSUME Typed, Held, [Next]_vars
  PROVE  Held'
<1> USE Sizes DEF Held, Steady, Step, master, uart, slave, time, poll, work
<1>0. left \in Nat /\ txq \in Nat
  BY DEF Typed, Timed
<1>1. CASE (\E d \in Dests : Ask(d)) \/ Send \/ GiveUp \/ UNCHANGED vars
  BY <1>1 DEF Ask, Send, GiveUp, vars
<1>2. CASE Poll \/ Read \/ Drain \/ Stamp \/ Check \/ Reject
  BY <1>0, <1>2 DEF Poll, Read, Drain, Stamp, Check, Reject
<1>3. CASE Process
  BY <1>0, <1>3 DEF Process, Act
<1>4. CASE Enable
  BY <1>0, <1>4 DEF Enable
<1>5. CASE Write
  BY <1>0, <1>5 DEF Write
<1>6. CASE Written
  BY <1>0, <1>6 DEF Written
<1>7. CASE Release
  BY <1>0, <1>7 DEF Release
<1>8. CASE Unit
  <2>1. UNCHANGED <<left, frame, dirOn, dir, pc>>
    BY <1>8 DEF Unit
  <2>2. (busy' <=> txq > 0) /\ (txq' > 0 => txq > 0)
    <3>1. busy' = (txq > 0) /\ txq' = IF txq > 0 THEN txq - 1 ELSE 0
      BY <1>8 DEF Unit
    <3>2. busy' <=> txq > 0
      BY <3>1, Zenon
    <3>3. txq' > 0 => txq > 0
      BY <1>0, <3>1
    <3> QED BY <3>2, <3>3
  <2>3. answers' # << >> => answers # << >> /\ ~(busy /\ txq = 0 /\ left = 0)
    BY <1>8 DEF Unit
  <2> QED BY <1>0, <2>1, <2>2, <2>3
<1>9. CASE Race
  BY <1>0, <1>9 DEF Race
<1> QED BY <1>1, <1>2, <1>3, <1>4, <1>5, <1>6, <1>7, <1>8, <1>9 DEF Next, Main

LEMMA HeldHolds == Spec => []Held
<1>1. Init => Held
  BY DEF Init, Held
<1>2. Typed /\ Held /\ [Next]_vars => Held'
  BY HeldStep
<1> QED BY <1>1, <1>2, TypedHolds, PTL DEF Spec

(* Not a character leaves with the driver off, and before the next poll    *)
(* the transmitter has nothing left and the bus is let go, even when the   *)
(* count of the ring has gone round.                                       *)
THEOREM ModbusDriverHeld == Spec => []DriverHeld
<1>1. Held => DriverHeld
  BY DEF Held, DriverHeld
<1> QED BY <1>1, HeldHolds, PTL

-----------------------------------------------------------------------------
(* The characters in the frame and then in the ring are in the order the   *)
(* master sent them.  None is of a request not sent so far, and of those   *)
(* that were performed none is left but what a fault has garbled.          *)
Before(a, b) == \/ a[1] < b[1]
                \/ a[1] = b[1] /\ (a[2] = 0 \/ b[2] = 0 \/ a[2] < b[2])

Known(c) ==
  /\ c[1] <= asked /\ c[2] <= Len1(dest[c[1]])
  /\ c[1] = asked => c[2] <= pos
  /\ c[1] <= served => c[2] = 0
  /\ c[2] = 0 => c[1] = hit

AllKnown == /\ \A i \in 1 .. Len(frame) : Known(frame[i])
            /\ \A i \in 1 .. Len(ring) : Known(ring[i])
Sorted ==
  /\ \A i, j \in 1 .. Len(frame) : i < j => Before(frame[i], frame[j])
  /\ \A i, j \in 1 .. Len(ring) : i < j => Before(ring[i], ring[j])
  /\ \A i \in 1 .. Len(frame), j \in 1 .. Len(ring) : Before(frame[i], ring[j])
Unserved == mst = "send" => served < asked

Order == AllKnown /\ Sorted /\ Unserved

(* A character is in Chars: its number and its place are numbers.          *)
LEMMA CharTyped ==
  ASSUME NEW c \in Chars
  PROVE  /\ c[1] \in 1 .. MaxAsk /\ c[2] \in 0 .. Big
         /\ c[1] \in Nat /\ c[2] \in Nat /\ c[1] > 0
BY Sizes DEF Chars

LEMMA CharsTyped ==
  ASSUME Typed
  PROVE  /\ \A i \in 1 .. Len(frame) : frame[i] \in Chars
         /\ \A i \in 1 .. Len(ring) : ring[i] \in Chars
         /\ Len(frame) \in Nat /\ Len(ring) \in Nat
BY DEF Typed, Buffers

(* A character known to the master stays known as it goes on sending.      *)
LEMMA KnownAsk ==
  ASSUME Typed, NEW d \in Dests, Ask(d), NEW c \in Chars, Known(c)
  PROVE  Known(c)'
<1>1. c[1] <= asked /\ c[1] \in 1 .. MaxAsk
  BY CharTyped DEF Known
<1>2. dest'[c[1]] = dest[c[1]] /\ asked' = asked + 1 /\ c[1] # asked'
  BY <1>1, Sizes DEF Ask, Typed, Numbered
<1>3. served' = served /\ hit' = hit
  BY DEF Ask, work
<1> QED BY <1>1, <1>2, <1>3, Sizes DEF Known, Typed, Numbered

LEMMA KnownSend ==
  ASSUME Typed, Send, NEW c \in Chars, Known(c)
  PROVE  Known(c)'
<1>1. UNCHANGED <<asked, dest, served>> /\ pos' = pos + 1 /\ (hit' = hit \/ hit = 0)
  BY DEF Send, work
<1>2. c[2] = 0 => hit # 0
  BY CharTyped DEF Known
<1>3. c[2] \in Nat /\ pos \in Nat
  BY CharTyped DEF Typed, Sending
<1> QED BY <1>1, <1>2, <1>3 DEF Known

(* What Send puts into the ring.                                           *)
LEMMA KnownNew ==
  ASSUME Typed, Order, Send, NEW c,
         c = <<asked, pos + 1>> \/ (c = <<asked, 0>> /\ hit' = asked)
  PROVE  /\ c \in Chars /\ Known(c)'
         /\ \A b \in Chars : Known(b) => Before(b, c)
<1>1. /\ asked \in 1 .. MaxAsk /\ pos \in Nat /\ pos + 1 <= Len1(dest[asked])
      /\ Len1(dest[asked]) \in Nat /\ Len1(dest[asked]) <= Big /\ served < asked
  BY Sizes, Lengths DEF Typed, Send, Sending, Numbered, Order, Unserved
<1>2. UNCHANGED <<asked, dest, served>> /\ pos' = pos + 1
  BY DEF Send, work
<1>3. c \in Chars
  BY <1>1, Sizes DEF Chars
<1>4. Known(c)'
  BY <1>1, <1>2, Sizes DEF Known, Typed, Numbered
<1>5. ASSUME NEW b \in Chars, Known(b)
      PROVE  Before(b, c)
  <2>1. b[1] \in Nat /\ b[2] \in Nat
    BY CharTyped
  <2> QED BY <1>1, <1>5, <2>1 DEF Known, Before
<1> QED BY <1>3, <1>4, <1>5

(* Steps that touch neither the buffers nor what is known of a character.  *)
LEMMA OrderKept ==
  ASSUME Order, UNCHANGED <<frame, ring, asked, dest, pos, hit, served>>,
         mst' = "send" => mst = "send"
  PROVE  Order'
BY DEF Order, AllKnown, Sorted, Unserved, Known

(* The characters of the frame go, some of the ring may.                   *)
LEMMA OrderAsk ==
  ASSUME Typed, Order, NEW d \in Dests, Ask(d)
  PROVE  Order'
<1>1. UNCHANGED <<frame, ring, served>> /\ asked' = asked + 1
  BY DEF Ask, uart, slave, work
<1>2. AllKnown'
  <2>1. \A c \in Chars : Known(c) => Known(c)'
    BY KnownAsk
  <2> QED BY <1>1, <2>1, CharsTyped DEF Order, AllKnown, Known
<1>3. Sorted'
  BY <1>1 DEF Order, Sorted
<1>4. Unserved'
  BY <1>1 DEF Unserved, Typed, Numbered
<1> QED BY <1>2, <1>3, <1>4 DEF Order

LEMMA OrderSend ==
  ASSUME Typed, Order, Send
  PROVE  Order'
<1>1. UNCHANGED <<frame, asked, served>> /\ mst = "send"
  BY DEF Send, slave, work
<1>2. \A c \in Chars : Known(c) => Known(c)'
  BY KnownSend
<1>3. PICK c : /\ c = <<asked, pos + 1>> \/ (c = <<asked, 0>> /\ hit' = asked)
               /\ ring' = Append(ring, c) \/ ring' = ring
  BY DEF Send, Receive
<1>4. c \in Chars /\ Known(c)' /\ \A b \in Chars : Known(b) => Before(b, c)
  BY <1>3, KnownNew
<1>5. Unserved'
  BY <1>1 DEF Order, Unserved
<1>6. CASE ring' = ring
  <2>1. AllKnown'
    BY <1>1, <1>2, <1>6, CharsTyped DEF Order, AllKnown, Known
  <2>2. Sorted'
    BY <1>1, <1>6 DEF Order, Sorted
  <2> QED BY <1>5, <2>1, <2>2 DEF Order
<1>7. CASE ring' = Append(ring, c)
  <2>1. /\ Len(ring') = Len(ring) + 1 /\ ring'[Len(ring) + 1] = c
        /\ \A i \in 1 .. Len(ring) : ring'[i] = ring[i]
    BY <1>7 DEF Typed, Buffers
  <2>2. AllKnown'
    BY <1>1, <1>2, <1>4, <2>1, CharsTyped DEF Order, AllKnown, Known
  <2>3. Sorted'
    <3>1. /\ \A i \in 1 .. Len(frame) : Before(frame[i], c)
          /\ \A i \in 1 .. Len(ring) : Before(ring[i], c)
      BY <1>4, CharsTyped DEF Order, AllKnown
    <3> QED BY <1>1, <2>1, <3>1, CharsTyped DEF Order, Sorted
  <2> QED BY <1>5, <2>2, <2>3 DEF Order
<1> QED BY <1>3, <1>6, <1>7

LEMMA OrderRead ==
  ASSUME Typed, Order, Read
  PROVE  Order'
<1>1. UNCHANGED <<asked, dest, pos, hit, served, mst>>
  BY DEF Read, Steady, master, work
<1>2. CASE UNCHANGED <<frame, ring>>
  BY <1>1, <1>2, OrderKept
<1>3. CASE /\ ring # << >> /\ frame' = Append(frame, Head(ring)) /\ ring' = Tail(ring)
  <2>1. /\ Len(frame') = Len(frame) + 1 /\ frame'[Len(frame) + 1] = ring[1]
        /\ \A i \in 1 .. Len(frame) : frame'[i] = frame[i]
    BY <1>3 DEF Typed, Buffers
  <2>2. /\ Len(ring) > 0 /\ Len(ring') = Len(ring) - 1
        /\ \A i \in 1 .. Len(ring') : ring'[i] = ring[i + 1]
    BY <1>3 DEF Typed, Buffers
  <2>3. AllKnown'
    BY SMTT(20), <1>1, <2>1, <2>2, CharsTyped DEF Order, AllKnown, Known
  <2>4. Sorted'
    <3>0. Len(frame) \in Nat /\ Len(ring) \in Nat
      BY CharsTyped
    <3>1. ASSUME NEW i \in 1 .. Len(frame'), NEW j \in 1 .. Len(frame'), i < j
          PROVE  Before(frame'[i], frame'[j])
      <4>1. i \in 1 .. Len(frame)
        BY <2>1, <3>0, <3>1
      <4>2. CASE j \in 1 .. Len(frame)
        BY <2>1, <3>1, <4>1, <4>2 DEF Order, Sorted
      <4>3. CASE j = Len(frame) + 1
        BY <2>1, <2>2, <3>0, <4>1, <4>3 DEF Order, Sorted
      <4> QED BY <2>1, <3>0, <4>2, <4>3
    <3>2. ASSUME NEW i \in 1 .. Len(ring'), NEW j \in 1 .. Len(ring'), i < j
          PROVE  Before(ring'[i], ring'[j])
      BY <2>2, <3>0, <3>2 DEF Order, Sorted
    <3>3. ASSUME NEW i \in 1 .. Len(frame'), NEW j \in 1 .. Len(ring')
          PROVE  Before(frame'[i], ring'[j])
      <4>1. ring'[j] = ring[j + 1] /\ j + 1 \in 1 .. Len(ring) /\ 1 < j + 1
            /\ 1 \in 1 .. Len(ring)
        BY <2>2, <3>0
      <4>2. CASE i \in 1 .. Len(frame)
        BY <2>1, <4>1, <4>2 DEF Order, Sorted
      <4>3. CASE i = Len(frame) + 1
        BY <2>1, <4>1, <4>3 DEF Order, Sorted
      <4> QED BY <2>1, <3>0, <4>2, <4>3
    <3> QED BY <3>1, <3>2, <3>3 DEF Sorted
  <2> QED BY <1>1, <2>3, <2>4 DEF Order, Unserved
<1> QED BY <1>2, <1>3 DEF Read

LEMMA OrderDrain ==
  ASSUME Typed, Order, Drain
  PROVE  Order'
<1>1. UNCHANGED <<frame, asked, dest, pos, hit, served, mst>>
  BY DEF Drain, Steady, master, work
<1>2. CASE UNCHANGED ring
  BY <1>1, <1>2, OrderKept
<1>3. CASE ring # << >> /\ ring' = Tail(ring)
  <2>1. /\ Len(ring) > 0 /\ Len(ring') = Len(ring) - 1
        /\ \A i \in 1 .. Len(ring') : ring'[i] = ring[i + 1]
    BY <1>3 DEF Typed, Buffers
  <2>2. AllKnown'
    BY <1>1, <2>1, CharsTyped DEF Order, AllKnown, Known
  <2>3. Sorted'
    <3>1. /\ \A i, j \in 1 .. Len(ring) : i < j => Before(ring[i], ring[j])
          /\ \A i \in 1 .. Len(frame), j \in 1 .. Len(ring) : Before(frame[i], ring[j])
      BY DEF Order, Sorted
    <3>2. Len(ring) \in Nat /\ \A i \in 1 .. Len(ring') : i + 1 \in 1 .. Len(ring)
      BY <2>1 DEF Typed, Buffers
    <3>3. ASSUME NEW i \in 1 .. Len(ring'), NEW j \in 1 .. Len(ring'), i < j
          PROVE  Before(ring'[i], ring'[j])
      <4>1. i + 1 \in 1 .. Len(ring) /\ j + 1 \in 1 .. Len(ring) /\ i + 1 < j + 1
        BY <2>1, <3>2, <3>3
      <4> QED BY <2>1, <3>1, <3>3, <4>1
    <3>4. ASSUME NEW i \in 1 .. Len(frame), NEW j \in 1 .. Len(ring')
          PROVE  Before(frame[i], ring'[j])
      <4>1. j + 1 \in 1 .. Len(ring)
        BY <3>2, <3>4
      <4> QED BY <2>1, <3>1, <3>4, <4>1
    <3> QED BY <1>1, <3>3, <3>4 DEF Order, Sorted
  <2> QED BY <1>1, <2>2, <2>3 DEF Order, Unserved
<1> QED BY <1>2, <1>3 DEF Drain

(* A frame that passes the CRC is a request not yet performed, sent whole. *)
LEMMA FrameWhole ==
  ASSUME Typed, Order, NEW n \in 1 .. asked, FrameOf(n)
  PROVE  /\ n > served /\ (mst = "send" => n < asked)
         /\ \A i \in 1 .. Len(ring) : ring[i][1] <= n => ring[i][2] = 0
<1>1. n \in Nat /\ n \in 1 .. MaxAsk /\ Len1(dest[n]) = Whole /\ Whole \in Nat \ {0}
  BY Sizes DEF FrameOf, Len1, Typed, Numbered
<1>2. Len(frame) = Whole /\ frame[Whole] = <<n, Whole>>
  BY <1>1 DEF FrameOf
<1>3. Known(<<n, Whole>>)
  BY <1>1, <1>2 DEF Order, AllKnown
<1>4. n > served
  BY <1>1, <1>3 DEF Known, Typed, Numbered
<1>5. mst = "send" => n < asked
  BY <1>1, <1>3 DEF Known, Typed, Numbered, Sending
<1>6. ASSUME NEW i \in 1 .. Len(ring), ring[i][1] <= n
      PROVE  ring[i][2] = 0
  <2>1. Before(<<n, Whole>>, ring[i])
    BY <1>1, <1>2 DEF Order, Sorted
  <2>2. Known(ring[i])
    BY DEF Order, AllKnown
  <2>3. ring[i][1] \in Nat /\ ring[i][2] \in Nat
    BY CharsTyped, CharTyped
  <2> QED BY <1>1, <1>6, <2>1, <2>2, <2>3 DEF Before, Known
<1> QED BY <1>4, <1>5, <1>6

LEMMA OrderProcess ==
  ASSUME Typed, Order, Process
  PROVE  Order'
<1>1. PICK n \in 1 .. asked, r \in Requests : FrameOf(n) /\ Act(n, r)
  BY DEF Process
<1>2. UNCHANGED <<ring, asked, dest, pos, hit, mst>> /\ frame' = << >> /\ served' = n
  BY <1>1 DEF Process, Act, Steady, master
<1>3. /\ n > served /\ (mst = "send" => n < asked)
      /\ \A i \in 1 .. Len(ring) : ring[i][1] <= n => ring[i][2] = 0
  BY <1>1, FrameWhole
<1>4. AllKnown'
  BY <1>2, <1>3 DEF Order, AllKnown, Known
<1>5. Sorted'
  BY <1>2 DEF Order, Sorted
<1> QED BY <1>2, <1>3, <1>4, <1>5 DEF Order, Unserved

LEMMA OrderReject ==
  ASSUME Order, Reject
  PROVE  Order'
<1>1. UNCHANGED <<ring, asked, dest, pos, hit, served, mst>> /\ frame' = << >>
  BY DEF Reject, Steady, master, uart, work
<1> QED BY <1>1 DEF Order, AllKnown, Sorted, Unserved, Known

LEMMA OrderStep ==
  ASSUME Typed, Order, [Next]_vars
  PROVE  Order'
<1>1. CASE GiveUp \/ Poll \/ Stamp \/ Check \/ Enable \/ Write \/ Written \/ Release \/ Race
           \/ Unit \/ UNCHANGED vars
  <2>1. UNCHANGED <<frame, ring, asked, dest, pos, hit, served>>
    BY <1>1 DEF GiveUp, Poll, Stamp, Check, Enable, Write, Written, Release, Race, Unit,
       vars, Steady, master, uart, slave, work
  <2>2. mst' = "send" => mst = "send"
    BY <1>1 DEF GiveUp, Poll, Stamp, Check, Enable, Write, Written, Release, Race, Unit,
       vars, Steady, master
  <2> QED BY <2>1, <2>2, OrderKept
<1> QED BY <1>1, OrderAsk, OrderSend, OrderRead, OrderDrain, OrderProcess, OrderReject
        DEF Next, Main

LEMMA OrderHolds == Spec => []Order
<1>1. Init => Order
  BY DEF Init, Order, AllKnown, Sorted, Unserved
<1>2. Typed /\ Order /\ [Next]_vars => Order'
  BY OrderStep
<1> QED BY <1>1, <1>2, TypedHolds, PTL DEF Spec

-----------------------------------------------------------------------------
LEMMA TablesHold == Spec => []Tabled
<1>1. Init => Tabled
  BY DEF Init, Tabled, Tables, IsTable
<1>2. Typed /\ Tabled /\ [Next]_vars => Tabled'
  <2> SUFFICES ASSUME Typed, Tabled, [Next]_vars
               PROVE  Tabled'
    OBVIOUS
  <2>1. CASE Process
    <3>1. PICK n \in 1 .. asked, r \in Requests : Act(n, r)
      BY <2>1 DEF Process
    <3> QED BY <3>1, TablesStay DEF Act
  <2>2. CASE UNCHANGED map
    BY <2>2 DEF Tabled
  <2> QED BY <2>1, <2>2 DEF Next, Main, vars, work, Ask, Send, GiveUp, Poll, Read, Drain,
     Stamp, Check, Reject, Enable, Write, Written, Release, Race, Unit
<1> QED BY <1>1, <1>2, TypedHolds, PTL DEF Spec

(* What a frame does to the tables and the answers under way, the register *)
(* server does.                                                            *)
LEMMA ProcessTakes ==
  ASSUME Typed, Order, Tabled, Process
  PROVE  Server!Take(served')
<1>1. PICK n \in 1 .. asked, r \in Requests :
        FrameOf(n) /\ dest[n] \in {"us", "all"} /\ Act(n, r)
  BY DEF Process
<1>2. UNCHANGED <<asked, dest>> /\ served' = n /\ request' = r
  BY <1>1 DEF Process, Act, Steady, master
<1>3. n > served /\ n <= asked
  BY <1>1, FrameWhole DEF Typed, Numbered
<1> DEFINE done == Handle(r, map)
<1>4. /\ map' = done.map
      /\ answers' = IF done.resp = Dropped \/ dest[n] = "all" THEN answers
                    ELSE Append(answers, done.resp)
  BY <1>1 DEF Act
<1>5. \/ Refused(r, done.resp) /\ done.map = map
      \/ /\ done.resp # Dropped
         /\ r.fc \in Server!Reads \cup Server!Writes =>
              r.len \in Server!Lengths(r) \/ ~Server!Legal(r)
         /\ done.map = IF Server!Sound(r) /\ r.fc \in Server!Writes
                       THEN Server!Performed(r) ELSE map
         /\ done.resp \in Server!Answers(r)
  BY HandleAgrees
<1> HIDE DEF done
<1>6. CASE Refused(r, done.resp) /\ done.map = map
  <2>1. Server!Ignore(r)
    BY <1>4, <1>6 DEF Refused, Server!Ignore
  <2> QED BY <1>1, <1>2, <1>3, <2>1 DEF Server!Take
<1>7. CASE /\ done.resp # Dropped
           /\ r.fc \in Server!Reads \cup Server!Writes =>
                r.len \in Server!Lengths(r) \/ ~Server!Legal(r)
           /\ done.map = IF Server!Sound(r) /\ r.fc \in Server!Writes
                         THEN Server!Performed(r) ELSE map
           /\ done.resp \in Server!Answers(r)
  <2>1. Server!Serve(n, r)
    BY <1>1, <1>4, <1>7 DEF Server!Serve
  <2> QED BY <1>1, <1>2, <1>3, <2>1 DEF Server!Take
<1> QED BY <1>5, <1>6, <1>7

(* The slave is a register server: whatever is lost, garbled, merged by a  *)
(* late poll or sent again, each request is performed at most once, in the *)
(* order sent, whole, as the protocol defines it, and answered only when   *)
(* it was meant for this slave alone.                                      *)
THEOREM ModbusServesOnce == Spec => ServesOnce
<1>1. Init => Server!Init
  <2>1. DOMAIN Tables = {"coils", "discrete", "holding", "inputs"}
    BY DEF Tables
  <2>2. \A k \in DOMAIN Tables : \A i \in DOMAIN Tables[k] : Tables[k][i] = 0
    <3>1. Tables["coils"] = [i \in 0 .. NumCoils - 1 |-> 0]
      BY DEF Tables
    <3>2. Tables["discrete"] = [i \in {} |-> 0]
      BY DEF Tables
    <3>3. Tables["holding"] = [i \in 0 .. NumRegs - 1 |-> 0]
      BY DEF Tables
    <3>4. Tables["inputs"] = [i \in {0} |-> 0]
      BY DEF Tables
    <3> QED BY <2>1, <3>1, <3>2, <3>3, <3>4
  <2> QED BY <2>2 DEF Init, Server!Init, None, Server!None
<1>2. ASSUME Typed, Order, Tabled, [Next]_vars
      PROVE  [Server!Next]_(Server!server)
  <2>1. CASE \E d \in Dests : Ask(d)
    <3>1. asked' = asked + 1 /\ UNCHANGED <<served, request, map, answers>>
      BY <2>1 DEF Ask, work
    <3>2. \A n \in 1 .. asked : dest'[n] = dest[n]
      BY <1>2, <2>1, Sizes DEF Ask, Typed, Numbered
    <3> QED BY <3>1, <3>2 DEF Server!Next, Server!Issue
  <2>2. CASE Process
    BY <1>2, <2>2, ProcessTakes DEF Server!Next
  <2>3. CASE Poll
    BY <2>3 DEF Poll, Steady, master, None, Server!None, Server!Next, Server!Forget
  <2>4. CASE Unit
    BY <2>4 DEF Unit, Server!Next, Server!Answered, Server!server
  <2>5. CASE UNCHANGED <<asked, dest, served, request, map, answers>>
    BY <2>5 DEF Server!server
  <2> QED BY <1>2, <2>1, <2>2, <2>3, <2>4, <2>5 DEF Next, Main, vars, master, work,
     Steady, Send, GiveUp, Read, Drain, Stamp, Check, Reject, Enable, Write, Written,
     Release, Race
<1> QED BY <1>1, <1>2, TypedHolds, OrderHolds, TablesHold, PTL DEF Spec, ServesOnce

-----------------------------------------------------------------------------
(* The units since s_last_rx_tick was taken, and less than a tick more.    *)
Age == elapsed * Ms + phase

(* The master is in the middle of the request whose characters end the     *)
(* frame, and all of them have arrived as they were sent.                  *)
Partial == /\ mst = "send" /\ frame # << >> /\ frame[Len(frame)][1] = asked
           /\ hit # asked

(* The frame is as fresh as the last character on the line, or as the last *)
(* poll, after which one more has come.                                    *)
Fresh ==
  Partial => /\ pc \in {"rest", "check"} /\ ring = << >> => Age <= gap + Ms - 1
             /\ pc = "check" /\ ring # << >> => Age <= Pause + Ms + since

LEMMA Times ==
  ASSUME NEW a \in Nat, NEW b \in Nat
  PROVE  /\ a * b \in Nat /\ (a + 1) * b = a * b + b
         /\ a > 0 => (a - 1) * b = a * b - b
OBVIOUS

LEMMA TimesOrder ==
  ASSUME NEW a \in Nat, NEW b \in Nat, NEW c \in Nat, a <= b
  PROVE  a * c <= b * c
OBVIOUS

LEMMA AgeTyped ==
  ASSUME Typed
  PROVE  /\ Age \in Nat /\ gap \in Nat /\ since \in Nat /\ phase \in Nat /\ elapsed \in Nat
         /\ phase <= Ms - 1
BY Times, Sizes DEF Typed, Timed, Sending, Age

(* A unit adds at most one to the age.                                     *)
LEMMA AgeUnit ==
  ASSUME Typed, Unit
  PROVE  Age' <= Age + 1
<1>1. elapsed \in Nat /\ phase \in 0 .. Ms - 1 /\ Ms \in Nat \ {0} /\ T35 \in Nat
  BY Sizes DEF Typed, Timed
<1>2. phase' = IF phase + 1 = Ms THEN 0 ELSE phase + 1
  BY <1>1, NextPhase DEF Unit
<1>3. \/ elapsed' = 0
      \/ elapsed' = elapsed
      \/ phase' = 0 /\ elapsed' = elapsed + 1
  BY DEF Unit
<1>4. elapsed * Ms \in Nat /\ (elapsed + 1) * Ms = elapsed * Ms + Ms /\ 0 * Ms = 0
  BY <1>1, Times
<1>5. phase' <= phase + 1
  BY <1>1, <1>2
<1>6. CASE elapsed' = 0 \/ elapsed' = elapsed
  BY <1>1, <1>4, <1>5, <1>2, <1>6 DEF Age
<1>7. CASE phase' = 0 /\ elapsed' = elapsed + 1
  BY <1>1, <1>4, <1>2, <1>7 DEF Age
<1> QED BY <1>3, <1>6, <1>7

LEMMA FreshSend ==
  ASSUME Typed, Held, Fresh, Send
  PROVE  Fresh'
<1>1. UNCHANGED <<asked, frame, pc, since, Age>> /\ mst = "send"
  BY DEF Send, slave, time, poll, Age
<1>2. Partial' => Partial
  BY <1>1 DEF Send, Partial
<1>3. Partial' => ring' # << >>
  <2>1. Partial' => ~dir /\ hit' # asked
    BY <1>1 DEF Held, Partial
  <2>2. \A c \in Chars : Append(ring, c) # << >>
    BY DEF Typed, Buffers
  <2>3. ring = << >> => Len(ring) < Ring
    BY Sizes
  <2>4. <<asked, pos + 1>> \in Chars /\ <<asked, 0>> \in Chars
    BY Lengths, Sizes DEF Send, Typed, Sending, Numbered, Chars
  <2>5. CASE \E c \in Chars : Receive(c)
    BY <2>1, <2>2, <2>3, <2>5 DEF Receive
  <2>6. CASE ring' = ring /\ hit' = asked
    BY <2>1, <2>6
  <2> QED BY <2>4, <2>5, <2>6 DEF Send
<1>4. gap \in Nat /\ gap <= Pause + 1 /\ Age \in Nat /\ since \in Nat
  BY <1>1, AgeTyped DEF Typed, Sending
<1> QED BY <1>1, <1>2, <1>3, <1>4, Sizes DEF Fresh, Partial

LEMMA FreshUnit ==
  ASSUME Typed, Fresh, Unit
  PROVE  Fresh'
<1>1. UNCHANGED <<asked, frame, ring, hit, pc>>
  BY DEF Unit, poll
<1>2. mst' = "send" => mst = "send" /\ gap' = gap + 1
  BY DEF Unit
<1>3. pc = "check" => since' = since + 1
  BY DEF Unit, Waiting, WaitsFull, WaitsEmpty
<1>4. /\ Age' <= Age + 1 /\ Age \in Nat /\ gap \in Nat /\ since \in Nat
      /\ Age' \in Nat
  <2>1. Typed'
    BY FlagsStep, BuffersStep, NumberedStep, SendingStep, TimedStep DEF Typed, Next
  <2>2. elapsed' \in Nat /\ phase' \in Nat
    BY <2>1, Sizes DEF Typed, Timed
  <2>3. elapsed' * Ms \in Nat
    BY <2>2, Times, Sizes
  <2>4. Age' \in Nat
    BY <2>2, <2>3 DEF Age
  <2> QED BY <2>4, AgeUnit, AgeTyped
<1> QED BY <1>1, <1>2, <1>3, <1>4, Sizes DEF Fresh, Partial

LEMMA FreshStep ==
  ASSUME Typed, Held, Order, Fresh, [Next]_vars
  PROVE  Fresh'
<1>1. CASE \E d \in Dests : Ask(d)
  <2>1. frame' = frame /\ asked' = asked + 1
    BY <1>1 DEF Ask, slave
  <2>2. frame # << >> => /\ frame[Len(frame)] \in Chars
                         /\ frame[Len(frame)][1] \in Nat /\ frame[Len(frame)][1] <= asked
    <3>1. frame # << >> => Len(frame) \in 1 .. Len(frame)
      BY DEF Typed, Buffers
    <3> QED BY <3>1, CharsTyped, CharTyped DEF Order, AllKnown, Known
  <2> QED BY <2>1, <2>2 DEF Fresh, Partial, Typed, Numbered
<1>2. CASE GiveUp
  BY <1>2 DEF GiveUp, Fresh, Partial
<1>3. CASE Poll
  <2>1. UNCHANGED <<asked, mst, gap, hit, frame, ring, Age>> /\ pc = "rest" /\ since' = 0
        /\ (pc' = "check" => ring = << >>) /\ pc' \in {"check", "read"}
    BY <1>3 DEF Poll, Steady, master, uart, Age
  <2> QED BY <2>1 DEF Fresh, Partial
<1>4. CASE Read \/ Drain \/ Enable
  BY <1>4 DEF Read, Drain, Enable, Step, Fresh
<1>5. CASE Stamp
  <2>1. UNCHANGED <<gap, since, phase>> /\ elapsed' = 0
    BY <1>5 DEF Stamp, Steady, master
  <2>2. Age' = phase
    BY <2>1, AgeTyped, Sizes DEF Age
  <2> QED BY <2>1, <2>2, AgeTyped, Sizes DEF Fresh
<1>6. CASE Check
  <2>1. UNCHANGED <<asked, mst, gap, hit, frame, ring, Age>> /\ pc = "check" /\ pc' = "rest"
    BY <1>6 DEF Check, Steady, master, uart, Age
  <2> QED BY <2>1 DEF Fresh, Partial
<1>7. CASE Reject \/ Process
  BY <1>7 DEF Reject, Process, Fresh, Partial
<1>8. CASE Write \/ Written \/ Release
  <2>1. pc \in {"write", "flush"} /\ frame' = frame
    BY <1>8 DEF Write, Written, Release, Step
  <2> QED BY <2>1 DEF Held, Fresh, Partial
<1>9. CASE Race \/ UNCHANGED vars
  BY <1>9 DEF Race, vars, master, uart, slave, time, poll, Fresh, Partial, Age
<1> QED BY <1>1, <1>2, <1>3, <1>4, <1>5, <1>6, <1>7, <1>8, <1>9, FreshSend, FreshUnit
        DEF Next, Main

LEMMA FreshHolds == Spec => []Fresh
<1>1. Init => Fresh
  BY DEF Init, Fresh, Partial
<1>2. Typed /\ Held /\ Order /\ Fresh /\ [Next]_vars => Fresh'
  BY FreshStep
<1> QED BY <1>1, <1>2, TypedHolds, HeldHolds, OrderHolds, PTL DEF Spec

(* A frame no older than a pause and a call is not ended.                  *)
LEMMA Young ==
  ASSUME Typed, pc = "check", Age <= Pause + Ms + since
  PROVE  ~Silent
<1>1. /\ Age \in Nat /\ since \in Nat /\ phase \in Nat /\ elapsed \in Nat
      /\ since <= CallTime
  BY AgeTyped DEF Typed, Timed
<1>2. (T35 - 1) * Ms = T35 * Ms - Ms /\ T35 * Ms \in Nat
  BY Times, Sizes
<1>3. Age < T35 * Ms
  BY <1>1, <1>2, Sizes
<1>4. ASSUME elapsed >= T35
      PROVE  FALSE
  <2>1. T35 * Ms <= elapsed * Ms /\ elapsed * Ms \in Nat
    BY <1>1, <1>4, TimesOrder, Times, Sizes
  <2> QED BY <1>1, <1>2, <1>3, <2>1 DEF Age
<1> QED BY <1>4 DEF Silent

LEMMA PartialYoung ==
  ASSUME Typed, Fresh, Partial, pc = "check"
  PROVE  Age <= Pause + Ms + since
<1>1. Age \in Nat /\ gap \in Nat /\ since \in Nat /\ gap <= Pause + 1
  BY AgeTyped DEF Partial, Typed, Sending
<1>2. CASE ring = << >>
  BY <1>1, <1>2, Sizes DEF Fresh
<1>3. CASE ring # << >>
  BY <1>3 DEF Fresh
<1> QED BY <1>2, <1>3

(* In the middle of a request the silence is never as long as T3.5.        *)
LEMMA NotSilent ==
  ASSUME Typed, Fresh, Partial, pc = "check"
  PROVE  ~Silent
BY PartialYoung, Young

(* A frame is never cut in two: the slave does not process the part of a   *)
(* request that is there while the master is still sending it, however     *)
(* late or often it polls.                                                 *)
THEOREM ModbusNeverCut == Spec => NeverCut
<1>1. ASSUME Typed, Fresh, [Next]_vars
      PROVE  [frame # << >> /\ frame' = << >> /\ frame[Len(frame)][1] = asked /\ hit # asked
              => mst # "send"]_<<frame, mst>>
  <2>1. CASE Reject \/ Process
    <3>1. pc = "check" /\ Silent
      BY <2>1 DEF Reject, Process
    <3> QED BY <1>1, <3>1, NotSilent DEF Partial
  <2>2. CASE Read
    <3>1. frame # << >> => frame' # << >>
      BY <1>1, <2>2 DEF Read, Typed, Buffers
    <3> QED BY <3>1
  <2>3. CASE UNCHANGED frame
    BY <2>3
  <2> QED BY <1>1, <2>1, <2>2, <2>3 DEF Next, Main, vars, slave, Ask, Send, GiveUp, Poll,
     Drain, Stamp, Check, Enable, Write, Written, Release, Race, Unit
<1> QED BY <1>1, TypedHolds, FreshHolds, PTL DEF Spec, NeverCut

=============================================================================
