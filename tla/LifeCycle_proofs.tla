--------------------------- MODULE LifeCycle_proofs ---------------------------
(* Proofs of what LifeCycle promises: the list of queues follows its table *)
(* and stays under the feet of nobody who holds the lock, the loops over   *)
(* the calls choose and count right whatever happens meanwhile, and what   *)
(* was allocated is released.                                              *)
EXTENDS LifeCycleLocks_proofs, SequenceTheorems

(* Until the module failed or stopped, the list is there and no URI is in  *)
(* it twice.                                                               *)
InUse == phase \notin {"failed", "stopped"}

Unique == \A i, j \in Indices : Queue(i).uri = Queue(j).uri => i = j

ListOK ==
    InUse =>
        /\ mohq_cnt > 0 => pmohq_lst \in Blocks /\ mohq_cnt <= Len(mem[pmohq_lst])
        /\ Unique

ListTypes ==
    /\ mem \in [Blocks -> Seq(Entry)]
    /\ pmohq_lst \in Blocks \cup {NULL} /\ mohq_cnt \in Nat

(* The entries in use are of the block in use.                             *)
LEMMA EntryTypes ==
    ASSUME ListTypes, ListOK, InUse, NEW i \in Indices
    PROVE  /\ pmohq_lst \in Blocks /\ i \in 1..Len(mem[pmohq_lst]) /\ i \in Nat
           /\ mem[pmohq_lst] \in Seq(Entry) /\ Queue(i) \in Entry
           /\ Queue(i).uri \in Uris /\ Queue(i).id \in Ids /\ Queue(i).name \in Names
  <1>1. pmohq_lst \in Blocks /\ i \in 1..Len(mem[pmohq_lst]) /\ i \in Nat
    <2>1. mohq_cnt > 0 /\ i \in 1..mohq_cnt
      BY DEF ListTypes, Indices
    <2>2. pmohq_lst \in Blocks /\ mohq_cnt <= Len(mem[pmohq_lst])
      BY <2>1 DEF ListOK
    <2>3. Len(mem[pmohq_lst]) \in Nat
      BY <2>2, LenProperties DEF ListTypes
    <2>4. QED
      BY <2>1, <2>2, <2>3 DEF ListTypes
  <1>2. mem[pmohq_lst] \in Seq(Entry)
    BY <1>1 DEF ListTypes
  <1>3. Queue(i) \in Entry
    BY <1>1, <1>2, ElementOfSeq DEF Queue
  <1>4. QED
    BY <1>1, <1>2, <1>3 DEF Entry

-----------------------------------------------------------------------------
(* The three ways update_mohq_lst changes the list. An entry gets the      *)
(* columns of its row and keeps its URI and its id:                        *)
EntryChanged(i, r) ==
    /\ i \in Indices /\ Queue(i).uri = r.uri
    /\ mohq_cnt' = mohq_cnt /\ pmohq_lst' = pmohq_lst
    /\ \A j \in Indices :
        /\ Queue(j)'.uri = Queue(j).uri /\ Queue(j)'.id = Queue(j).id
        /\ Queue(j)'.name = IF j = i THEN r.name ELSE Queue(j).name
    /\ \A b \in Blocks \ {pmohq_lst} : mem'[b] = mem[b]
    /\ Len(mem'[pmohq_lst]) = Len(mem[pmohq_lst])

LEMMA ChangeEntryEffect ==
    ASSUME ListTypes, ListOK, InUse, NEW p \in Procs, NEW r \in Row, ChangeEntry(p, r)
    PROVE  /\ ListTypes'
           /\ \E i \in Indices : EntryChanged(i, r) /\ NextRow(p, r, i)
  <1>1. PICK i \in EntryOf(r) :
            mem' = [mem EXCEPT ![pmohq_lst][i].name = r.name] /\ NextRow(p, r, i)
    BY DEF ChangeEntry
  <1>2. i \in Indices /\ Queue(i).uri = r.uri /\ UNCHANGED <<pmohq_lst, mohq_cnt>>
    BY DEF EntryOf, ChangeEntry
  <1> DEFINE q == mem[pmohq_lst]
             e == [q[i] EXCEPT !.name = r.name]
  <1>3. pmohq_lst \in Blocks /\ i \in 1..Len(q) /\ q \in Seq(Entry) /\ q[i] \in Entry
    BY <1>2, EntryTypes DEF Queue
  <1>4. e \in Entry /\ e.uri = q[i].uri /\ e.id = q[i].id /\ e.name = r.name
    BY <1>3 DEF Entry, Row
  <1> HIDE DEF e
  <1>5. mem' = [mem EXCEPT ![pmohq_lst] = [q EXCEPT ![i] = e]]
    BY <1>1 DEF e
  <1>6. /\ [q EXCEPT ![i] = e] \in Seq(Entry)
        /\ Len([q EXCEPT ![i] = e]) = Len(q)
        /\ \A j \in 1..Len(q) : [q EXCEPT ![i] = e][j] = IF j = i THEN e ELSE q[j]
    BY <1>3, <1>4, ExceptSeq
  <1>7. mem'[pmohq_lst] = [q EXCEPT ![i] = e] /\ \A b \in Blocks \ {pmohq_lst} : mem'[b] = mem[b]
    BY <1>3, <1>5 DEF ListTypes
  <1>8. ListTypes'
    BY <1>2, <1>5, <1>6 DEF ListTypes
  <1>9. \A j \in Indices : Queue(j)' = IF j = i THEN e ELSE Queue(j)
    BY <1>2, <1>6, <1>7, EntryTypes DEF Queue
  <1>10. EntryChanged(i, r)
    BY <1>2, <1>4, <1>6, <1>7, <1>9 DEF EntryChanged, Queue
  <1>11. QED
    BY <1>1, <1>2, <1>8, <1>10

(* a row of its own is appended, in a block that was free, and the block   *)
(* that was in use is given back if there was something in it:             *)
EntryAdded(r) ==
    /\ \A j \in Indices : Queue(j).uri # r.uri
    /\ mohq_cnt' = mohq_cnt + 1 /\ pmohq_lst' \in Blocks
    /\ \A j \in Indices : Queue(j)' = Queue(j)
    /\ Queue(mohq_cnt)' = NewEntry(r)
    /\ \A b \in Blocks \ {pmohq_lst'} :
        mem'[b] = IF b = pmohq_lst /\ mohq_cnt > 0 THEN <<>> ELSE mem[b]
    /\ Len(mem'[pmohq_lst']) = mohq_cnt + 1

LEMMA AddEntryEffect ==
    ASSUME ListTypes, ListOK, InUse, NEW p \in Procs, NEW r \in Row, AddEntry(p, r)
    PROVE  /\ ListTypes'
           /\ \/ /\ EntryAdded(r) /\ NextRow(p, r, mohq_cnt + 1)
                 /\ UNCHANGED <<loaded, pmohq_lock>>
              \/ /\ EndLoad(p) /\ loaded' = None
                 /\ UNCHANGED <<mem, pmohq_lst, mohq_cnt>>
  <1>1. CASE EndLoad(p) /\ loaded' = None /\ UNCHANGED <<mem, pmohq_lst, mohq_cnt>>
    BY <1>1 DEF ListTypes
  <1>2. ASSUME NEW b \in Blocks, mem[b] = <<>>,
               mem' = [c \in Blocks |->
                    CASE c = b -> [i \in 1..(mohq_cnt + 1) |->
                                    IF i <= mohq_cnt THEN Queue(i) ELSE NewEntry(r)]
                      [] c = pmohq_lst /\ mohq_cnt > 0 -> <<>>
                      [] OTHER -> mem[c]],
               pmohq_lst' = b, mohq_cnt' = mohq_cnt + 1, NextRow(p, r, mohq_cnt + 1),
               UNCHANGED <<loaded, pmohq_lock>>
        PROVE  ListTypes' /\ EntryAdded(r)
    <2> DEFINE E(i) == IF i <= mohq_cnt THEN Queue(i) ELSE NewEntry(r)
               q == [i \in 1..(mohq_cnt + 1) |-> E(i)]
    <2>1. mohq_cnt + 1 \in Nat /\ \A i \in Indices : i \in 1..(mohq_cnt + 1) /\ i <= mohq_cnt
      BY DEF ListTypes, Indices
    <2>2. \A i \in 1..(mohq_cnt + 1) : i <= mohq_cnt => i \in Indices
      BY DEF ListTypes, Indices
    <2>3. NewEntry(r) \in Entry
      BY DEF NewEntry, Entry, Row
    <2>4. \A i \in 1..(mohq_cnt + 1) : E(i) \in Entry
      BY <2>2, <2>3, EntryTypes
    <2>5. q \in Seq(Entry)
      BY <2>1, <2>4, IsASeq
    <2>6. Len(q) = mohq_cnt + 1
      BY <2>1
    <2>7. /\ mem'[b] = q
          /\ \A c \in Blocks \ {b} : mem'[c] = IF c = pmohq_lst /\ mohq_cnt > 0 THEN <<>> ELSE mem[c]
      <3>1. mem' = [c \in Blocks |->
                    CASE c = b -> q
                      [] c = pmohq_lst /\ mohq_cnt > 0 -> <<>>
                      [] OTHER -> mem[c]]
        BY <1>2
      <3>2. ~(b = pmohq_lst /\ mohq_cnt > 0)
        <4>1. b = pmohq_lst /\ mohq_cnt > 0 => Len(mem[b]) >= mohq_cnt
          BY DEF ListOK
        <4>2. Len(mem[b]) = 0
          BY <1>2
        <4>3. QED
          BY <4>1, <4>2 DEF ListTypes
      <3> HIDE DEF q
      <3>3. mem'[b] = q
        BY <3>1, <3>2
      <3>4. ASSUME NEW c \in Blocks \ {b}
            PROVE  mem'[c] = IF c = pmohq_lst /\ mohq_cnt > 0 THEN <<>> ELSE mem[c]
        <4>1. mem'[c] = CASE c = b -> q
                      [] c = pmohq_lst /\ mohq_cnt > 0 -> <<>>
                      [] OTHER -> mem[c]
          BY <3>1
        <4>2. QED
          BY <4>1
      <3>5. QED
        BY <3>3, <3>4
    <2>8. mem' \in [Blocks -> Seq(Entry)]
      <3>1. \A c \in Blocks : mem'[c] \in Seq(Entry)
        BY <2>5, <2>7, EmptySeq DEF ListTypes
      <3>2. mem' = [c \in Blocks |-> mem'[c]]
        BY <1>2
      <3>3. QED
        BY <3>1, <3>2
    <2>9. \A j \in Indices : Queue(j)' = Queue(j)
      BY <1>2, <2>1, <2>7 DEF Queue
    <2>10. Queue(mohq_cnt)' = NewEntry(r)
      BY <1>2, <2>1, <2>7 DEF Queue, ListTypes
    <2>11. \A j \in Indices : Queue(j).uri # r.uri
      BY DEF AddEntry, EntryOf
    <2>12. QED
      BY <1>2, <2>1, <2>6, <2>7, <2>8, <2>9, <2>10, <2>11 DEF ListTypes, EntryAdded
  <1>3. QED
    BY <1>1, <1>2 DEF AddEntry

(* and an entry is overwritten by the last one.                            *)
EntryRemoved(i) ==
    /\ i \in Indices
    /\ mohq_cnt' = mohq_cnt - 1 /\ pmohq_lst' = pmohq_lst
    /\ \A j \in Indices : Queue(j)' = IF j = i THEN Queue(mohq_cnt) ELSE Queue(j)
    /\ \A b \in Blocks \ {pmohq_lst} : mem'[b] = mem[b]
    /\ Len(mem'[pmohq_lst]) = Len(mem[pmohq_lst])

LEMMA SweepEffect ==
    ASSUME ListTypes, ListOK, InUse, NEW p \in Procs, Sweep(p)
    PROVE  /\ ListTypes'
           /\ \E i \in Unchecked(p) :
                /\ EntryRemoved(i)
                /\ GotoWith(p, "rows", [job[p] EXCEPT !.chk =
                    IF mohq_cnt \in @ THEN (@ \ {mohq_cnt}) \cup {i} ELSE @])
  <1>1. PICK i \in Unchecked(p) :
            /\ mem' = [mem EXCEPT ![pmohq_lst][i] = Queue(mohq_cnt)]
            /\ GotoWith(p, "rows", [job[p] EXCEPT !.chk =
                    IF mohq_cnt \in @ THEN (@ \ {mohq_cnt}) \cup {i} ELSE @])
    BY DEF Sweep
  <1>2. mohq_cnt' = mohq_cnt - 1 /\ pmohq_lst' = pmohq_lst /\ i \in Indices
    BY DEF Sweep, Unchecked
  <1>3. mohq_cnt \in Indices /\ mohq_cnt - 1 \in Nat
    BY <1>2 DEF ListTypes, Indices
  <1> DEFINE q == mem[pmohq_lst]
             e == Queue(mohq_cnt)
  <1>4. pmohq_lst \in Blocks /\ i \in 1..Len(q) /\ q \in Seq(Entry) /\ e \in Entry
    BY <1>2, <1>3, EntryTypes
  <1> HIDE DEF e
  <1>5. mem' = [mem EXCEPT ![pmohq_lst] = [q EXCEPT ![i] = e]]
    BY <1>1 DEF e
  <1>6. /\ [q EXCEPT ![i] = e] \in Seq(Entry)
        /\ Len([q EXCEPT ![i] = e]) = Len(q)
        /\ \A j \in 1..Len(q) : [q EXCEPT ![i] = e][j] = IF j = i THEN e ELSE q[j]
    BY <1>4, ExceptSeq
  <1>7. mem'[pmohq_lst] = [q EXCEPT ![i] = e] /\ \A b \in Blocks \ {pmohq_lst} : mem'[b] = mem[b]
    BY <1>4, <1>5 DEF ListTypes
  <1>8. ListTypes'
    BY <1>2, <1>3, <1>5, <1>6 DEF ListTypes
  <1>9. \A j \in Indices : Queue(j)' = IF j = i THEN e ELSE Queue(j)
    BY <1>2, <1>6, <1>7, EntryTypes DEF Queue
  <1>10. EntryRemoved(i)
    BY <1>2, <1>6, <1>7, <1>9 DEF EntryRemoved, e
  <1>11. QED
    BY <1>1, <1>8, <1>10

-----------------------------------------------------------------------------
(* A load goes through the rows it read: the entries it checked and the    *)
(* rows it took are the same queues.                                       *)
Agree(i, r) == Queue(i).uri = r.uri /\ Queue(i).name = r.name

RowsOK(p) ==
    /\ loaded \subseteq Row /\ Sound(loaded)
    /\ job[p].todo \subseteq loaded /\ job[p].chk \subseteq Indices
    /\ \A i \in job[p].chk : \E r \in loaded \ job[p].todo : Agree(i, r)
    /\ \A r \in loaded \ job[p].todo : \E i \in job[p].chk : Agree(i, r)

LoadOK == \A p \in Procs : pc[p] = "rows" => RowsOK(p)

(* What every load has to reach, and no other step may lose.               *)
Matched ==
    /\ mohq_cnt = Cardinality(loaded)
    /\ {<<Queue(i).uri, Queue(i).name>> : i \in Indices} = {<<r.uri, r.name>> : r \in loaded}

MatchOK ==
    /\ Sound(rows)
    /\ loaded # None /\ InUse /\ (\A p \in Procs : pc[p] # "rows") => Matched

(* A row that changes an entry is taken,                                   *)
LEMMA RowChanges ==
    ASSUME ListTypes, ListOK, InUse, NEW p \in Procs, RowsOK(p), NEW r \in job[p].todo,
           NEW i, EntryChanged(i, r), UNCHANGED <<phase, loaded>>,
           job'[p].todo = job[p].todo \ {r}, job'[p].chk = job[p].chk \cup {i}
    PROVE  ListOK' /\ RowsOK(p)'
  <1>1. Indices' = Indices /\ i \in Indices /\ Queue(i)'.uri = r.uri /\ Queue(i)'.name = r.name
    BY DEF EntryChanged, Indices
  <1>2. \A j \in Indices : Queue(j)'.uri = Queue(j).uri
    BY DEF EntryChanged
  <1>3. \A j \in Indices \ {i} : Queue(j)'.name = Queue(j).name
    BY DEF EntryChanged
  <1>4. ListOK'
    <2>1. mohq_cnt > 0 => pmohq_lst \in Blocks /\ mohq_cnt <= Len(mem'[pmohq_lst])
      BY DEF ListOK, EntryChanged
    <2>2. Unique'
      BY <1>1, <1>2 DEF ListOK, Unique
    <2>3. QED
      BY <2>1, <2>2 DEF ListOK, EntryChanged
  <1>5. loaded \ job'[p].todo = (loaded \ job[p].todo) \cup {r} /\ r \in loaded
    BY DEF RowsOK
  <1>6. \A s \in loaded : s.uri = r.uri => s = r
    BY <1>5 DEF RowsOK, Sound
  <1>7. \A j \in job'[p].chk : \E s \in loaded \ job'[p].todo : Agree(j, s)'
    <2>1. ASSUME NEW j \in job[p].chk \ {i} PROVE \E s \in loaded \ job'[p].todo : Agree(j, s)'
      BY <1>2, <1>3, <1>5 DEF RowsOK, Agree
    <2>2. Agree(i, r)'
      BY <1>1 DEF Agree
    <2>3. QED
      BY <1>5, <2>1, <2>2
  <1>8. \A s \in loaded \ job'[p].todo : \E j \in job'[p].chk : Agree(j, s)'
    <2>1. ASSUME NEW s \in (loaded \ job[p].todo) \ {r}
          PROVE  \E j \in job'[p].chk : Agree(j, s)'
      <3>1. PICK j \in job[p].chk : Agree(j, s)
        BY DEF RowsOK
      <3>2. j \in Indices \ {i}
        BY <1>6, <3>1 DEF RowsOK, Agree, EntryChanged
      <3>3. QED
        BY <1>2, <1>3, <3>1, <3>2 DEF Agree
    <2>2. Agree(i, r)'
      BY <1>1 DEF Agree
    <2>3. QED
      BY <1>5, <2>1, <2>2
  <1>9. QED
    BY <1>1, <1>4, <1>7, <1>8 DEF RowsOK, Sound

(* and so is one that becomes an entry.                                    *)
LEMMA RowAdds ==
    ASSUME ListTypes, ListOK, InUse, NEW p \in Procs, RowsOK(p), NEW r \in job[p].todo,
           EntryAdded(r), UNCHANGED <<phase, loaded>>,
           job'[p].todo = job[p].todo \ {r}, job'[p].chk = job[p].chk \cup {mohq_cnt + 1}
    PROVE  ListOK' /\ RowsOK(p)'
  <1>0. PICK n \in Nat : n = mohq_cnt + 1
    BY DEF ListTypes
  <1>1. /\ Indices' = Indices \cup {n} /\ n \notin Indices /\ mohq_cnt' = n
    BY <1>0 DEF EntryAdded, Indices, ListTypes
  <1>2. \A j \in Indices : Queue(j)' = Queue(j) /\ Queue(j).uri # r.uri
    BY DEF EntryAdded
  <1>3. Queue(n)' = NewEntry(r)
    BY <1>1 DEF EntryAdded, Queue
  <1>4. Queue(n)'.uri = r.uri /\ Queue(n)'.name = r.name
    BY <1>3 DEF NewEntry
  <1>5. ListOK'
    <2>1. pmohq_lst' \in Blocks /\ n <= Len(mem'[pmohq_lst'])
      BY <1>0, <1>1 DEF EntryAdded
    <2>2. Unique'
      <3>1. ASSUME NEW i \in Indices', NEW j \in Indices', (Queue(i).uri = Queue(j).uri)'
            PROVE  i = j
        <4>1. CASE i \in Indices /\ j \in Indices
          BY <1>2, <3>1, <4>1 DEF ListOK, Unique
        <4>2. CASE ~(i \in Indices /\ j \in Indices)
          BY <1>1, <1>2, <1>4, <3>1, <4>2
        <4>3. QED
          BY <4>1, <4>2
      <3>2. QED
        BY <3>1 DEF Unique
    <2>3. QED
      BY <1>1, <2>1, <2>2 DEF ListOK
  <1>6. loaded \ job'[p].todo = (loaded \ job[p].todo) \cup {r} /\ r \in loaded
    BY DEF RowsOK
  <1>7. Agree(n, r)'
    BY <1>4 DEF Agree
  <1>8. \A j \in Indices : \A s : Agree(j, s)' <=> Agree(j, s)
    BY <1>2 DEF Agree
  <1>9. \A j \in job'[p].chk : \E s \in loaded \ job'[p].todo : Agree(j, s)'
    BY <1>0, <1>6, <1>7, <1>8 DEF RowsOK
  <1>10. \A s \in loaded \ job'[p].todo : \E j \in job'[p].chk : Agree(j, s)'
    BY <1>0, <1>6, <1>7, <1>8 DEF RowsOK
  <1>11. QED
    BY <1>0, <1>1, <1>5, <1>9, <1>10 DEF RowsOK, Sound

(* An entry that no row checked goes.                                      *)
LEMMA EntryGoes ==
    ASSUME ListTypes, ListOK, InUse, NEW p \in Procs, RowsOK(p),
           NEW i \in Unchecked(p), EntryRemoved(i), UNCHANGED <<phase, loaded>>,
           job'[p].todo = job[p].todo,
           job'[p].chk = IF mohq_cnt \in job[p].chk
                         THEN (job[p].chk \ {mohq_cnt}) \cup {i} ELSE job[p].chk
    PROVE  ListOK' /\ RowsOK(p)'
  <1> DEFINE n == mohq_cnt
             Old(j) == IF j = i THEN n ELSE j
  <1>1. i \in Indices /\ i \notin job[p].chk /\ n \in Indices /\ n - 1 \in Nat
    BY DEF Unchecked, Indices, ListTypes
  <1>2. Indices' = Indices \ {n}
    BY <1>1 DEF EntryRemoved, Indices, ListTypes
  <1>3. \A j \in Indices' : Old(j) \in Indices /\ Queue(j)' = Queue(Old(j))
    BY <1>1, <1>2 DEF EntryRemoved
  <1>4. \A j, k \in Indices' : Old(j) = Old(k) => j = k
    BY <1>2
  <1>5. \A j \in job[p].chk : j # i /\ j \in Indices
    BY <1>1 DEF RowsOK
  <1>6. job'[p].chk \subseteq Indices' /\ \A j \in job'[p].chk : Old(j) \in job[p].chk
    <2>1. CASE n \in job[p].chk
      BY <1>1, <1>2, <1>5, <2>1
    <2>2. CASE n \notin job[p].chk
      BY <1>1, <1>2, <1>5, <2>2
    <2>3. QED
      BY <2>1, <2>2
  <1>7. \A k \in job[p].chk : \E j \in job'[p].chk : Old(j) = k
    BY <1>1, <1>5
  <1> HIDE DEF Old
  <1>8. ListOK'
    <2>1. mohq_cnt' > 0 => pmohq_lst' \in Blocks /\ mohq_cnt' <= Len(mem'[pmohq_lst'])
      <3>1. pmohq_lst \in Blocks /\ mohq_cnt <= Len(mem[pmohq_lst])
        BY <1>1 DEF ListOK, Indices, ListTypes
      <3>2. Len(mem[pmohq_lst]) \in Nat
        BY <3>1, LenProperties DEF ListTypes
      <3>3. QED
        BY <3>1, <3>2 DEF EntryRemoved, ListTypes
    <2>2. Unique'
      <3>1. ASSUME NEW j \in Indices', NEW k \in Indices', (Queue(j).uri = Queue(k).uri)'
            PROVE  j = k
        BY <1>3, <1>4, <3>1 DEF ListOK, Unique
      <3>2. QED
        BY <3>1 DEF Unique
    <2>3. QED
      BY <2>1, <2>2 DEF ListOK
  <1>9. \A j \in Indices' : \A s : Agree(j, s)' <=> Agree(Old(j), s)
    BY <1>3 DEF Agree
  <1>10. \A j \in job'[p].chk : \E s \in loaded \ job'[p].todo : Agree(j, s)'
    BY <1>6, <1>9 DEF RowsOK
  <1>11. \A s \in loaded \ job'[p].todo : \E j \in job'[p].chk : Agree(j, s)'
    BY <1>6, <1>7, <1>9 DEF RowsOK
  <1>12. QED
    BY <1>6, <1>8, <1>10, <1>11 DEF RowsOK, Sound

(* Rows and entries are the same queues when all rows are taken and all    *)
(* entries are checked; then there are as many of both.                    *)
LEMMA AllMatched ==
    ASSUME ListTypes, ListOK, InUse, NEW p \in Procs, RowsOK(p),
           job[p].todo = {}, Unchecked(p) = {}
    PROVE  Matched
  <1>1. job[p].chk = Indices
    BY DEF RowsOK, Unchecked
  <1>2. \A i \in Indices : \E r \in loaded : Agree(i, r)
    BY <1>1 DEF RowsOK
  <1>3. \A r \in loaded : \E i \in Indices : Agree(i, r)
    BY <1>1 DEF RowsOK
  <1>4. {<<Queue(i).uri, Queue(i).name>> : i \in Indices} = {<<r.uri, r.name>> : r \in loaded}
    BY <1>2, <1>3 DEF Agree
  <1> DEFINE f == [i \in Indices |-> CHOOSE r \in loaded : Agree(i, r)]
  <1>5. \A i \in Indices : f[i] \in loaded /\ Agree(i, f[i])
    BY <1>2
  <1> HIDE DEF f
  <1>6. f \in [Indices -> loaded]
    BY <1>5 DEF f
  <1>7. \A i, j \in Indices : f[i] = f[j] => i = j
    BY <1>5 DEF Agree, ListOK, Unique
  <1>8. \A r \in loaded : \E i \in Indices : f[i] = r
    BY <1>3, <1>5 DEF Agree, RowsOK, Sound
  <1>9. f \in Bijection(Indices, loaded)
    BY <1>6, <1>7, <1>8 DEF Bijection, Injection, Surjection, IsInjective
  <1>10. IsFiniteSet(Indices) /\ Cardinality(Indices) = mohq_cnt
    <2>1. 1 <= mohq_cnt + 1 /\ mohq_cnt \in Int /\ mohq_cnt \in Nat
      BY DEF ListTypes
    <2>2. IsFiniteSet(1..mohq_cnt) /\ Cardinality(1..mohq_cnt) = IF 1 > mohq_cnt THEN 0 ELSE mohq_cnt - 1 + 1
      BY <2>1, FS_Interval
    <2>3. QED
      BY <2>1, <2>2 DEF Indices
  <1>11. Cardinality(loaded) = Cardinality(Indices)
    BY <1>9, <1>10, FS_Bijection DEF ExistsBijection
  <1>12. QED
    BY <1>4, <1>10, <1>11 DEF Matched

-----------------------------------------------------------------------------
(* Who loads the list is alone with it.                                    *)
LEMMA LoadsAlone ==
    ASSUME ControlOK, LocksOK, NEW p \in Procs, pc[p] \in LoadPlaces, NEW q \in Procs \ {p}
    PROVE  pc[q] \notin LoadPlaces \cup MessagePlaces
  <1>1. CASE job[p].op = "init"
    <2>1. Initialising(p) /\ phase = "starting" /\ Busy(p)
      BY <1>1, Phases, PlacesApart DEF Initialising, Busy
    <2>2. ~Busy(q)
      BY <2>1 DEF ControlOK, PhaseOK
    <2>3. QED
      BY <2>2, PlacesApart DEF Busy
  <1>2. CASE job[p].op # "init"
    <2>1. Busy(p) /\ ~Initialising(p)
      BY <1>2, PlacesApart DEF Busy, Initialising
    <2>2. phase = "up"
      BY <2>1, Phases
    <2>3. q \notin Users
      BY <1>2 DEF LocksOK, QueuesBalanced, Loaders, LoadsList
    <2>4. ~Initialising(q)
      BY <2>2 DEF ControlOK, PhaseOK
    <2>5. QED
      BY <2>3, <2>4 DEF Users, UsesList, Initialising
  <1>3. QED
    BY <1>1, <1>2

(* A step of a load leaves the list in order, and at its end rows and      *)
(* entries match.                                                          *)
LoadedTypes == loaded = None \/ loaded \subseteq Row
TableTypes == rows \subseteq Row /\ edits \in 0..MaxEdits

LEMMA LoadKeepsList ==
    ASSUME TypeOK, ControlOK, LocksOK, ListOK, LoadOK, MatchOK, NEW p \in Procs, InUse,
           LoadStep(p), Frame(p), UNCHANGED phase
    PROVE  ListTypes' /\ LoadedTypes' /\ ListOK' /\ LoadOK' /\ MatchOK' /\ UNCHANGED table
  <1> DEFINE Goal == ListTypes' /\ LoadedTypes' /\ ListOK' /\ LoadOK' /\ MatchOK' /\ UNCHANGED table
  <1>1. ListTypes /\ LoadedTypes /\ job[p] \in Jobs /\ ControlTypes
    BY DEF TypeOK, ListTypes, LoadedTypes, ControlOK
  <1>2. pc[p] \in LoadPlaces /\ UNCHANGED table
    BY DEF LoadStep, Query, LoadRow, Sweep, Swept, LoadPlaces
  <1>3. \A q \in Procs \ {p} : pc[q] # "rows" /\ pc'[q] # "rows"
    BY <1>2, LoadsAlone DEF Frame, LoadPlaces
  <1>4. \A l, j : GotoWith(p, l, j) => pc'[p] = l /\ job'[p] = j
    BY <1>1 DEF ControlTypes, GotoWith
  <1>5. EndLoad(p) => pc'[p] # "rows"
    BY <1>4 DEF EndLoad
  <1>6. (pc'[p] = "rows" => RowsOK(p)') => LoadOK'
    BY <1>3 DEF LoadOK
  <1>7. ASSUME pc'[p] = "rows", RowsOK(p)' PROVE MatchOK' /\ LoadOK'
    BY <1>2, <1>6, <1>7 DEF MatchOK, table, Sound
  <1>8. ASSUME pc'[p] # "rows", loaded' = None \/ Matched' PROVE MatchOK' /\ LoadOK'
    BY <1>2, <1>6, <1>8 DEF MatchOK, table, Sound
  <1>9. CASE Query(p) /\ EndLoad(p) /\ UNCHANGED loaded
    <2>1. UNCHANGED list /\ \A q \in Procs : pc[q] # "rows"
      BY <1>3, <1>9 DEF Query, list
    <2>2. ListOK' /\ ListTypes' /\ LoadedTypes'
      BY <1>1, <2>1 DEF ListOK, ListTypes, LoadedTypes, list, InUse, Unique, Indices, Queue
    <2>3. loaded = None \/ Matched
      BY <2>1 DEF MatchOK
    <2>4. loaded' = None \/ Matched'
      BY <2>1, <2>3 DEF Matched, list, Indices, Queue
    <2>5. QED
      BY <1>2, <1>5, <1>8, <1>9, <2>2, <2>4
  <1>10. CASE /\ Query(p) /\ loaded' = rows
              /\ GotoWith(p, "rows", [job[p] EXCEPT !.todo = rows])
    <2>1. UNCHANGED <<mem, pmohq_lst, mohq_cnt>> /\ pc[p] = "load"
      BY <1>10 DEF Query
    <2>2. ListOK' /\ ListTypes'
      BY <1>1, <2>1 DEF ListOK, ListTypes, InUse, Unique, Indices, Queue
    <2>3. rows \subseteq Row /\ Sound(rows)
      BY DEF TypeOK, MatchOK
    <2>4. pc'[p] = "rows" /\ job'[p].todo = rows /\ job'[p].chk = {}
      BY <1>1, <1>4, <1>10, <2>1 DEF Jobs, ControlOK, Fits
    <2>5. RowsOK(p)'
      BY <1>10, <2>3, <2>4 DEF RowsOK, Sound
    <2>6. QED
      BY <1>2, <1>7, <1>10, <2>2, <2>3, <2>4, <2>5 DEF LoadedTypes
  <1>11. ASSUME NEW r \in job[p].todo, NEW i, NextRow(p, r, i)
         PROVE  /\ pc'[p] = "rows" /\ job'[p].todo = job[p].todo \ {r}
                /\ job'[p].chk = job[p].chk \cup {i}
    BY <1>1, <1>4, <1>11 DEF NextRow, Jobs
  <1>12. ASSUME NEW r \in job[p].todo, LoadRow(p), ChangeEntry(p, r) PROVE  Goal
    <2>1. RowsOK(p) /\ r \in Row
      BY <1>12 DEF LoadRow, LoadOK, RowsOK
    <2>2. ListTypes' /\ \E i \in Indices : EntryChanged(i, r) /\ NextRow(p, r, i)
      BY <1>1, <1>12, <2>1, ChangeEntryEffect
    <2>3. PICK i \in Indices : EntryChanged(i, r) /\ NextRow(p, r, i)
      BY <2>2
    <2>4. UNCHANGED loaded
      BY <1>12 DEF ChangeEntry
    <2>5. ListOK' /\ RowsOK(p)'
      BY <1>1, <1>11, <2>1, <2>3, <2>4, RowChanges
    <2>6. QED
      BY <1>1, <1>2, <1>7, <1>11, <2>2, <2>3, <2>4, <2>5 DEF LoadedTypes
  <1>13. ASSUME NEW r \in job[p].todo, LoadRow(p), AddEntry(p, r) PROVE  Goal
    <2>1. RowsOK(p) /\ r \in Row
      BY <1>13 DEF LoadRow, LoadOK, RowsOK
    <2>2. /\ ListTypes'
          /\ \/ /\ EntryAdded(r) /\ NextRow(p, r, mohq_cnt + 1)
                /\ UNCHANGED <<loaded, pmohq_lock>>
             \/ /\ EndLoad(p) /\ loaded' = None
                /\ UNCHANGED <<mem, pmohq_lst, mohq_cnt>>
      BY <1>1, <1>13, <2>1, AddEntryEffect
    <2>3. CASE EntryAdded(r) /\ NextRow(p, r, mohq_cnt + 1) /\ UNCHANGED loaded
      <3>1. ListOK' /\ RowsOK(p)'
        BY <1>1, <1>11, <2>1, <2>3, RowAdds
      <3>2. QED
        BY <1>1, <1>2, <1>7, <1>11, <2>2, <2>3, <3>1 DEF LoadedTypes
    <2>4. CASE EndLoad(p) /\ loaded' = None /\ UNCHANGED <<mem, pmohq_lst, mohq_cnt>>
      <3>1. ListOK'
        BY <2>4 DEF ListOK, InUse, Unique, Indices, Queue
      <3>2. QED
        BY <1>2, <1>5, <1>8, <2>2, <2>4, <3>1 DEF LoadedTypes
    <2>5. QED
      BY <2>2, <2>3, <2>4
  <1>14. CASE Sweep(p)
    <2>1. RowsOK(p) /\ UNCHANGED loaded
      BY <1>14 DEF Sweep, LoadOK
    <2>2. /\ ListTypes'
          /\ \E i \in Unchecked(p) :
                /\ EntryRemoved(i)
                /\ GotoWith(p, "rows", [job[p] EXCEPT !.chk =
                    IF mohq_cnt \in @ THEN (@ \ {mohq_cnt}) \cup {i} ELSE @])
      BY <1>1, <1>14, SweepEffect
    <2>3. PICK i \in Unchecked(p) :
                /\ EntryRemoved(i)
                /\ GotoWith(p, "rows", [job[p] EXCEPT !.chk =
                    IF mohq_cnt \in @ THEN (@ \ {mohq_cnt}) \cup {i} ELSE @])
      BY <2>2
    <2>4. /\ pc'[p] = "rows" /\ job'[p].todo = job[p].todo
          /\ job'[p].chk = IF mohq_cnt \in job[p].chk
                           THEN (job[p].chk \ {mohq_cnt}) \cup {i} ELSE job[p].chk
      <3> DEFINE c == IF mohq_cnt \in job[p].chk
                      THEN (job[p].chk \ {mohq_cnt}) \cup {i} ELSE job[p].chk
      <3>1. GotoWith(p, "rows", [job[p] EXCEPT !.chk = c])
        BY <1>1, <2>3 DEF Jobs
      <3> HIDE DEF c
      <3>2. pc'[p] = "rows" /\ job'[p] = [job[p] EXCEPT !.chk = c]
        BY <1>4, <3>1
      <3>3. job'[p].todo = job[p].todo /\ job'[p].chk = c
        BY <1>1, <3>2 DEF Jobs
      <3>4. QED
        BY <3>2, <3>3 DEF c
    <2>5. ListOK' /\ RowsOK(p)'
      BY <1>1, <2>1, <2>3, <2>4, EntryGoes
    <2>6. QED
      BY <1>1, <1>2, <1>7, <2>1, <2>2, <2>4, <2>5 DEF LoadedTypes
  <1>15. CASE Swept(p)
    <2>1. RowsOK(p) /\ UNCHANGED list /\ job[p].todo = {} /\ Unchecked(p) = {} /\ EndLoad(p)
      BY <1>15 DEF Swept, LoadOK
    <2>2. ListOK' /\ ListTypes' /\ LoadedTypes'
      BY <1>1, <2>1 DEF ListOK, ListTypes, LoadedTypes, list, InUse, Unique, Indices, Queue
    <2>3. Matched
      BY <1>1, <2>1, AllMatched
    <2>4. Matched'
      BY <2>1, <2>3 DEF Matched, list, Indices, Queue
    <2>5. QED
      BY <1>2, <1>5, <1>8, <2>1, <2>2, <2>4
  <1>16. CASE Query(p)
    BY <1>9, <1>10, <1>16 DEF Query
  <1>17. CASE LoadRow(p)
    BY <1>12, <1>13, <1>17 DEF LoadRow
  <1>18. QED
    BY <1>14, <1>15, <1>16, <1>17 DEF LoadStep

(* The other steps of a process but the way out leave the list alone.      *)
LEMMA ListUntouched ==
    ASSUME ControlOK, NEW p \in Procs,
           (Start(p) /\ ~InitErr(p)) \/ UserStimulus(p) \/ UserStep(p)
    PROVE  UNCHANGED <<table, list>> /\ pc[p] # "rows" /\ pc'[p] # "rows"
  <1> DEFINE Goal == UNCHANGED <<table, list>> /\ pc[p] # "rows" /\ pc'[p] # "rows"
  <1>1. pc \in [Procs -> Places]
    BY DEF ControlOK, ControlTypes
  <1>2. CASE ModInit(p)
    BY <1>1, <1>2 DEF ModInit, GotoWith, ControlOK, PhaseOK, Busy
  <1>3. CASE InitCfg(p) \/ InitDb(p) \/ Bind(p) \/ FindPv(p)
    BY <1>1, <1>3 DEF InitCfg, InitDb, Bind, FindPv, StartPart, Goto
  <1>4. CASE RegisterRpc(p) \/ InitQueueLock(p) \/ InitCallLock(p)
    BY <1>1, <1>4
    DEF RegisterRpc, InitQueueLock, InitCallLock, LockInitFails, StartPart, Goto, Return, GotoWith
  <1>5. CASE UserStimulus(p)
    <2>1. CASE StartMessage(p)
      BY <1>1, <2>1 DEF StartMessage, GotoWith
    <2>2. ASSUME NEW s \in Slots, Callback(p, s) PROVE  Goal
      BY <1>1, <2>2 DEF Callback, SetState
    <2>3. ASSUME NEW op, NEW n, FindQname(p, op, n) PROVE  Goal
      BY <1>1, <2>3 DEF FindQname, GotoWith
    <2>4. QED
      BY <1>5, <2>1, <2>2, <2>3 DEF UserStimulus
  <1>6. CASE UserStep(p)
    <2>1. CASE BeginLoad(p)
      BY <1>1, <2>1 DEF BeginLoad, Goto
    <2>2. CASE Lookup(p)
      BY <1>1, <2>2 DEF Lookup, LeaveMessage, Return, GotoWith, FirstInvite, OfCall, Found
    <2>3. CASE Handle(p)
      BY <1>1, <2>3 DEF Handle, SetState
    <2>4. CASE StartScan(p)
      BY <1>1, <2>4 DEF StartScan, Return, GotoWith
    <2>5. CASE ScanSlot(p)
      BY <1>1, <2>5 DEF ScanSlot, SetState, GotoWith
    <2>6. CASE EndScan(p)
      BY <1>1, <2>6 DEF EndScan, SetState, Return, GotoWith
    <2>7. CASE AddCallRec(p) \/ SetResult(p)
      BY <1>1, <2>7 DEF AddCallRec, SetResult, Goto, Return, GotoWith
    <2>8. QED
      BY <1>6, <2>1, <2>2, <2>3, <2>4, <2>5, <2>6, <2>7 DEF UserStep
  <1>7. QED
    BY <1>2, <1>3, <1>4, <1>5, <1>6 DEF Start

(* What does not touch the list and no load loses nothing.                 *)
LEMMA ListStays ==
    ASSUME ListTypes, LoadedTypes, ListOK, LoadOK, MatchOK, NEW p \in Procs,
           UNCHANGED list, Frame(p), pc[p] # "rows", pc'[p] # "rows", InUse' => InUse,
           Sound(rows)'
    PROVE  ListTypes' /\ LoadedTypes' /\ ListOK' /\ LoadOK' /\ MatchOK'
  <1>1. \A q \in Procs : pc'[q] = "rows" <=> pc[q] = "rows"
    BY DEF Frame
  <1>2. ListTypes' /\ LoadedTypes' /\ ListOK'
    BY DEF list, ListTypes, LoadedTypes, ListOK, Unique, Indices, Queue
  <1>3. LoadOK'
    <2>1. ASSUME NEW q \in Procs, pc'[q] = "rows" PROVE RowsOK(q)'
      <3>1. q # p /\ RowsOK(q)
        BY <1>1, <2>1 DEF LoadOK
      <3>2. job'[q].todo = job[q].todo /\ job'[q].chk = job[q].chk
        BY <3>1 DEF Frame, Aside
      <3>3. QED
        BY <3>1, <3>2 DEF RowsOK, Agree, list, Indices, Queue, Sound
    <2>2. QED
      BY <2>1 DEF LoadOK
  <1>4. MatchOK'
    <2>1. Matched => Matched'
      BY DEF Matched, list, Indices, Queue
    <2>2. QED
      BY <1>1, <2>1 DEF MatchOK, list
  <1>5. QED
    BY <1>2, <1>3, <1>4

(* An entry in use is an entry.                                            *)
LEMMA UsedEntries == ASSUME TypeOK, ListOK PROVE phase = "up" => EntriesOK
  <1>1. ASSUME phase = "up" PROVE EntriesOK
    BY <1>1, EntryTypes DEF EntriesOK, ListTypes, TypeOK, InUse
  <1>2. QED
    BY <1>1

(* The list is given back.                                                 *)
LEMMA FreedList ==
    ASSUME ListTypes, LoadedTypes, MatchOK, ListFreed \/ UNCHANGED list, UNCHANGED table,
           ~InUse', \A q \in Procs : pc'[q] # "rows"
    PROVE  ListTypes' /\ LoadedTypes' /\ ListOK' /\ LoadOK' /\ MatchOK'
  <1>1. ListTypes' /\ LoadedTypes'
    <2>1. CASE ListFreed
      BY <2>1, EmptySeq DEF ListFreed, ListTypes, LoadedTypes
    <2>2. CASE UNCHANGED list
      BY <2>2 DEF list, ListTypes, LoadedTypes
    <2>3. QED
      BY <2>1, <2>2
  <1>2. QED
    BY <1>1 DEF ListOK, LoadOK, MatchOK, table, Sound

(* While the module starts, nobody but the first process is active.       *)
LEMMA Starting ==
    ASSUME ControlOK, NEW p \in Procs, Start(p)
    PROVE  /\ \A q \in Procs \ {p} : pc[q] = "idle"
           /\ \/ phase = "down" /\ pc[p] = "idle" /\ ModInit(p)
              \/ phase = "starting" /\ pc[p] \in StartPlaces
  <1>1. CASE ModInit(p)
    BY <1>1 DEF ModInit, ControlOK, PhaseOK, Busy
  <1>2. CASE ~ModInit(p)
    <2>1. pc[p] \in StartPlaces
      BY <1>2
      DEF Start, InitCfg, InitDb, Bind, RegisterRpc, FindPv, InitQueueLock, InitCallLock,
          InitErr, StartPart, StartPlaces
    <2>2. Initialising(p) /\ phase = "starting" /\ Busy(p)
      BY <2>1, Phases, PlacesApart DEF Busy
    <2>3. QED
      BY <2>1, <2>2 DEF ControlOK, PhaseOK, Busy
  <1>3. QED
    BY <1>1, <1>2

(* Every step keeps the list in order.                                     *)
ListInv == ListOK /\ LoadOK /\ MatchOK

LEMMA ListStep ==
    ASSUME TypeOK, ControlOK, LocksOK, ListInv, [Next]_vars
    PROVE  ListTypes' /\ LoadedTypes' /\ TableTypes' /\ ListInv'
  <1> USE DEF ListInv
  <1> DEFINE Goal == ListTypes' /\ LoadedTypes' /\ TableTypes' /\ ListInv'
  <1>1. ListTypes /\ LoadedTypes /\ TableTypes /\ ControlTypes /\ MaxEdits \in Nat
    BY ListAssumption DEF TypeOK, ListTypes, LoadedTypes, TableTypes, ControlOK
  <1>2. UNCHANGED table => TableTypes' /\ Sound(rows)'
    BY <1>1 DEF table, TableTypes, MatchOK, Sound
  <1>3. ASSUME NEW p \in Procs, Start(p) \/ (Work(p) /\ UNCHANGED lifeVars) PROVE Goal
    <2>1. Frame(p)
      BY <1>3, ProcessControl, UsedEntries DEF Orderly
    <2>2. CASE Start(p) /\ ~InitErr(p)
      <3>1. UNCHANGED <<table, list>> /\ pc[p] # "rows" /\ pc'[p] # "rows"
        BY <2>2, ListUntouched
      <3>2. phase \in {"down", "starting"}
        BY <2>2, Starting
      <3>3. QED
        BY <1>1, <1>2, <2>1, <3>1, <3>2, ListStays DEF InUse
    <2>3. CASE InitErr(p)
      <3>1. pc[p] \in StartPlaces /\ Return(p) /\ phase' = "failed" /\ UNCHANGED table
            /\ (ListFreed \/ UNCHANGED list)
        BY <2>3 DEF InitErr, StartPlaces
      <3>2. \A q \in Procs : pc'[q] = "idle"
        BY <1>1, <2>1, <2>3, <3>1, Starting, ReturnEffect DEF Frame, Start
      <3>3. QED
        BY <1>1, <1>2, <3>1, <3>2, FreedList DEF InUse
    <2>4. CASE LoadStep(p) /\ Work(p) /\ UNCHANGED lifeVars
      <3>1. InUse /\ UNCHANGED phase
        BY <2>4 DEF Work, lifeVars, InUse
      <3>2. QED
        BY <1>2, <2>1, <2>4, <3>1, LoadKeepsList
    <2>5. CASE (UserStimulus(p) \/ UserStep(p)) /\ UNCHANGED lifeVars
      <3>1. UNCHANGED <<table, list>> /\ pc[p] # "rows" /\ pc'[p] # "rows"
        BY <2>5, ListUntouched
      <3>2. QED
        BY <1>1, <1>2, <2>1, <2>5, <3>1, ListStays DEF InUse, lifeVars
    <2>6. QED
      BY <1>3, <2>2, <2>3, <2>4, <2>5 DEF Work
  <1>4. ASSUME UNCHANGED <<list, pc, job>>, InUse' => InUse, Sound(rows)', TableTypes'
        PROVE  Goal
    <2>1. ListTypes' /\ LoadedTypes' /\ ListOK'
      BY <1>1, <1>4 DEF list, ListTypes, LoadedTypes, ListOK, Unique, Indices, Queue
    <2>2. LoadOK'
      BY <1>4 DEF LoadOK, RowsOK, Agree, list, Indices, Queue, Sound
    <2>3. MatchOK'
      BY <1>4 DEF MatchOK, Matched, list, Indices, Queue
    <2>4. QED
      BY <1>4, <2>1, <2>2, <2>3
  <1>5. CASE EditTable /\ UNCHANGED lifeVars
    <2>1. PICK t \in SUBSET Row : Edited(t)
      BY <1>1, <1>5 DEF EditTable, TableTypes
    <2>2. UNCHANGED <<list, pc, job>> /\ Sound(rows)' /\ TableTypes'
      BY <1>1, <2>1 DEF Edited, Sound, TableTypes
    <2>3. QED
      BY <1>4, <1>5, <2>2 DEF InUse, lifeVars
  <1>6. CASE ModDestroy
    <2>1. ListFreed /\ UNCHANGED table /\ ~InUse' /\ \A q \in Procs : pc'[q] # "rows"
      BY <1>6 DEF ModDestroy, InUse
    <2>2. QED
      BY <1>1, <1>2, <2>1, FreedList
  <1>7. CASE UNCHANGED vars
    BY <1>2, <1>4, <1>7 DEF vars, qvars, lifeVars, InUse
  <1>8. QED
    BY <1>3, <1>5, <1>6, <1>7 DEF Next

(* So does the beginning.                                                  *)
LEMMA ListInit == Init => ListTypes /\ LoadedTypes /\ TableTypes /\ ListInv
  <1> SUFFICES ASSUME Init PROVE ListTypes /\ LoadedTypes /\ TableTypes /\ ListInv
    OBVIOUS
  <1>1. ListTypes /\ LoadedTypes /\ TableTypes
    BY ListAssumption, EmptySeq DEF Init, ListTypes, LoadedTypes, TableTypes
  <1>2. Indices = {}
    BY DEF Init, Indices
  <1>3. ListOK /\ LoadOK
    BY <1>2 DEF Init, ListOK, LoadOK, Unique
  <1>4. Matched
    BY <1>2, FS_EmptySet DEF Init, Matched
  <1>5. QED
    BY <1>1, <1>3, <1>4 DEF Init, ListInv, MatchOK

-----------------------------------------------------------------------------
(* A message handler begins with the entry it found, and a new call's goes *)
(* on with it when the call is in the table.                               *)
LEMMA HandlerBegins ==
    ASSUME TypeOK, ControlOK, NEW p \in Procs, pc'[p] \in {"create", "handle"},
           Start(p) \/ (Work(p) /\ UNCHANGED lifeVars)
    PROVE  /\ UNCHANGED list
           /\ \/ pc[p] = "create" /\ UNCHANGED job
              \/ \E i \in Indices, u \in Uris :
                    /\ Queue(i).uri = u
                    /\ job'[p].idx = i /\ job'[p].uri = u /\ job'[p].asked = Queue(i).id
  <1>1. pc \in [Procs -> Places] /\ job \in [Procs -> Jobs] /\ job[p] \in Jobs
    BY DEF ControlOK, ControlTypes
  <1>2. ~Start(p)
    BY <1>1, Starting
    DEF Start, ModInit, InitCfg, InitDb, Bind, RegisterRpc, FindPv, InitQueueLock,
        InitCallLock, InitErr, LockInitFails, StartPart, Goto, Return, GotoWith
  <1>3. ~LoadStep(p)
    BY <1>1
    DEF LoadStep, Query, LoadRow, ChangeEntry, AddEntry, NextRow, Sweep, Swept, EndLoad, GotoWith
  <1>4. ~UserStimulus(p)
    BY <1>1 DEF UserStimulus, StartMessage, Callback, FindQname, SetState, GotoWith
  <1>5. ~(BeginLoad(p) \/ Handle(p) \/ StartScan(p) \/ ScanSlot(p) \/ EndScan(p) \/ SetResult(p))
    BY <1>1
    DEF BeginLoad, Handle, StartScan, ScanSlot, EndScan, SetResult, SetState, Return, Goto, GotoWith
  <1>6. CASE AddCallRec(p)
    BY <1>6 DEF AddCallRec, Goto, list
  <1> SUFFICES ASSUME ~AddCallRec(p)
               PROVE  /\ UNCHANGED list
                      /\ \E i \in Indices, u \in Uris :
                            /\ Queue(i).uri = u /\ job'[p].idx = i
                            /\ job'[p].uri = u /\ job'[p].asked = Queue(i).id
    BY <1>6
  <1>7. Lookup(p)
    BY <1>2, <1>3, <1>4, <1>5 DEF Work, UserStep
  <1>8. UNCHANGED list /\ ~LeaveMessage(p)
    BY <1>1, <1>7 DEF Lookup, LeaveMessage, Return, GotoWith
  <1>9. PICK u \in Uris : \E i \in Matches(u) : FirstInvite(p, u, i) \/ OfCall(p, u, i)
    BY <1>7, <1>8 DEF Lookup
  <1>10. PICK i \in Matches(u) : FirstInvite(p, u, i) \/ OfCall(p, u, i)
    BY <1>9
  <1>11. PICK l, op, s : Found(p, l, op, u, i, s)
    BY <1>10 DEF FirstInvite, OfCall
  <1>12. job'[p] = [job[p] EXCEPT !.op = op, !.uri = u, !.idx = i, !.slot = s,
                                  !.asked = Queue(i).id]
    BY <1>1, <1>11 DEF Found, GotoWith
  <1>13. job'[p].idx = i /\ job'[p].uri = u /\ job'[p].asked = Queue(i).id
    BY <1>1, <1>12 DEF Jobs
  <1>14. QED
    BY <1>8, <1>10, <1>13 DEF Matches

(* It keeps its entry: who holds the queue lock bars every load, and the   *)
(* list is given back when nobody handles anything.                        *)
LEMMA HandlersStep ==
    ASSUME TypeOK, ControlOK, LocksOK, ListOK, HandlersKeepQueue, [Next]_vars
    PROVE  HandlersKeepQueue'
  <1> DEFINE Keeps(q) ==
                /\ job[q].idx \in Indices
                /\ Queue(job[q].idx).id = job[q].asked /\ Queue(job[q].idx).uri = job[q].uri
  <1>1. ASSUME UNCHANGED list, NEW q \in Procs, pc[q] \in {"create", "handle"},
               Aside(job[q], job'[q])
        PROVE  Keeps(q)'
    BY <1>1 DEF HandlersKeepQueue, Aside, list, Indices, Queue
  <1>2. ASSUME NEW p \in Procs, Start(p) \/ (Work(p) /\ UNCHANGED lifeVars)
        PROVE  HandlersKeepQueue'
    <2>1. Frame(p)
      BY <1>2, ProcessControl, UsedEntries DEF Orderly
    <2>2. ASSUME pc'[p] \in {"create", "handle"} PROVE Keeps(p)'
      <3>1. UNCHANGED list
        BY <1>2, <2>2, HandlerBegins
      <3>2. CASE pc[p] = "create" /\ UNCHANGED job
        BY <1>1, <3>1, <3>2, AsideSelf
      <3>3. CASE \E i \in Indices, u \in Uris :
                    /\ Queue(i).uri = u
                    /\ job'[p].idx = i /\ job'[p].uri = u /\ job'[p].asked = Queue(i).id
        BY <3>1, <3>3 DEF list, Indices, Queue
      <3>4. QED
        BY <1>2, <2>2, <3>2, <3>3, HandlerBegins
    <2>3. ASSUME NEW q \in Procs \ {p}, pc[q] \in {"create", "handle"} PROVE UNCHANGED list
      <3>1. ~Start(p)
        BY <2>3, Starting
      <3>2. ~LoadStep(p)
        <4>1. LoadStep(p) => pc[p] \in LoadPlaces
          BY DEF LoadStep, Query, LoadRow, Sweep, Swept, LoadPlaces
        <4>2. QED
          BY <2>3, <4>1, LoadsAlone DEF MessagePlaces
      <3>3. QED
        BY <1>2, <3>1, <3>2, ListUntouched DEF Work
    <2>4. QED
      BY <1>1, <2>1, <2>2, <2>3 DEF Frame, HandlersKeepQueue
  <1>3. CASE EditTable
    <2>1. UNCHANGED <<list, pc, job>>
      BY <1>3 DEF EditTable, Edited
    <2>2. QED
      BY <1>1, <2>1, AsideSelf DEF HandlersKeepQueue
  <1>4. CASE ModDestroy
    BY <1>4 DEF ModDestroy, HandlersKeepQueue
  <1>5. CASE UNCHANGED vars
    BY <1>1, <1>5, AsideSelf DEF HandlersKeepQueue, vars, qvars
  <1>6. QED
    BY <1>2, <1>3, <1>4, <1>5 DEF Next

-----------------------------------------------------------------------------
(* Only the block in use is taken, and none if no entry counts; this needs *)
(* that a load never sweeps the last entry, so a usable row is left.       *)
Empty == \A b \in Blocks : mem[b] = <<>>

OneBlock ==
    /\ InUse /\ mohq_cnt = 0 => Empty
    /\ \A b \in Blocks : b # pmohq_lst => mem[b] = <<>>

BlocksOK ==
    /\ OneBlock
    /\ phase = "down" => Empty
    /\ ~InUse /\ shm["pmod_data"] # "live" => Empty

(* pmod_data is there while the module starts and works; what was given    *)
(* back earlier was given back on the way out.                             *)
ShmOK ==
    /\ phase \in {"starting", "up"} => shm["pmod_data"] = "live"
    /\ phase = "down" => \A o \in Objects : shm[o] = "none"
    /\ phase = "stopped" =>
        shm["pmod_data"] # "live" /\ \A o \in Objects : shm[o] \in {"none", "freed"}
    /\ shm["pmod_data"] = "live" /\ (\A p \in Procs : pc[p] # "initerr") =>
        \A o \in Objects : shm[o] \in {"none", "live"}

ShmTypes == shm \in [Objects -> {"none", "live", "freed", "twice"}]

LEMMA LoadKeepsBlocks ==
    ASSUME "empty" \notin QFaults, TypeOK, ControlOK, ListInv, OneBlock,
           NEW p \in Procs, InUse, LoadStep(p), UNCHANGED phase
    PROVE  OneBlock'
  <1> USE DEF ListInv
  <1>1. ListTypes
    BY DEF TypeOK, ListTypes
  <1>2. CASE UNCHANGED <<mem, pmohq_lst, mohq_cnt>>
    BY <1>2 DEF OneBlock, Empty, InUse
  <1>3. pc[p] = "rows" => RowsOK(p) /\ loaded # {}
    BY DEF LoadOK, RowsOK, Sound
  <1>4. ASSUME NEW r \in job[p].todo, LoadRow(p), ChangeEntry(p, r) PROVE OneBlock'
    <2>1. r \in Row
      BY <1>3, <1>4 DEF LoadRow, RowsOK
    <2>2. PICK i \in Indices : EntryChanged(i, r)
      BY <1>1, <1>4, <2>1, ChangeEntryEffect
    <2>3. mohq_cnt # 0
      BY <1>1 DEF Indices, ListTypes
    <2>4. QED
      BY <2>2, <2>3 DEF EntryChanged, OneBlock
  <1>5. ASSUME NEW r \in job[p].todo, LoadRow(p), AddEntry(p, r) PROVE OneBlock'
    <2>1. r \in Row
      BY <1>3, <1>5 DEF LoadRow, RowsOK
    <2>2. EntryAdded(r) \/ UNCHANGED <<mem, pmohq_lst, mohq_cnt>>
      BY <1>1, <1>5, <2>1, AddEntryEffect
    <2>3. CASE EntryAdded(r)
      <3>1. mohq_cnt' # 0
        BY <1>1, <2>3 DEF EntryAdded, ListTypes
      <3>2. ASSUME NEW b \in Blocks, b # pmohq_lst' PROVE mem'[b] = <<>>
        <4>1. mem'[b] = IF b = pmohq_lst /\ mohq_cnt > 0 THEN <<>> ELSE mem[b]
          BY <2>3, <3>2 DEF EntryAdded
        <4>2. CASE b # pmohq_lst
          BY <4>1, <4>2 DEF OneBlock
        <4>3. CASE mohq_cnt = 0
          BY <4>1, <4>3 DEF OneBlock, Empty
        <4>4. QED
          BY <1>1, <4>1, <4>2, <4>3 DEF ListTypes
      <3>3. QED
        BY <3>1, <3>2 DEF OneBlock
    <2>4. QED
      BY <1>2, <2>2, <2>3
  <1>6. CASE Sweep(p)
    <2>1. PICK i \in Unchecked(p) : EntryRemoved(i)
      BY <1>1, <1>6, SweepEffect
    <2>2. RowsOK(p) /\ loaded # {} /\ job[p].todo = {}
      BY <1>3, <1>6 DEF Sweep
    <2>3. PICK j \in job[p].chk : j \in Indices
      BY <2>2 DEF RowsOK
    <2>4. i \in Indices /\ i # j
      BY <2>1, <2>3 DEF Unchecked
    <2>5. mohq_cnt' # 0
      BY <1>1, <2>1, <2>3, <2>4 DEF EntryRemoved, Indices, ListTypes
    <2>6. QED
      BY <2>1, <2>5 DEF EntryRemoved, OneBlock
  <1>7. CASE Query(p) \/ Swept(p)
    BY <1>2, <1>7 DEF Query, Swept, list
  <1>8. QED
    BY <1>4, <1>5, <1>6, <1>7 DEF LoadStep, LoadRow

(* What an exit gives back.                                                *)
LEMMA FreedBlocks == ASSUME OneBlock, ListTypes, ListFreed PROVE Empty' /\ OneBlock'
  BY DEF OneBlock, ListTypes, ListFreed, Empty

LEMMA FreedShm ==
    ASSUME NEW objs
    PROVE  \A o \in Objects :
            Freed(objs)[o] = IF o \notin objs THEN shm[o]
                             ELSE IF shm[o] = "live" THEN "freed" ELSE "twice"
  BY DEF Freed

(* The steps of mod_init.                                                  *)
LEMMA StartKeepsMemory ==
    ASSUME TypeOK, ControlOK, ListInv, BlocksOK, ShmOK, NEW p \in Procs, Start(p), Frame(p)
    PROVE  BlocksOK' /\ ShmOK'
  <1>1. /\ \A q \in Procs \ {p} : pc[q] = "idle" /\ pc'[q] = "idle"
        /\ \/ phase = "down" /\ pc[p] = "idle" /\ ModInit(p)
           \/ phase = "starting" /\ pc[p] \in StartPlaces
    BY Starting DEF Frame
  <1>2. ShmTypes /\ ListTypes /\ InUse /\ pc \in [Procs -> Places] /\ ControlTypes
    BY <1>1 DEF TypeOK, ShmTypes, ListTypes, InUse, ControlOK, ControlTypes
  <1>3. "pmod_data" \in Objects /\ "pcall_lst" \in Objects /\ "pmohq_lock" \in Objects
        /\ "pcall_lock" \in Objects
    BY DEF Objects
  <1>4. UNCHANGED list => OneBlock' /\ (Empty => Empty')
    BY <1>2 DEF list, BlocksOK, OneBlock, Empty, InUse
  <1>5. CASE ModInit(p)
    <2>1. UNCHANGED list /\ phase = "down" /\ pc[p] = "idle"
      BY <1>1, <1>5, PlacesApart DEF ModInit
    <2>2. CASE phase' = "starting" /\ Allocated("pmod_data") /\ pc' = [pc EXCEPT ![p] = "cfg"]
      <3>1. ShmTypes' /\ ShmOK'
        BY <1>1, <1>2, <1>3, <2>1, <2>2 DEF Allocated, ShmOK, ShmTypes
      <3>2. BlocksOK'
        BY <1>4, <2>1, <2>2 DEF BlocksOK, InUse
      <3>3. QED
        BY <3>1, <3>2
    <2>3. CASE phase' = "failed" /\ UNCHANGED shm
      <3>1. ShmTypes' /\ ShmOK'
        BY <1>2, <1>3, <2>1, <2>3 DEF ShmOK, ShmTypes
      <3>2. BlocksOK'
        BY <1>4, <2>1, <2>3 DEF BlocksOK
      <3>3. QED
        BY <3>1, <3>2
    <2>4. QED
      BY <1>5, <2>2, <2>3 DEF ModInit, GotoWith
  <1>6. ASSUME pc[p] \in StartPlaces, pc[p] # "initerr", UNCHANGED <<phase, list>>,
               shm' = shm \/ (\E o \in Objects : Allocated(o))
                          \/ (pc'[p] = "initerr" /\ \E o \in Objects \ {"pmod_data"} :
                                shm' = [shm EXCEPT ![o] = "freed"])
        PROVE  BlocksOK' /\ ShmOK' /\ ShmTypes'
    <2>1. phase = "starting" /\ shm["pmod_data"] = "live"
      BY <1>1, <1>6, PlacesApart DEF ShmOK
    <2>2. ShmTypes' /\ shm'["pmod_data"] = "live"
      BY <1>2, <1>3, <1>6, <2>1 DEF Allocated, ShmTypes
    <2>3. \A o \in Objects : shm[o] \in {"none", "live"}
      BY <1>1, <1>6, <2>1 DEF ShmOK
    <2>4. pc'[p] # "initerr" => \A o \in Objects : shm'[o] \in {"none", "live"}
      BY <1>2, <1>6, <2>3 DEF Allocated, ShmTypes
    <2>5. ShmOK'
      BY <1>6, <2>1, <2>2, <2>4 DEF ShmOK
    <2>6. BlocksOK'
      BY <1>4, <1>6, <2>1 DEF BlocksOK, InUse
    <2>7. QED
      BY <2>2, <2>5, <2>6
  <1>7. CASE InitCfg(p) \/ InitDb(p) \/ Bind(p) \/ FindPv(p)
    BY <1>3, <1>6, <1>7
    DEF InitCfg, InitDb, Bind, FindPv, StartPart, StartPlaces
  <1>8. CASE InitQueueLock(p)
    <2>1. Goto(p, "initerr") => pc'[p] = "initerr"
      BY <1>2 DEF Goto
    <2>2. QED
      BY <1>3, <1>6, <1>8, <2>1 DEF InitQueueLock, LockInitFails, StartPart, StartPlaces
  <1>9. ASSUME Return(p), pc[p] \in StartPlaces \ {"initerr"}, UNCHANGED list,
               phase' \in {"up", "failed"},
               shm' = shm \/ \E o \in Objects : Allocated(o)
        PROVE  BlocksOK' /\ ShmOK' /\ ShmTypes'
    <2>1. phase = "starting" /\ shm["pmod_data"] = "live"
      BY <1>1, <1>9, PlacesApart DEF ShmOK
    <2>2. ShmTypes' /\ shm'["pmod_data"] = "live"
      BY <1>2, <1>3, <1>9, <2>1 DEF Allocated, ShmTypes
    <2>3. \A o \in Objects : shm[o] \in {"none", "live"}
      BY <1>1, <1>9, <2>1 DEF ShmOK
    <2>4. \A o \in Objects : shm'[o] \in {"none", "live"}
      BY <1>2, <1>9, <2>3 DEF Allocated, ShmTypes
    <2>5. QED
      BY <1>4, <1>9, <2>2, <2>4 DEF ShmOK, BlocksOK
  <1>10. CASE RegisterRpc(p)
    BY <1>6, <1>9, <1>10 DEF RegisterRpc, StartPlaces
  <1>11. CASE InitCallLock(p)
    <2>1. Goto(p, "initerr") => pc'[p] = "initerr"
      BY <1>2 DEF Goto
    <2>2. QED
      BY <1>3, <1>6, <1>9, <1>11, <2>1 DEF InitCallLock, LockInitFails, StartPlaces
  <1>12. CASE InitErr(p)
    <2>1. phase = "starting" /\ phase' = "failed" /\ shm["pmod_data"] = "live"
      BY <1>1, <1>12, PlacesApart DEF InitErr, ShmOK
    <2>2. Empty' /\ OneBlock'
      <3>1. CASE mohq_cnt > 0
        BY <1>2, <1>12, <3>1, FreedBlocks DEF InitErr, BlocksOK
      <3>2. CASE ~(mohq_cnt > 0)
        <4>1. UNCHANGED list /\ mohq_cnt = 0
          BY <1>2, <1>12, <3>2 DEF InitErr, ListTypes
        <4>2. QED
          BY <1>2, <1>4, <4>1 DEF BlocksOK, OneBlock
      <3>3. QED
        BY <3>1, <3>2
    <2>3. ShmTypes'
      BY <1>2, <1>12, FreedShm DEF InitErr, Freed, ShmTypes
    <2>4. shm'["pmod_data"] = "freed"
      BY <1>3, <1>12, <2>1, FreedShm DEF InitErr
    <2>5. QED
      BY <2>1, <2>2, <2>3, <2>4 DEF BlocksOK, ShmOK
  <1>13. QED
    BY <1>5, <1>7, <1>8, <1>10, <1>11, <1>12 DEF Start

(* Every step keeps account of the memory.                                 *)
LEMMA MemoryStep ==
    ASSUME "empty" \notin QFaults, TypeOK, ControlOK, LocksOK, ListInv, BlocksOK, ShmOK,
           [Next]_vars
    PROVE  BlocksOK' /\ ShmOK'
  <1>1. ListTypes
    BY DEF TypeOK, ListTypes
  <1>2. ASSUME UNCHANGED lifeVars, OneBlock', phase = "down" => UNCHANGED list,
               phase \in {"failed", "stopped"} => UNCHANGED list,
               \A q \in Procs : pc[q] = "initerr" => pc'[q] = "initerr"
        PROVE  BlocksOK' /\ ShmOK'
    BY <1>2 DEF BlocksOK, ShmOK, lifeVars, InUse, list, Empty
  <1>3. UNCHANGED <<list, phase>> => OneBlock'
    BY DEF list, BlocksOK, OneBlock, Empty, InUse
  <1>4. ASSUME NEW p \in Procs, Start(p) \/ (Work(p) /\ UNCHANGED lifeVars)
        PROVE  BlocksOK' /\ ShmOK'
    <2>1. Frame(p)
      BY <1>4, ProcessControl, UsedEntries DEF ListInv, Orderly
    <2>2. CASE Start(p)
      BY <2>1, <2>2, StartKeepsMemory
    <2>3. CASE Work(p) /\ UNCHANGED lifeVars
      <3>1. phase \in {"starting", "up"} /\ InUse /\ UNCHANGED phase
        BY <2>3 DEF Work, InUse, lifeVars
      <3>2. pc[p] # "initerr"
        BY <2>3
        DEF Work, LoadStep, Query, LoadRow, Sweep, Swept, UserStimulus, StartMessage, Callback,
            FindQname, UserStep, BeginLoad, Lookup, AddCallRec, Handle, StartScan, ScanSlot,
            EndScan, SetResult
      <3>3. OneBlock'
        BY <1>3, <2>3, <3>1, LoadKeepsBlocks, ListUntouched DEF Work, BlocksOK
      <3>4. QED
        BY <1>2, <2>1, <2>3, <3>1, <3>2, <3>3 DEF Frame
    <2>4. QED
      BY <1>4, <2>2, <2>3
  <1>5. CASE EditTable /\ UNCHANGED lifeVars
    <2>1. UNCHANGED <<list, pc>>
      BY <1>5 DEF EditTable, Edited
    <2>2. QED
      BY <1>2, <1>3, <1>5, <2>1 DEF lifeVars
  <1>6. CASE ModDestroy
    <2>1. Empty' /\ OneBlock' /\ phase' = "stopped" /\ UNCHANGED pc
      BY <1>1, <1>6, FreedBlocks DEF ModDestroy, BlocksOK
    <2>2. \A o \in Objects : shm[o] \in {"none", "live"}
      BY <1>6 DEF ModDestroy, ShmOK
    <2>3. \A o \in Objects : shm'[o] \in {"none", "freed"}
      BY <1>6, <2>2, FreedShm DEF ModDestroy
    <2>4. "pmod_data" \in Objects
      BY DEF Objects
    <2>5. QED
      BY <2>1, <2>3, <2>4 DEF BlocksOK, ShmOK
  <1>7. CASE UNCHANGED vars
    BY <1>2, <1>3, <1>7 DEF vars, qvars, lifeVars
  <1>8. QED
    BY <1>4, <1>5, <1>6, <1>7 DEF Next

LEMMA MemoryInit == Init => BlocksOK /\ ShmOK
  BY DEF Init, BlocksOK, OneBlock, Empty, ShmOK, Objects

-----------------------------------------------------------------------------
(* A call in the table came at a second, to a queue.                       *)
CallsOK ==
    \A s \in Slots :
        calls[s].state # "free" => calls[s].call_time >= 1 /\ calls[s].joined \in Ids

(* What a scan knows of the slots it passed: the history brackets the      *)
(* calls of its queue, the best one came at a second, and if no pointer    *)
(* was stale the count and the choice are right so far.                    *)
Passed(j) == 0..(j.slot - 1)

HistoryOK(j) == j.kept \subseteq InQueue(j.asked) /\ InQueue(j.asked) \subseteq j.seen

BestOK(j) ==
    j.best # -1 =>
        /\ j.best < j.slot
        /\ calls[j.best].call_time >= 1 /\ calls[j.best].joined \in Ids

CountOK(j) ==
    /\ Cardinality(j.kept \cap Passed(j)) <= j.cnt
    /\ j.cnt <= Cardinality(j.seen \cap Passed(j))

OldestOK(j) ==
    IF j.best = -1 THEN j.kept \cap Passed(j) = {}
    ELSE /\ j.best \in j.seen
         /\ \A s \in j.kept \cap Passed(j) : calls[j.best].call_time <= calls[s].call_time

ScanOK(j) ==
    /\ HistoryOK(j) /\ BestOK(j)
    /\ ~j.bad =>
        /\ j.op = "count" /\ ~j.refused => CountOK(j)
        /\ j.op = "retrieve" => OldestOK(j)

ScansOK ==
    /\ CallsOK
    /\ \A p \in Procs : pc[p] = "scan" => ScanOK(job[p])

CallsTypes == calls \in [Slots -> Call]

(* The sets whose sizes a count lies between are finite.                   *)
LEMMA SlotSets ==
    ASSUME NEW S \in SUBSET Slots, NEW T \in SUBSET S
    PROVE  /\ IsFiniteSet(S) /\ IsFiniteSet(T)
           /\ Cardinality(S) \in Nat /\ Cardinality(T) \in Nat
           /\ Cardinality(T) <= Cardinality(S)
  <1>1. IsFiniteSet(Slots)
    BY ListAssumption, FS_Interval DEF Slots
  <1>2. IsFiniteSet(S)
    BY <1>1, FS_Subset
  <1>3. QED
    BY <1>2, FS_Subset, FS_CardinalityType

(* A change of the state of a call, as the history of a scan k tells it.   *)
NotedIn(k, s, st) ==
    IF calls[s].joined # k.asked THEN k
    ELSE IF st = "queued" THEN [k EXCEPT !.seen = @ \cup {s}]
                          ELSE [k EXCEPT !.kept = @ \ {s}]

(* It leaves a scan right that chose what it still reads.                  *)
LEMMA NotedKeeps ==
    ASSUME CallsTypes, CallsOK, NEW k \in Jobs, ScanOK(k), k.best # -1 => Chosen(k.best),
           NEW s \in Slots, NEW st \in {"free", "busy", "queued"},
           calls' = [calls EXCEPT ![s] =
                IF st = "free" /\ ~Chosen(s) THEN NewCall ELSE [@ EXCEPT !.state = st]]
    PROVE  \A n : n = NotedIn(k, s, st) => ScanOK(n)'
  <1> DEFINE same == calls[s].joined = k.asked
             kept == IF same /\ st # "queued" THEN k.kept \ {s} ELSE k.kept
             seen == IF same /\ st = "queued" THEN k.seen \cup {s} ELSE k.seen
  <1>1. PICK n \in Jobs : /\ n = [k EXCEPT !.kept = kept, !.seen = seen]
                          /\ n.kept = kept /\ n.seen = seen
                          /\ n.op = k.op /\ n.id = k.id /\ n.asked = k.asked /\ n.bad = k.bad
                          /\ n.refused = k.refused
                          /\ n.best = k.best /\ n.slot = k.slot /\ n.cnt = k.cnt
    <2>1. kept \in SUBSET Slots /\ seen \in SUBSET Slots
      BY JobFields
    <2> HIDE DEF kept, seen
    <2>2. [k EXCEPT !.kept = kept, !.seen = seen] \in Jobs
      BY <2>1, JobEdits
    <2>3. QED
      BY <2>2 DEF Jobs
  <1>2. NotedIn(k, s, st) = n
    BY <1>1 DEF NotedIn, Jobs
  <1>3. \A t \in Slots : calls[t] \in Call
    BY DEF CallsTypes
  <1>4. \A t \in Slots \ {s} : calls'[t] = calls[t]
    BY DEF CallsTypes
  <1>5. calls'[s].state = st
    BY <1>3 DEF CallsTypes, NewCall, Call
  <1>6. st # "free" \/ Chosen(s) =>
            calls'[s].call_time = calls[s].call_time /\ calls'[s].joined = calls[s].joined
    BY <1>3 DEF CallsTypes, Call
  <1>7. HistoryOK(n)'
    <2>1. \A t \in Slots \ {s} : t \in InQueue(k.asked)' <=> t \in InQueue(k.asked)
      BY <1>4 DEF InQueue
    <2>2. s \in InQueue(k.asked)' <=> st = "queued" /\ same
      BY <1>5, <1>6 DEF InQueue
    <2>3. n.kept \subseteq InQueue(k.asked)'
      <3>1. ASSUME NEW t \in n.kept PROVE t \in InQueue(k.asked)'
        <4>1. t \in k.kept /\ t \in InQueue(k.asked) /\ t \in Slots
          BY <1>1, JobFields DEF ScanOK, HistoryOK
        <4>2. CASE t = s
          <5>1. same
            BY <4>1, <4>2 DEF InQueue
          <5>2. QED
            BY <1>1, <2>2, <4>2, <5>1
        <4>3. QED
          BY <2>1, <4>1, <4>2
      <3>2. QED
        BY <3>1
    <2>4. InQueue(k.asked)' \subseteq n.seen
      <3>1. ASSUME NEW t \in Slots, t \in InQueue(k.asked)' PROVE t \in n.seen
        <4>1. CASE t = s
          BY <1>1, <2>2, <3>1, <4>1
        <4>2. CASE t # s
          BY <1>1, <2>1, <3>1, <4>2 DEF ScanOK, HistoryOK
        <4>3. QED
          BY <4>1, <4>2
      <3>2. QED
        BY <3>1 DEF InQueue
    <2>5. QED
      BY <1>1, <2>3, <2>4 DEF HistoryOK, InQueue
  <1>8. \A t \in n.kept : t \in k.kept /\ calls'[t].call_time = calls[t].call_time
    <2>1. ASSUME NEW t \in n.kept PROVE calls'[t].call_time = calls[t].call_time
      <3>1. t \in Slots /\ calls'[t].state = "queued"
        BY <1>1, <1>7 DEF HistoryOK, InQueue
      <3>2. QED
        BY <1>4, <1>5, <1>6, <3>1
    <2>2. QED
      BY <1>1, <2>1
  <1>9. k.best # -1 => /\ k.best \in Slots
                       /\ calls'[k.best].call_time = calls[k.best].call_time
                       /\ calls'[k.best].joined = calls[k.best].joined
    BY <1>4, <1>6, JobFields
  <1>10. BestOK(n)'
    BY <1>1, <1>9 DEF ScanOK, BestOK
  <1>11. CountOK(k) => CountOK(n)
    <2>1. /\ Cardinality(n.kept \cap Passed(n)) <= Cardinality(k.kept \cap Passed(k))
          /\ Cardinality(n.kept \cap Passed(n)) \in Nat
          /\ Cardinality(k.kept \cap Passed(k)) \in Nat
      <3>1. n.kept \cap Passed(n) \subseteq k.kept \cap Passed(k)
        BY <1>1 DEF Passed
      <3>2. k.kept \cap Passed(k) \in SUBSET Slots
        BY JobFields
      <3>3. QED
        BY <3>1, <3>2, SlotSets
    <2>2. /\ Cardinality(k.seen \cap Passed(k)) <= Cardinality(n.seen \cap Passed(n))
          /\ Cardinality(k.seen \cap Passed(k)) \in Nat
          /\ Cardinality(n.seen \cap Passed(n)) \in Nat
      <3>1. k.seen \cap Passed(k) \subseteq n.seen \cap Passed(n)
        BY <1>1 DEF Passed
      <3>2. n.seen \cap Passed(n) \in SUBSET Slots
        BY <1>1, JobFields
      <3>3. QED
        BY <3>1, <3>2, SlotSets
    <2>3. k.cnt \in Nat
      BY ListAssumption, JobFields
    <2>4. QED
      BY <1>1, <2>1, <2>2, <2>3 DEF CountOK
  <1>12. OldestOK(k) => OldestOK(n)'
    BY <1>1, <1>8, <1>9 DEF OldestOK, Passed
  <1>13. ScanOK(n)'
    BY <1>1, <1>7, <1>10, <1>11, <1>12 DEF ScanOK, CountOK, Passed
  <1>14. QED
    BY <1>2, <1>13

(* The call a process changes keeps its record's types and what CallsOK    *)
(* asks of it; scans that go on stay right, that of the process too if the *)
(* job j it goes on with was.                                              *)
LEMMA ChangeKeepsScans ==
    ASSUME CallsTypes, ControlTypes, ScansOK, NEW p \in Procs, NEW label, NEW j \in Jobs,
           NEW s \in Slots, NEW st \in {"free", "busy", "queued"},
           SetState(p, label, j, s, st),
           st # "free" => calls[s].call_time >= 1 /\ calls[s].joined \in Ids,
           label = "scan" => /\ pc[p] = "scan" /\ ScanOK(j)
                             /\ j.best = job[p].best /\ j.asked = job[p].asked
    PROVE  CallsTypes' /\ ScansOK'
  <1>1. calls' = [calls EXCEPT ![s] =
                IF st = "free" /\ ~Chosen(s) THEN NewCall ELSE [@ EXCEPT !.state = st]]
    BY DEF SetState
  <1>2. \A t \in Slots : calls[t] \in Call
    BY DEF CallsTypes
  <1>3. NewCall \in Call
    BY ListAssumption DEF NewCall, Call, NULL
  <1>4. [calls[s] EXCEPT !.state = st] \in Call
    BY <1>2 DEF Call
  <1>5. CallsTypes'
    BY <1>1, <1>3, <1>4 DEF CallsTypes
  <1>6. CallsOK'
    <2>1. ASSUME NEW t \in Slots \ {s}, calls'[t].state # "free"
          PROVE  calls'[t].call_time >= 1 /\ calls'[t].joined \in Ids
      BY <1>1, <2>1 DEF ScansOK, CallsOK, CallsTypes
    <2>2. ASSUME calls'[s].state # "free"
          PROVE  calls'[s].call_time >= 1 /\ calls'[s].joined \in Ids
      <3>1. calls'[s] = IF st = "free" /\ ~Chosen(s) THEN NewCall
                        ELSE [calls[s] EXCEPT !.state = st]
        BY <1>1 DEF CallsTypes
      <3>2. CASE st = "free"
        BY <1>2, <2>2, <3>1, <3>2 DEF NewCall, Call
      <3>3. CASE st # "free"
        BY <1>2, <3>1, <3>3 DEF Call
      <3>4. QED
        BY <3>2, <3>3
    <2>3. QED
      BY <2>1, <2>2 DEF CallsOK
  <1> DEFINE jobs == [job EXCEPT ![p] = j]
  <1>7. jobs \in [Procs -> Jobs] /\ jobs[p] = j /\ \A q \in Procs \ {p} : jobs[q] = job[q]
    BY DEF ControlTypes
  <1>8. pc'[p] = label /\ \A q \in Procs \ {p} : pc'[q] = pc[q]
    BY DEF SetState, ControlTypes
  <1>9. ASSUME NEW q \in Procs, pc'[q] = "scan" PROVE ScanOK(job[q])'
    <2>1. pc[q] = "scan" /\ ScanOK(jobs[q]) /\ jobs[q] \in Jobs
          /\ jobs[q].best = job[q].best /\ jobs[q].asked = job[q].asked
      BY <1>7, <1>8, <1>9 DEF ScansOK
    <2>2. jobs[q].best # -1 => Chosen(jobs[q].best)
      BY <2>1 DEF Chosen
    <2> HIDE DEF jobs
    <2>3. PICK n : n = NotedIn(jobs[q], s, st)
      OBVIOUS
    <2>4. ScanOK(n)'
      BY <1>1, <2>1, <2>2, <2>3, NotedKeeps DEF ScansOK
    <2>5. job'[q] = n
      <3>1. job' = Noted(jobs, s, st)
        BY DEF SetState, jobs
      <3>2. QED
        BY <2>1, <2>3, <3>1 DEF Noted, NotedIn
    <2>6. QED
      BY <2>4, <2>5
      DEF ScanOK, HistoryOK, InQueue, BestOK, CountOK, OldestOK, Passed
  <1>10. QED
    BY <1>5, <1>6, <1>9 DEF ScansOK

(* Where no call changes, only the scan of the process has to stay right.  *)
LEMMA RestKeepsScans ==
    ASSUME CallsTypes, ControlTypes, ScansOK, NEW p \in Procs, NEW label, NEW j,
           UNCHANGED calls, GotoWith(p, label, j), label = "scan" => ScanOK(j)
    PROVE  CallsTypes' /\ ScansOK'
  <1>1. CallsTypes' /\ CallsOK'
    BY DEF CallsTypes, ScansOK, CallsOK
  <1>2. pc'[p] = label /\ job'[p] = j /\ \A q \in Procs \ {p} : pc'[q] = pc[q] /\ job'[q] = job[q]
    BY DEF GotoWith, ControlTypes
  <1>3. ASSUME NEW q \in Procs, pc'[q] = "scan" PROVE ScanOK(job[q])'
    <2>1. PICK k : k = job'[q] /\ ScanOK(k)
      BY <1>2, <1>3 DEF ScansOK
    <2>2. QED
      BY <2>1 DEF ScanOK, HistoryOK, InQueue, BestOK, CountOK, OldestOK, Passed
  <1>4. QED
    BY <1>1, <1>3 DEF ScansOK

(* A scan begins: no slot is passed, or mohq_count has no queue. If it has *)
(* no lock, it has been refused one.                                       *)
LEMMA ScanBegins ==
    ASSUME CallsTypes, TypeOK, ControlOK, ScansOK, NEW p \in Procs, StartScan(p)
    PROVE  CallsTypes' /\ ScansOK'
  <1>1. ControlTypes /\ job[p] \in Jobs /\ UNCHANGED calls
    BY DEF ControlOK, TypeOK, StartScan
  <1>2. job[p].best = -1 /\ job[p].cnt = 0 /\ job[p].op \in Scans
        /\ (job[p].idx = 0 => job[p].op = "count" /\ (job[p].asked = None \/ job[p].refused))
    BY DEF StartScan, ControlOK, Fits, ScanPlaces
  <1>3. CASE Return(p)
    BY <1>1, <1>3, RestKeepsScans DEF Return
  <1>4. ASSUME NEW id \in IF job[p].idx = 0 THEN {None} ELSE IdAt(pmohq_lst, job[p].idx),
               GotoWith(p, "scan",
                    [job[p] EXCEPT
                        !.id = id, !.bad = job[p].idx # 0 /\ id # job[p].asked,
                        !.block = IF job[p].op = "drop" THEN pmohq_lst ELSE NULL,
                        !.slot = IF job[p].idx = 0 THEN MaxCalls ELSE 0,
                        !.kept = InQueue(job[p].asked), !.seen = InQueue(job[p].asked)])
        PROVE  CallsTypes' /\ ScansOK'
    <2> DEFINE bad == job[p].idx # 0 /\ id # job[p].asked
               block == IF job[p].op = "drop" THEN pmohq_lst ELSE NULL
               slot == IF job[p].idx = 0 THEN MaxCalls ELSE 0
               set == InQueue(job[p].asked)
               j == [job[p] EXCEPT !.id = id, !.bad = bad, !.block = block,
                                   !.slot = slot, !.kept = set, !.seen = set]
    <2> HIDE DEF bad, block, slot, set
    <2>1. j.kept = set /\ j.seen = set /\ j.slot = slot /\ j.bad = bad
          /\ j.best = -1 /\ j.cnt = 0 /\ j.asked = job[p].asked /\ j.op = job[p].op
          /\ j.refused = job[p].refused
      BY <1>1, <1>2 DEF Jobs
    <2>2. j.op # "count" \/ ~j.refused => set \cap Passed(j) = {}
      <3>1. CASE job[p].idx = 0
        <4>1. job[p].asked = None => set = {}
          BY ListAssumption DEF set, InQueue, ScansOK, CallsOK
        <4>2. QED
          BY <1>2, <2>1, <3>1, <4>1
      <3>2. CASE job[p].idx # 0
        <4>1. Passed(j) = {}
          BY <2>1, <3>2 DEF slot, Passed
        <4>2. QED
          BY <4>1
      <3>3. QED
        BY <3>1, <3>2
    <2>3. HistoryOK(j) /\ BestOK(j)
      BY <2>1 DEF HistoryOK, BestOK, set
    <2>4. j.op # "count" \/ ~j.refused => CountOK(j) /\ OldestOK(j)
      BY <2>1, <2>2, FS_EmptySet DEF CountOK, OldestOK
    <2>5. ScanOK(j)
      BY <2>3, <2>4 DEF ScanOK
    <2>6. GotoWith(p, "scan", j)
      BY <1>4 DEF bad, block, slot, set
    <2>7. QED
      BY <1>1, <2>5, <2>6, RestKeepsScans
  <1>5. ASSUME NEW k, k = [IdleJob EXCEPT !.op = "count", !.refused = TRUE,
                            !.kept = InQueue(job[p].asked), !.seen = InQueue(job[p].asked)],
               GotoWith(p, "result", k)
        PROVE  CallsTypes' /\ ScansOK'
    BY <1>1, <1>5, RestKeepsScans
  <1>6. QED
    BY <1>3, <1>4, <1>5 DEF StartScan

(* A slot is passed over rightly if no call of the scan's queue waited in  *)
(* it all the time.                                                        *)
SameButSlot(j, k) ==
    /\ k.op = j.op /\ k.asked = j.asked /\ k.kept = j.kept /\ k.seen = j.seen
    /\ k.refused = j.refused /\ k.slot = j.slot + 1

LEMMA PassedNext ==
    ASSUME NEW j \in Jobs, NEW k, k.slot = j.slot + 1
    PROVE  Passed(k) = Passed(j) \cup {j.slot} /\ j.slot \notin Passed(j)
  BY JobFields, ListAssumption DEF Passed

LEMMA SlotPassedOver ==
    ASSUME CallsTypes, NEW j \in Jobs, ScanOK(j), NEW k \in Jobs, SameButSlot(j, k),
           k.cnt = j.cnt, k.best = j.best,
           ~k.bad => ~j.bad /\ (j.op # "drop" => j.slot \notin j.kept)
    PROVE  ScanOK(k)
  <1>1. Passed(k) = Passed(j) \cup {j.slot}
    BY PassedNext DEF SameButSlot
  <1>2. HistoryOK(k)
    BY DEF ScanOK, HistoryOK, SameButSlot
  <1>3. BestOK(k)
    BY JobFields, ListAssumption DEF ScanOK, BestOK, SameButSlot, Slots
  <1>4. ASSUME ~k.bad, k.op # "drop" PROVE k.kept \cap Passed(k) = j.kept \cap Passed(j)
    BY <1>1, <1>4 DEF SameButSlot
  <1>5. ASSUME ~k.bad, k.op = "count", ~k.refused PROVE CountOK(k)
    <2>1. CountOK(j) /\ k.kept \cap Passed(k) = j.kept \cap Passed(j)
      BY <1>4, <1>5 DEF ScanOK, SameButSlot
    <2>2. /\ Cardinality(j.seen \cap Passed(j)) <= Cardinality(k.seen \cap Passed(k))
          /\ Cardinality(j.seen \cap Passed(j)) \in Nat
          /\ Cardinality(k.seen \cap Passed(k)) \in Nat
      <3>1. j.seen \cap Passed(j) \subseteq k.seen \cap Passed(k)
        BY <1>1 DEF SameButSlot
      <3>2. k.seen \cap Passed(k) \in SUBSET Slots
        BY JobFields
      <3>3. QED
        BY <3>1, <3>2, SlotSets
    <2>3. j.cnt \in Nat
      BY JobFields, ListAssumption
    <2>4. QED
      BY <2>1, <2>2, <2>3 DEF CountOK
  <1>6. ASSUME ~k.bad, k.op = "retrieve" PROVE OldestOK(k)
    <2>1. OldestOK(j) /\ k.kept \cap Passed(k) = j.kept \cap Passed(j)
      BY <1>4, <1>6 DEF ScanOK, SameButSlot
    <2>2. QED
      BY <2>1 DEF OldestOK, SameButSlot
  <1>7. QED
    BY <1>2, <1>3, <1>5, <1>6 DEF ScanOK, SameButSlot

(* A call of the scan's queue is counted or compared.                      *)
LEMMA SlotCounted ==
    ASSUME CallsTypes, CallsOK, ControlTypes, NEW p \in Procs, ScanOK(job[p]),
           job[p].slot \in Slots, job[p].slot \notin OpenSlots,
           NEW k \in Jobs, SameButSlot(job[p], k),
           k.cnt = Counted(p, job[p].slot).cnt, k.best = Counted(p, job[p].slot).best,
           ~k.bad => ~job[p].bad /\
                (job[p].op # "drop" => calls[job[p].slot].joined = job[p].asked)
    PROVE  ScanOK(k)
  <1> DEFINE j == job[p]
             s == job[p].slot
  <1>1. j \in Jobs /\ calls[s] \in Call /\ calls[s].state # "free"
        /\ calls[s].call_time >= 1 /\ calls[s].joined \in Ids
    BY DEF ControlTypes, CallsTypes, CallsOK, OpenSlots
  <1>2. Passed(k) = Passed(j) \cup {s} /\ s \notin Passed(j)
    BY <1>1, PassedNext DEF SameButSlot
  <1>3. k.cnt = IF j.op = "count" /\ calls[s].state = "queued" THEN j.cnt + 1 ELSE j.cnt
    BY <1>1 DEF Counted, Jobs
  <1>4. k.best = IF j.op = "retrieve" /\ calls[s].state = "queued" /\ Older(p, s)
                 THEN s ELSE j.best
    BY <1>1 DEF Counted, Jobs
  <1>5. HistoryOK(k)
    BY DEF ScanOK, HistoryOK, SameButSlot
  <1>6. BestOK(k)
    <2>1. j.slot \in Nat /\ (j.best # -1 => j.best \in Nat)
      BY <1>1, JobFields, ListAssumption DEF Slots
    <2>2. QED
      BY <1>1, <1>4, <2>1 DEF ScanOK, BestOK, SameButSlot
  <1>7. CASE k.bad \/ k.op = "drop"
    BY <1>5, <1>6, <1>7 DEF ScanOK, SameButSlot
  <1>8. CASE ~k.bad /\ j.op # "drop" /\ calls[s].state # "queued"
    <2>1. s \notin j.kept
      BY <1>8 DEF ScanOK, HistoryOK, InQueue
    <2>2. k.cnt = j.cnt /\ k.best = j.best
      BY <1>3, <1>4, <1>8
    <2>3. QED
      BY <1>1, <1>8, <2>1, <2>2, SlotPassedOver
  <1>9. CASE ~k.bad /\ j.op # "drop" /\ calls[s].state = "queued"
    <2>1. s \in j.seen /\ ~j.bad
      BY <1>9 DEF ScanOK, HistoryOK, InQueue
    <2>2. ASSUME j.op = "count", ~j.refused PROVE CountOK(k)
      <3> DEFINE K == j.kept \cap Passed(j)
                 S == j.seen \cap Passed(j)
      <3>1. CountOK(j) /\ k.cnt = j.cnt + 1 /\ j.cnt \in Nat
        BY <1>1, <1>3, <1>9, <2>1, <2>2, JobFields, ListAssumption DEF ScanOK
      <3>2. K \in SUBSET Slots /\ S \in SUBSET Slots /\ k.kept \cap Passed(k) \in SUBSET (K \cup {s})
            /\ k.seen \cap Passed(k) = S \cup {s} /\ s \notin S
        BY <1>1, <1>2, <2>1, JobFields DEF SameButSlot
      <3>3. Cardinality(K) <= j.cnt /\ j.cnt <= Cardinality(S)
        BY <3>1 DEF CountOK
      <3> HIDE DEF K, S
      <3>4. IsFiniteSet(K) /\ IsFiniteSet(S) /\ Cardinality(K) \in Nat /\ Cardinality(S) \in Nat
        BY <3>2, SlotSets
      <3>5. Cardinality(S \cup {s}) = Cardinality(S) + 1
        BY <3>2, <3>4, FS_AddElement
      <3>6. /\ IsFiniteSet(K \cup {s})
            /\ Cardinality(K \cup {s}) = Cardinality(K) \/ Cardinality(K \cup {s}) = Cardinality(K) + 1
        BY <3>4, FS_AddElement
      <3>7. /\ Cardinality(k.kept \cap Passed(k)) <= Cardinality(K \cup {s})
            /\ Cardinality(k.kept \cap Passed(k)) \in Nat
        BY <3>2, <3>6, FS_Subset, FS_CardinalityType
      <3>8. Cardinality(k.kept \cap Passed(k)) <= k.cnt
        BY <3>1, <3>3, <3>4, <3>6, <3>7
      <3>9. k.cnt <= Cardinality(k.seen \cap Passed(k))
        BY <3>1, <3>2, <3>3, <3>4, <3>5
      <3>10. QED
        BY <3>8, <3>9 DEF CountOK
    <2>3. ASSUME j.op = "retrieve" PROVE OldestOK(k)
      <3>1. OldestOK(j) /\ BestOK(j)
        BY <2>1, <2>3 DEF ScanOK
      <3>2. k.kept \cap Passed(k) \subseteq (j.kept \cap Passed(j)) \cup {s} /\ k.seen = j.seen
        BY <1>2 DEF SameButSlot
      <3>3. \A t \in Slots : calls[t].call_time \in Nat
        BY ListAssumption DEF CallsTypes, Call
      <3>4. j.kept \subseteq Slots /\ (j.best # -1 => j.best \in Slots) /\ s # -1
        BY <1>1, JobFields DEF Slots
      <3>5. CASE j.best = -1
        <4>1. Older(p, s)
          BY <3>5 DEF Older
        <4>2. k.best = s /\ k.kept \cap Passed(k) \subseteq {s}
          BY <1>4, <1>9, <2>3, <3>1, <3>2, <3>5, <4>1 DEF OldestOK
        <4>3. QED
          BY <2>1, <3>2, <3>3, <3>4, <4>2 DEF OldestOK
      <3>6. CASE j.best # -1 /\ calls[s].call_time < calls[j.best].call_time
        <4>1. k.best = s
          BY <1>4, <1>9, <2>3, <3>6 DEF Older
        <4>2. QED
          BY <2>1, <3>1, <3>2, <3>3, <3>4, <3>6, <4>1 DEF OldestOK
      <3>7. CASE j.best # -1 /\ ~(calls[s].call_time < calls[j.best].call_time)
        <4>1. calls[j.best].call_time # 0
          BY <3>1, <3>7 DEF BestOK
        <4>2. k.best = j.best
          BY <1>4, <3>7, <4>1 DEF Older
        <4>3. QED
          BY <3>1, <3>2, <3>3, <3>4, <3>7, <4>2 DEF OldestOK
      <3>8. QED
        BY <3>5, <3>6, <3>7
    <2>4. QED
      BY <1>5, <1>6, <1>9, <2>1, <2>2, <2>3 DEF ScanOK, SameButSlot
  <1>10. QED
    BY <1>7, <1>8, <1>9 DEF SameButSlot

(* One slot of a scan.                                                     *)
LEMMA ScanGoesOn ==
    ASSUME CallsTypes, TypeOK, ControlOK, ScansOK, NEW p \in Procs, ScanSlot(p)
    PROVE  CallsTypes' /\ ScansOK'
  <1> DEFINE s == job[p].slot
             j == job[p]
             On(bad) == [j EXCEPT !.slot = s + 1, !.bad = bad]
  <1>1. ControlTypes /\ j \in Jobs /\ pc[p] = "scan" /\ ScanOK(j) /\ CallsOK
    BY DEF ControlOK, ControlTypes, ScanSlot, ScansOK
  <1>2. s \in Slots /\ s + 1 \in 0..MaxCalls /\ j.cnt <= s
    <2>1. s < MaxCalls /\ s \in 0..MaxCalls /\ MaxCalls \in Nat
      BY <1>1, JobFields, ListAssumption DEF ScanSlot
    <2>2. QED
      BY <1>1, <2>1 DEF Slots, ControlOK, Fits
  <1>3. s \in j.kept => calls[s].state = "queued" /\ calls[s].joined = j.asked
    BY <1>1 DEF ScanOK, HistoryOK, InQueue
  <1>4. ASSUME NEW bad \in BOOLEAN, ~bad => ~j.bad /\ (j.op # "drop" => s \notin j.kept)
        PROVE  /\ On(bad) \in Jobs /\ ScanOK(On(bad))
               /\ On(bad).best = j.best /\ On(bad).asked = j.asked
    <2>1. On(bad) \in Jobs
      BY <1>1, <1>2 DEF Jobs
    <2>2. /\ SameButSlot(j, On(bad)) /\ On(bad).cnt = j.cnt /\ On(bad).best = j.best
          /\ On(bad).bad = bad /\ On(bad).asked = j.asked
      BY <1>1 DEF Jobs, SameButSlot
    <2> HIDE DEF On
    <2>3. ScanOK(On(bad))
      BY <1>1, <1>4, <2>1, <2>2, SlotPassedOver
    <2>4. QED
      BY <2>1, <2>2, <2>3
  <1>5. CASE /\ s \in OpenSlots /\ UNCHANGED calls
             /\ GotoWith(p, "scan", [j EXCEPT !.slot = s + 1])
    <2>1. s \notin j.kept
      BY <1>3, <1>5 DEF OpenSlots
    <2>2. j.bad \in BOOLEAN /\ On(j.bad) = [j EXCEPT !.slot = s + 1]
      BY <1>1 DEF Jobs
    <2>3. ScanOK(On(j.bad))
      BY <1>4, <2>1, <2>2
    <2> HIDE DEF On
    <2>4. QED
      BY <1>1, <1>5, <2>2, <2>3, RestKeepsScans
  <1>6. ASSUME s \notin OpenSlots, NEW x, NEW y,
               NEW bad \in BOOLEAN, bad <=> j.bad \/ x # calls[s].joined \/ y # j.asked,
               \/ /\ x # y /\ UNCHANGED calls
                  /\ GotoWith(p, "scan", On(bad))
               \/ /\ x = y /\ UNCHANGED calls
                  /\ GotoWith(p, "scan", [Counted(p, s) EXCEPT !.bad = bad])
               \/ /\ x = y
                  /\ j.op = "drop" \/ (j.op = "retrieve" /\ calls[s].state = "busy")
                  /\ \E st \in {"busy", "free"} : SetState(p, "scan", On(bad), s, st)
        PROVE  CallsTypes' /\ ScansOK'
    <2>1. CASE x # y /\ UNCHANGED calls /\ GotoWith(p, "scan", On(bad))
      <3>1. ~bad => ~j.bad /\ s \notin j.kept
        BY <1>3, <1>6, <2>1
      <3>2. ScanOK(On(bad))
        BY <1>4, <3>1
      <3> HIDE DEF On
      <3>3. QED
        BY <1>1, <2>1, <3>2, RestKeepsScans
    <2>2. CASE x = y /\ UNCHANGED calls /\ GotoWith(p, "scan", [Counted(p, s) EXCEPT !.bad = bad])
      <3> DEFINE k == [Counted(p, s) EXCEPT !.bad = bad]
      <3>1. k \in Jobs
        BY <1>1, <1>2, CountedType
      <3>2. /\ SameButSlot(j, k) /\ k.bad = bad
            /\ k.cnt = Counted(p, s).cnt /\ k.best = Counted(p, s).best
        BY <1>1 DEF Counted, Jobs, SameButSlot
      <3>3. ~bad => ~j.bad /\ calls[s].joined = j.asked
        BY <1>6, <2>2
      <3> HIDE DEF k
      <3>4. ScanOK(k)
        BY <1>1, <1>2, <1>6, <3>1, <3>2, <3>3, SlotCounted
      <3>5. QED
        BY <1>1, <2>2, <3>4, RestKeepsScans DEF k
    <2>3. CASE /\ j.op = "drop" \/ (j.op = "retrieve" /\ calls[s].state = "busy")
               /\ \E st \in {"busy", "free"} : SetState(p, "scan", On(bad), s, st)
      <3>1. PICK st \in {"busy", "free"} : SetState(p, "scan", On(bad), s, st)
        BY <2>3
      <3>2. ~bad => ~j.bad /\ (j.op # "drop" => s \notin j.kept)
        BY <1>3, <1>6, <2>3
      <3>3. /\ On(bad) \in Jobs /\ ScanOK(On(bad))
            /\ On(bad).best = j.best /\ On(bad).asked = j.asked
        BY <1>4, <3>2
      <3>4. calls[s].call_time >= 1 /\ calls[s].joined \in Ids
        BY <1>1, <1>2, <1>6 DEF CallsOK, OpenSlots
      <3> HIDE DEF On
      <3>5. QED
        BY <1>1, <1>2, <3>1, <3>3, <3>4, ChangeKeepsScans
    <2>4. QED
      BY <1>6, <2>1, <2>2, <2>3
  <1>7. QED
    <2>1. CASE s \notin OpenSlots
      <3>1. PICK x \in IdAt(calls[s].block, calls[s].idx),
                 y \in IF j.op = "drop" THEN IdAt(j.block, j.idx) ELSE {j.id} :
                LET bad == j.bad \/ x # calls[s].joined \/ y # j.asked
                IN \/ /\ x # y
                      /\ GotoWith(p, "scan", On(bad))
                      /\ UNCHANGED calls
                   \/ /\ x = y
                      /\ GotoWith(p, "scan", [Counted(p, s) EXCEPT !.bad = bad])
                      /\ UNCHANGED calls
                   \/ /\ x = y
                      /\ \/ j.op = "drop"
                         \/ j.op = "retrieve" /\ calls[s].state = "busy"
                      /\ \E st \in {"busy", "free"} : SetState(p, "scan", On(bad), s, st)
        BY <2>1 DEF ScanSlot
      <3> DEFINE bad == j.bad \/ x # calls[s].joined \/ y # j.asked
      <3>2. bad \in BOOLEAN
        BY <1>1 DEF Jobs
      <3> HIDE DEF On
      <3>3. QED
        BY <1>6, <2>1, <3>1, <3>2
    <2>2. CASE s \in OpenSlots
      BY <1>5, <2>2 DEF ScanSlot
    <2>3. QED
      BY <2>1, <2>2

(* The loop is over: the count is returned, or the oldest call referred.   *)
LEMMA ScanIsOver ==
    ASSUME CallsTypes, TypeOK, ControlOK, ScansOK, NEW p \in Procs, EndScan(p)
    PROVE  CallsTypes' /\ ScansOK'
  <1>1. ControlTypes /\ job[p] \in Jobs /\ ScanOK(job[p])
    BY DEF ControlOK, ControlTypes, EndScan, ScansOK
  <1>2. CASE Return(p) /\ UNCHANGED calls
    BY <1>1, <1>2, RestKeepsScans DEF Return
  <1>3. CASE job[p].best # -1 /\ SetState(p, "idle", IdleJob, job[p].best, "busy")
    <2>1. job[p].best \in Slots
      BY <1>1, <1>3, JobFields
    <2>2. calls[job[p].best].call_time >= 1 /\ calls[job[p].best].joined \in Ids
      BY <1>1, <1>3 DEF ScanOK, BestOK
    <2>3. QED
      BY <1>1, <1>3, <2>1, <2>2, IdleJobType, ChangeKeepsScans
  <1>4. QED
    BY <1>2, <1>3 DEF EndScan

(* A call comes only when nobody scans.                                    *)
LEMMA CallComes ==
    ASSUME TypeOK, ControlOK, LocksOK, ListOK, ScansOK, InUse, NEW p \in Procs,
           NEW u, NEW i \in Indices, FirstInvite(p, u, i), SetGranted(pcall_lock, TRUE)
    PROVE  CallsTypes' /\ ScansOK'
  <1>1. PICK s \in OpenSlots, t \in Now :
            calls' = [calls EXCEPT ![s] = CallIn(i, t)] /\ Found(p, "create", "invite", u, i, s)
    BY DEF FirstInvite
  <1>2. s \in Slots /\ t \in 1..MaxTime /\ t \in 0..MaxTime /\ t >= 1
    BY ListAssumption DEF OpenSlots, Now
  <1>3. \A q \in Procs : pc[q] # "scan"
    <2>1. IsFiniteSet(Scanners) /\ Cardinality(Scanners) = 0
      BY CountingSets DEF LocksOK, CallsBalanced, SetGranted
    <2>2. Scanners = {}
      BY <2>1, FS_EmptySet
    <2>3. QED
      BY <2>2 DEF Scanners, ScansCalls
  <1>4. \A q \in Procs : pc'[q] # "scan"
    BY <1>1, <1>3 DEF Found, GotoWith, TypeOK
  <1>5. pmohq_lst \in Blocks /\ i \in Nat /\ Queue(i).id \in Ids
    BY EntryTypes DEF TypeOK, ListTypes
  <1>6. CallIn(i, t) \in Call /\ CallIn(i, t).call_time >= 1 /\ CallIn(i, t).joined \in Ids
    BY <1>2, <1>5 DEF CallIn, Call
  <1>7. CallsTypes' /\ CallsOK'
    BY <1>1, <1>2, <1>6 DEF CallsTypes, CallsOK, ScansOK, TypeOK
  <1>8. QED
    BY <1>4, <1>7 DEF ScansOK

(* Steps in which no call changes and no scan.                             *)
LEMMA NoScanKeeps ==
    ASSUME CallsTypes, ScansOK, UNCHANGED calls,
           \A q \in Procs : pc'[q] = "scan" => pc[q] = "scan" /\ job'[q] = job[q]
    PROVE  CallsTypes' /\ ScansOK'
  <1>1. ASSUME NEW q \in Procs, pc'[q] = "scan" PROVE ScanOK(job[q])'
    <2>1. ScanOK(job[q]) /\ job'[q] = job[q]
      BY <1>1 DEF ScansOK
    <2>2. QED
      BY <2>1 DEF ScanOK, HistoryOK, InQueue, BestOK, CountOK, OldestOK, Passed
  <1>2. QED
    BY <1>1 DEF CallsTypes, ScansOK, CallsOK

(* Every step keeps the scans right.                                       *)
LEMMA ScansStep ==
    ASSUME TypeOK, ControlOK, LocksOK, ListOK, ScansOK, [Next]_vars
    PROVE  CallsTypes' /\ ScansOK'
  <1>1. CallsTypes /\ ControlTypes
    BY DEF TypeOK, CallsTypes, ControlOK
  <1>2. ASSUME NEW p \in Procs, UNCHANGED calls, NEW l \in Places \ {"scan"},
               Goto(p, l) \/ \E j : GotoWith(p, l, j)
        PROVE  CallsTypes' /\ ScansOK'
    BY <1>1, <1>2, NoScanKeeps DEF ControlTypes, Goto, GotoWith
  <1>3. ASSUME NEW p \in Procs, UNCHANGED calls, Return(p) PROVE CallsTypes' /\ ScansOK'
    BY <1>2, <1>3, PlacesApart DEF Return
  <1>4. ASSUME NEW p \in Procs, Start(p) PROVE CallsTypes' /\ ScansOK'
    <2>1. UNCHANGED calls
      BY <1>4
      DEF Start, ModInit, InitCfg, InitDb, Bind, RegisterRpc, FindPv, InitQueueLock,
          InitCallLock, InitErr, StartPart
    <2>2. CASE UNCHANGED <<pc, job>>
      BY <1>1, <2>1, <2>2, NoScanKeeps
    <2>3. CASE Return(p)
      BY <1>3, <2>1, <2>3
    <2>4. CASE \E l \in StartPlaces \cup {"load"} : Goto(p, l) \/ \E j : GotoWith(p, l, j)
      BY <1>2, <2>1, <2>4 DEF Places, StartPlaces, LoadPlaces
    <2>5. QED
      <3>1. ModInit(p) => UNCHANGED <<pc, job>> \/ \E j : GotoWith(p, "cfg", j)
        BY DEF ModInit
      <3>2. InitCfg(p) \/ InitDb(p) \/ Bind(p) \/ RegisterRpc(p) \/ FindPv(p)
            \/ InitQueueLock(p) \/ InitCallLock(p) \/ InitErr(p)
            => Return(p) \/ \E l \in StartPlaces \cup {"load"} : Goto(p, l)
        BY DEF InitCfg, InitDb, Bind, RegisterRpc, FindPv, InitQueueLock, InitCallLock, InitErr,
               LockInitFails, StartPlaces
      <3>3. "cfg" \in StartPlaces
        BY DEF StartPlaces
      <3>4. QED
        BY <1>4, <2>2, <2>3, <2>4, <3>1, <3>2, <3>3 DEF Start
  <1>5. ASSUME NEW p \in Procs, LoadStep(p) PROVE CallsTypes' /\ ScansOK'
    <2>1. UNCHANGED calls
      BY <1>5 DEF LoadStep, Query, LoadRow, Sweep, Swept
    <2>2. \E l \in {"rows", "bind", "find"} : \E j : GotoWith(p, l, j)
      BY <1>5
      DEF LoadStep, Query, LoadRow, ChangeEntry, AddEntry, NextRow, Sweep, Swept, EndLoad
    <2>3. {"rows", "bind", "find"} \subseteq Places
      BY DEF Places, StartPlaces, LoadPlaces, MessagePlaces
    <2>4. QED
      BY <1>2, <2>1, <2>2, <2>3
  <1>6. ASSUME NEW p \in Procs, phase = "up", UserStimulus(p) \/ UserStep(p)
        PROVE  CallsTypes' /\ ScansOK'
    <2>1. {"enter", "load", "create", "handle", "named"} \subseteq Places \ {"scan"} /\ InUse
      BY <1>6 DEF Places, MessagePlaces, LoadPlaces, ScanPlaces, InUse
    <2>2. CASE StartMessage(p) \/ BeginLoad(p)
      <3>1. UNCHANGED calls /\ ((\E j : GotoWith(p, "enter", j)) \/ Goto(p, "load"))
        BY <2>2 DEF StartMessage, BeginLoad
      <3>2. QED
        BY <1>2, <2>1, <3>1
    <2>3. ASSUME NEW op, NEW n, FindQname(p, op, n) PROVE CallsTypes' /\ ScansOK'
      <3>1. UNCHANGED calls /\ \E j : GotoWith(p, "named", j)
        BY <2>3 DEF FindQname
      <3>2. QED
        BY <1>2, <2>1, <3>1
    <2>4. ASSUME NEW s \in Slots, Callback(p, s) PROVE CallsTypes' /\ ScansOK'
      <3>1. PICK st \in {"queued", "free"} : SetState(p, "idle", IdleJob, s, st)
        BY <2>4 DEF Callback
      <3>2. calls[s].call_time >= 1 /\ calls[s].joined \in Ids
        BY <2>4 DEF Callback, ScansOK, CallsOK
      <3>3. QED
        BY <1>1, <3>1, <3>2, IdleJobType, ChangeKeepsScans
    <2>5. CASE Handle(p)
      <3>1. job[p].slot \in Slots
        BY <2>5 DEF Handle, ControlOK, Fits
      <3>2. PICK st \in AfterMessage(job[p].op, calls[job[p].slot].state) :
                SetState(p, "idle", IdleJob, job[p].slot, st)
        BY <2>5 DEF Handle
      <3>3. st \in {"free", "busy", "queued"}
            /\ (st # "free" => calls[job[p].slot].state # "free")
        BY <3>2 DEF AfterMessage
      <3>4. QED
        BY <1>1, <3>1, <3>2, <3>3, IdleJobType, ChangeKeepsScans DEF ScansOK, CallsOK
    <2>6. CASE Lookup(p)
      <3>1. CASE LeaveMessage(p) /\ UNCHANGED calls
        BY <1>3, <3>1 DEF LeaveMessage
      <3>2. ASSUME SetGranted(pcall_lock, TRUE), NEW u \in Uris, NEW i \in Matches(u),
                   FirstInvite(p, u, i)
            PROVE  CallsTypes' /\ ScansOK'
        BY <2>1, <3>2, CallComes DEF Matches
      <3>3. ASSUME NEW u \in Uris, NEW i \in Matches(u), OfCall(p, u, i)
            PROVE  CallsTypes' /\ ScansOK'
        BY <1>2, <2>1, <3>3 DEF OfCall, Found
      <3>4. QED
        BY <2>6, <3>1, <3>2, <3>3 DEF Lookup
    <2>7. CASE StartScan(p) \/ ScanSlot(p) \/ EndScan(p)
      BY <1>1, <2>7, ScanBegins, ScanGoesOn, ScanIsOver
    <2>8. CASE AddCallRec(p) \/ SetResult(p)
      BY <1>2, <1>3, <2>1, <2>8 DEF AddCallRec, SetResult
    <2>9. QED
      BY <1>6, <2>2, <2>3, <2>4, <2>5, <2>6, <2>7, <2>8 DEF UserStimulus, UserStep
  <1>7. CASE EditTable
    <2>1. UNCHANGED <<calls, pc, job>>
      BY <1>7 DEF EditTable, Edited
    <2>2. QED
      BY <1>1, <2>1, NoScanKeeps
  <1>8. CASE ModDestroy \/ UNCHANGED vars
    BY <1>1, <1>8, NoScanKeeps DEF ModDestroy, vars, qvars
  <1>9. QED
    BY <1>4, <1>5, <1>6, <1>7, <1>8 DEF Next, Work

LEMMA ScansInit == Init => CallsTypes /\ ScansOK
  <1>1. NewCall \in Call /\ NewCall.state = "free"
    BY ListAssumption DEF NewCall, Call, NULL
  <1>2. QED
    BY <1>1 DEF Init, CallsTypes, ScansOK, CallsOK

-----------------------------------------------------------------------------
(* The types of the objects in shared memory.                              *)
LEMMA ShmTypesStep == ASSUME ShmTypes, [Next]_vars PROVE ShmTypes'
  <1>1. ASSUME NEW o, Allocated(o) PROVE ShmTypes'
    BY <1>1 DEF Allocated, ShmTypes
  <1>2. ASSUME NEW o, shm' = [shm EXCEPT ![o] = "freed"] PROVE ShmTypes'
    BY <1>2 DEF ShmTypes
  <1>3. ASSUME NEW objs, shm' = Freed(objs) PROVE ShmTypes'
    BY <1>3 DEF Freed, ShmTypes
  <1>4. CASE UNCHANGED shm
    BY <1>4 DEF ShmTypes
  <1>5. ASSUME NEW p \in Procs, Start(p) PROVE ShmTypes'
    BY <1>1, <1>2, <1>3, <1>4, <1>5
    DEF Start, ModInit, InitCfg, InitDb, Bind, RegisterRpc, FindPv, InitQueueLock, InitCallLock,
        InitErr, LockInitFails
  <1>6. CASE ModDestroy
    BY <1>3, <1>6 DEF ModDestroy
  <1>7. QED
    BY <1>4, <1>5, <1>6 DEF Next, vars, lifeVars

(* The parts of the type invariant, together.                              *)
Typed ==
    /\ ListTypes /\ LoadedTypes /\ TableTypes /\ CallsTypes /\ ShmTypes
    /\ ControlOK /\ LocksOK /\ ListOK

LEMMA TypesTogether == Typed => TypeOK
  <1> SUFFICES ASSUME Typed PROVE TypeOK
    OBVIOUS
  <1> USE DEF Typed
  <1>1. pc \in [Procs -> Places] /\ job \in [Procs -> Jobs] /\ PhaseTypes
    BY DEF ControlOK, ControlTypes
  <1>2. pmohq_lock \in LockValues /\ pcall_lock \in LockValues
    BY CountingSets DEF LocksOK, QueuesBalanced, CallsBalanced, LockValues
  <1>3. /\ phase \in {"down", "failed"}
            \/ (pmohq_lst = NULL /\ mohq_cnt = 0)
            \/ (phase = "stopped")
            \/ mohq_cnt <= Len(mem[pmohq_lst])
    <2>1. CASE mohq_cnt > 0
      BY <2>1 DEF ListOK, InUse
    <2>2. CASE mohq_cnt = 0 /\ pmohq_lst \in Blocks
      <3>1. Len(mem[pmohq_lst]) \in Nat
        BY <2>2, LenProperties DEF ListTypes
      <3>2. QED
        BY <2>2, <3>1
    <2>3. CASE mohq_cnt = 0 /\ pmohq_lst = NULL
      BY <2>3
    <2>4. QED
      BY <2>1, <2>2, <2>3 DEF ListTypes
  <1>4. QED
    BY <1>1, <1>2, <1>3
    DEF TypeOK, ListTypes, LoadedTypes, TableTypes, CallsTypes, ShmTypes, PhaseTypes

(* The inductive invariant: control and counters (LifeCycleLocks_proofs)   *)
(* carry the list, the list carries handlers and scans.                    *)
LifeCycleInv ==
    TypeOK /\ ControlOK /\ LocksOK /\ ListInv /\ HandlersKeepQueue /\ ScansOK

LEMMA LifeCycleInit == Init => LifeCycleInv
  <1> SUFFICES ASSUME Init PROVE LifeCycleInv
    OBVIOUS
  <1>1. ControlOK /\ LocksOK /\ ListInv /\ ScansOK
    BY ControlInit, ListInit, ScansInit
  <1>2. TypeOK
    <2>1. ShmTypes
      BY DEF Init, ShmTypes
    <2>2. Typed
      BY <1>1, <2>1, ListInit, ScansInit DEF Typed, ListInv
    <2>3. QED
      BY <2>2, TypesTogether
  <1>3. HandlersKeepQueue
    BY DEF Init, HandlersKeepQueue
  <1>4. QED
    BY <1>1, <1>2, <1>3 DEF LifeCycleInv

LEMMA LifeCycleStep == ASSUME LifeCycleInv, [Next]_vars PROVE LifeCycleInv'
  <1> USE DEF LifeCycleInv
  <1>1. ControlOK' /\ LocksOK'
    BY ControlStep, UsedEntries DEF ListInv
  <1>2. ListTypes' /\ LoadedTypes' /\ TableTypes' /\ ListInv'
    BY ListStep
  <1>3. HandlersKeepQueue'
    BY HandlersStep DEF ListInv
  <1>4. CallsTypes' /\ ScansOK'
    BY ScansStep DEF ListInv
  <1>5. ShmTypes'
    BY ShmTypesStep DEF TypeOK, ShmTypes
  <1>6. TypeOK'
    <2>1. Typed'
      BY <1>1, <1>2, <1>4, <1>5 DEF Typed, ListInv
    <2>2. QED
      BY <2>1, TypesTogether, PTL
  <1>7. QED
    BY <1>1, <1>2, <1>3, <1>4, <1>6

(* It holds in every reachable state.                                      *)
THEOREM LifeCycleInvariant == Spec => []LifeCycleInv
  <1>1. LifeCycleInv /\ [Next]_vars => LifeCycleInv'
    BY LifeCycleStep
  <1>2. QED
    BY LifeCycleInit, <1>1, PTL DEF Spec

(* Every variable keeps its type: the list never counts more entries than  *)
(* its block holds, and no lock counter leaves its range (mohq_locks.c).   *)
THEOREM TypesCorrect == Spec => []TypeOK
  <1>1. LifeCycleInv => TypeOK
    BY DEF LifeCycleInv
  <1>2. QED
    BY LifeCycleInvariant, <1>1, PTL

(* mohq_db.c:414-624: between loads the list has the URIs and the names of *)
(* just the queues of the table as it was last read to its end, each once. *)
THEOREM ListFollowsTable == Spec => []ListMatchesTable
  <1>1. LifeCycleInv => ListMatchesTable
    <2>1. ASSUME LifeCycleInv, loaded # None, phase \notin {"failed", "stopped"},
                 \A p \in Procs : pc[p] \notin {"load", "rows"}
          PROVE  Matched
      BY <2>1 DEF LifeCycleInv, ListInv, MatchOK, InUse
    <2>2. QED
      BY <2>1 DEF ListMatchesTable, Matched
  <1>2. QED
    BY LifeCycleInvariant, <1>1, PTL

(* mohq_process: while a handler works with the index of its queue, the    *)
(* entry at this index stays the queue the message was for, whatever is    *)
(* edited, loaded or released meanwhile.                                   *)
THEOREM QueueStaysPut == Spec => []HandlersKeepQueue
  <1>1. LifeCycleInv => HandlersKeepQueue
    BY DEF LifeCycleInv
  <1>2. QED
    BY LifeCycleInvariant, <1>1, PTL

(* At the end of a scan all slots are passed.                              *)
LEMMA AllPassed ==
    ASSUME LifeCycleInv, NEW p \in Procs, NEW op, ScanDone(p, op)
    PROVE  /\ ScanOK(job[p]) /\ ~job[p].bad /\ job[p].op = op
           /\ job[p].kept \cap Passed(job[p]) = job[p].kept
           /\ job[p].seen \cap Passed(job[p]) = job[p].seen
  <1>1. job[p] \in Jobs /\ pc[p] = "scan" /\ job[p].slot = MaxCalls
    BY DEF LifeCycleInv, TypeOK, ScanDone
  <1>2. Passed(job[p]) = Slots
    BY <1>1 DEF Passed, Slots
  <1>3. QED
    BY <1>1, <1>2, JobFields DEF LifeCycleInv, ScansOK, ScanDone

(* mohq_retrieve (mohq_funcs.c): the call it refers is the oldest of those *)
(* that waited in its queue all through the scan, while other processes    *)
(* put calls into the queue and take them out.                             *)
THEOREM OldestIsRetrieved == Spec => []RetrievesOldest
  <1>1. ASSUME LifeCycleInv PROVE RetrievesOldest
    <2>1. ASSUME NEW p \in Procs, ScanDone(p, "retrieve")
          PROVE  /\ OldestOK(job[p])
                 /\ job[p].kept \cap Passed(job[p]) = job[p].kept
      BY <1>1, <2>1, AllPassed DEF ScanOK
    <2>2. QED
      BY <2>1 DEF RetrievesOldest, OldestOK
  <1>2. QED
    BY LifeCycleInvariant, <1>1, PTL

(* mohq_count (mohq_funcs.c:2580-2642): if it got both locks and its list  *)
(* has not moved, the count it is about to return lies between the calls   *)
(* that were in the queue all through its loop and those that were there   *)
(* at some time of it, while other processes put calls into the queue and  *)
(* take them out.                                                          *)
THEOREM QueueIsCounted == Spec => []CountsQueued
  <1>1. ASSUME LifeCycleInv PROVE CountsQueued
    <2>1. ASSUME NEW p \in Procs, ScanDone(p, "count"), ~job[p].refused
          PROVE  CountRight(p)
      <3>1. Cardinality(job[p].kept) <= job[p].cnt /\ job[p].cnt <= Cardinality(job[p].seen)
        <4>1. /\ CountOK(job[p])
              /\ job[p].kept \cap Passed(job[p]) = job[p].kept
              /\ job[p].seen \cap Passed(job[p]) = job[p].seen
          BY <1>1, <2>1, AllPassed DEF ScanOK
        <4>2. QED
          BY <4>1 DEF CountOK
      <3>2. job[p] \in Jobs
        BY <1>1 DEF LifeCycleInv, TypeOK
      <3>3. job[p].cnt \in Nat /\ Cardinality(job[p].kept) \in Nat /\ Cardinality(job[p].seen) \in Nat
        BY <3>2, JobFields, ListAssumption, SlotSets
      <3>4. QED
        BY <3>1, <3>3 DEF CountRight
    <2>2. QED
      BY <2>1 DEF CountsQueued
  <1>2. QED
    BY LifeCycleInvariant, <1>1, PTL

(* mod_destroy and initerr (mohqueue_mod.c): what was allocated is         *)
(* released, once, and no queue list is left; if a usable row of the table *)
(* is always left. With none, a load frees no block when it sweeps the     *)
(* last entry, and the way out on an error leaves the block behind.        *)
THEOREM MemoryIsReleased == ASSUME "empty" \notin QFaults PROVE Spec => []Released
  <1>1. Init => LifeCycleInv /\ BlocksOK /\ ShmOK
    BY LifeCycleInit, MemoryInit
  <1>2. LifeCycleInv /\ BlocksOK /\ ShmOK /\ [Next]_vars => (LifeCycleInv /\ BlocksOK /\ ShmOK)'
    BY LifeCycleStep, MemoryStep DEF LifeCycleInv
  <1>3. LifeCycleInv /\ BlocksOK /\ ShmOK => Released
    BY DEF BlocksOK, ShmOK, Released, Empty, InUse
  <1>4. QED
    BY <1>1, <1>2, <1>3, PTL DEF Spec
=============================================================================
