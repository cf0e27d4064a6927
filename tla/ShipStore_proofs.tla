-------------------------- MODULE ShipStore_proofs --------------------------
(***************************************************************************)
(* For any number of hulls and of overlapping sweeps, whatever statements  *)
(* fail or overtake one another and whenever the process dies: a hull that *)
(* is not marked dirty is saved or about to be, unless a statement that    *)
(* was overtaken wrote over it.                                            *)
(***************************************************************************)
EXTENDS ShipStore, SequenceTheorems, TLAPS

\* Removing an element of a sequence leaves a sequence; when it is not the last one,
\* that stays.
LEMMA RemoveAtProperties ==
    ASSUME NEW S, NEW q \in Seq(S), NEW i \in DOMAIN q
    PROVE  /\ RemoveAt(q, i) \in Seq(S)
           /\ Len(RemoveAt(q, i)) = Len(q) - 1
           /\ i < Len(q) => Last(RemoveAt(q, i)) = Last(q)
  <1> DEFINE a == SubSeq(q, 1, i - 1)
             b == SubSeq(q, i + 1, Len(q))
  <1>1. /\ Len(q) \in Nat /\ DOMAIN q = 1 .. Len(q) /\ i \in 1 .. Len(q)
        /\ \A j \in 1 .. Len(q) : q[j] \in S
    BY LenProperties
  <1>2. a \in Seq(S) /\ Len(a) = i - 1
    BY <1>1, SubSeqProperties
  <1>3. /\ b \in Seq(S) /\ Len(b) = Len(q) - i
        /\ \A j \in 1 .. Len(q) - i : b[j] = q[i + j]
    <2>1. \A j \in i + 1 .. Len(q) : q[j] \in S
      BY <1>1
    <2>2. /\ b \in Seq(S)
          /\ Len(b) = IF i + 1 <= Len(q) THEN Len(q) - (i + 1) + 1 ELSE 0
          /\ \A j \in 1 .. Len(q) - (i + 1) + 1 : b[j] = q[i + 1 + j - 1]
      BY <1>1, <2>1, SubSeqProperties
    <2> HIDE DEF b
    <2>3. i \in Nat /\ Len(q) \in Nat /\ i <= Len(q)
      BY <1>1
    <2>4. Len(b) = Len(q) - i
      BY <2>2, <2>3
    <2>5. \A j \in 1 .. Len(q) - i : b[j] = q[i + j]
      <3> SUFFICES ASSUME NEW j \in 1 .. Len(q) - i
                   PROVE  b[j] = q[i + j]
        OBVIOUS
      <3>1. j \in 1 .. Len(q) - (i + 1) + 1 /\ i + 1 + j - 1 = i + j
        BY <2>3
      <3> QED BY <2>2, <3>1
    <2> QED BY <2>2, <2>4, <2>5
  <1> HIDE DEF a, b
  <1>4. /\ a \o b \in Seq(S)
        /\ Len(a \o b) = Len(a) + Len(b)
        /\ \A j \in 1 .. Len(a) + Len(b) : (a \o b)[j] =
              IF j <= Len(a) THEN a[j] ELSE b[j - Len(a)]
    BY <1>2, <1>3, ConcatProperties
  <1>5. RemoveAt(q, i) = a \o b
    BY DEF RemoveAt, a, b
  <1>6. ASSUME i < Len(q)
        PROVE  Last(a \o b) = Last(q)
    <2>0. i \in Nat /\ i >= 1 /\ Len(q) \in Nat /\ Len(a) = i - 1 /\ Len(b) = Len(q) - i
      BY <1>1, <1>2, <1>3
    <2>1. /\ Len(q) - 1 \in 1 .. Len(a) + Len(b) /\ ~(Len(q) - 1 <= Len(a))
          /\ Len(q) - 1 - Len(a) = Len(q) - i
      <3>1. ASSUME NEW l \in Nat, NEW x, NEW y, x = i - 1, y = l - i, i < l
            PROVE  l - 1 \in 1 .. x + y /\ ~(l - 1 <= x) /\ l - 1 - x = l - i
        BY <2>0, <3>1
      <3> QED BY <2>0, <1>6, <3>1
    <2>5. Len(a \o b) = Len(q) - 1
      BY <2>0, <1>4
    <2>2. (a \o b)[Len(q) - 1] = b[Len(q) - i]
      BY <1>4, <2>1
    <2>3. Len(q) - i \in 1 .. Len(q) - i /\ i + (Len(q) - i) = Len(q)
      BY <1>1, <1>6
    <2>4. b[Len(q) - i] = q[Len(q)]
      BY <1>3, <2>3
    <2> QED BY <2>2, <2>4, <2>5 DEF Last
  <1>7. Len(a \o b) = Len(q) - 1
    BY <1>1, <1>2, <1>3, <1>4
  <1> QED BY <1>4, <1>5, <1>6, <1>7

\* The objects of a map, of type Loaded, and the statements on its rows.
Loaded == [loaded : BOOLEAN, ver : Version, dirty : BOOLEAN]

\* The statements of a row keep their type and number when their object is dropped.
LEMMA OrphanedProperties ==
    ASSUME NEW q \in Seq(Statement)
    PROVE  Orphaned(q) \in Seq(Statement) /\ Len(Orphaned(q)) = Len(q)
  <1>1. DOMAIN q = 1 .. Len(q) /\ Len(q) \in Nat /\ \A i \in 1 .. Len(q) : q[i] \in Statement
    BY LenProperties
  <1>2. \A i \in 1 .. Len(q) : [q[i] EXCEPT !.live = FALSE] \in Statement
    BY <1>1 DEF Statement
  <1> QED BY <1>1, <1>2, IsASeq DEF Orphaned

\* Of the n statements q on the row of h that a later one overtook: a clean hull o is
\* in its row r, or the last statement will put it there and leave the object that is
\* in the map dirty if it fails, or a statement that was overtaken set the row back.
Coming(h, o, r, q, n, back) ==
    o.loaded /\ ~o.dirty =>
        IF n < Len(q) THEN Last(q).ver = o.ver /\ Last(q).live
        ELSE r = o.ver \/ h \in back

Told(h) == overtaken[h] <= Len(issued[h])

IInv ==
    /\ TypeOK
    /\ \A h \in Hulls : Told(h) /\ Coming(h, mem[h], row[h], issued[h], overtaken[h], setback)

\* What the invariant says of the map m, with the rows r and the statements q.
Sound(m, r, q, n, back) ==
    \A h \in Hulls : n[h] <= Len(q[h]) /\ Coming(h, m[h], r[h], q[h], n[h], back)

-----------------------------------------------------------------------------
(* The steps of a sweep.                                                   *)

\* A sweep that goes on keeps the types and what Coming says of every hull.
LEMMA GoesOnSound ==
    ASSUME TypeOK, NEW w \in Sweeps, NEW past \in SUBSET Hulls,
           NEW m \in [Hulls -> Loaded], NEW q \in [Hulls -> Seq(Statement)],
           NEW r \in [Hulls -> Version], NEW n \in [Hulls -> Nat], NEW back,
           Sound(m, r, q, n, back),
           GoesOn(w, m, q, past)
    PROVE  /\ mem' \in [Hulls -> Loaded]
           /\ issued' \in [Hulls -> Seq(Statement)]
           /\ flushed' \in [Sweeps -> [running : BOOLEAN, past : SUBSET Hulls]]
           /\ Sound(mem', r, issued', n, back)
  <1> DEFINE dirty == {h \in Hulls \ past : m[h].loaded /\ m[h].dirty}
  <1>1. CASE mem' = m /\ issued' = q /\ flushed' = [flushed EXCEPT ![w] = Idle]
    BY <1>1 DEF Idle, TypeOK
  <1>2. ASSUME NEW h \in Foremost(dirty),
               mem' = Unflagged(m, h),
               issued' = [q EXCEPT ![h] =
                   Append(@, [ver |-> m[h].ver, by |-> w, live |-> TRUE])],
               flushed' = [flushed EXCEPT ![w] =
                   [running |-> TRUE, past |-> past \cup before[h] \cup {h}]]
        PROVE  /\ mem' \in [Hulls -> Loaded]
               /\ issued' \in [Hulls -> Seq(Statement)]
               /\ flushed' \in [Sweeps -> [running : BOOLEAN, past : SUBSET Hulls]]
               /\ Sound(mem', r, issued', n, back)
    <2> DEFINE s == [ver |-> m[h].ver, by |-> w, live |-> TRUE]
    <2>1. h \in Hulls /\ m[h] \in Loaded /\ q[h] \in Seq(Statement)
      BY DEF Foremost
    <2>2. s \in Statement
      BY <2>1 DEF Statement, Loaded
    <2>3. /\ Append(q[h], s) \in Seq(Statement) /\ Len(Append(q[h], s)) = Len(q[h]) + 1
          /\ Len(q[h]) \in Nat /\ Last(Append(q[h], s)) = s
      BY <2>1, <2>2, AppendProperties, LenProperties DEF Last
    <2>4. mem' \in [Hulls -> Loaded]
      BY <1>2, <2>1 DEF Unflagged, Loaded
    <2>5. /\ issued' \in [Hulls -> Seq(Statement)]
          /\ issued'[h] = Append(q[h], s)
          /\ \A g \in Hulls \ {h} : issued'[g] = q[g]
      BY <1>2, <2>1, <2>3
    <2>6. flushed' \in [Sweeps -> [running : BOOLEAN, past : SUBSET Hulls]]
      BY <1>2, <2>1 DEF TypeOK
    <2>7. ASSUME NEW g \in Hulls
          PROVE  n[g] <= Len(issued'[g]) /\ Coming(g, mem'[g], r[g], issued'[g], n[g], back)
      <3>1. CASE g = h
        <4>1. mem'[h].ver = s.ver /\ s.live
          BY <1>2, <2>1 DEF Unflagged, Loaded
        <4>2. n[h] \in Nat /\ n[h] <= Len(q[h])
          BY <2>1 DEF Sound
        <4> HIDE DEF s
        <4>3. n[h] < Len(issued'[h]) /\ Last(issued'[h]) = s
          BY <4>2, <2>3, <2>5
        <4> QED BY <3>1, <4>1, <4>2, <4>3, <2>3, <2>5 DEF Coming
      <3>2. CASE g # h
        BY <3>2, <1>2, <2>5 DEF Unflagged, Sound
      <3> QED BY <3>1, <3>2
    <2> QED BY <2>4, <2>5, <2>6, <2>7 DEF Sound
  <1> QED BY <1>1, <1>2 DEF GoesOn

-----------------------------------------------------------------------------
(* Every action keeps the invariant.                                       *)

\* The boarding steps before the hull goes into the map.
LEMMA EntriesKeep ==
    ASSUME IInv,
           \/ \E h \in Hulls : Read(h)
           \/ \E e \in entries : Warm(e) \/ Hydrate(e)
    PROVE  IInv'
  <1>1. UNCHANGED <<mem, before, row, latest, flushed, issued, overtaken, setback>>
    BY DEF Read, Warm, Hydrate, order
  <1>2. entries' \in SUBSET Entry
    <2>1. CASE \E h \in Hulls : Read(h)
      BY <2>1 DEF Read, Entry, IInv, TypeOK
    <2>2. CASE \E e \in entries : Warm(e) \/ Hydrate(e)
      <3>1. PICK e \in entries : Warm(e) \/ Hydrate(e)
        BY <2>2
      <3>2. e \in Entry /\ entries \in SUBSET Entry
        BY DEF IInv, TypeOK
      <3>3. [e EXCEPT !.at = "hydrate"] \in Entry
        BY <3>2 DEF Entry
      <3> QED BY <3>1, <3>2, <3>3 DEF Warm, Hydrate
    <2> QED BY <2>1, <2>2
  <1> QED BY <1>1, <1>2 DEF IInv, TypeOK, Told

\* A hull nothing happens to stays as the invariant says.
LEMMA Untouched ==
    ASSUME IInv, NEW g \in Hulls,
           mem'[g] = mem[g], row'[g] = row[g], issued'[g] = issued[g],
           overtaken'[g] = overtaken[g], g \in setback => g \in setback'
    PROVE  Told(g)' /\ Coming(g, mem'[g], row'[g], issued'[g], overtaken'[g], setback')
  BY DEF IInv, Told, Coming

\* A hull put into the map is dirty.
LEMMA BoardKeeps ==
    ASSUME IInv, NEW e \in entries, Board(e)
    PROVE  IInv'
  <1> DEFINE h == e.hull
  <1>1. /\ h \in Hulls /\ e.ver \in Version /\ issued[h] \in Seq(Statement)
        /\ mem' = [mem EXCEPT ![h] = [loaded |-> TRUE, ver |-> e.ver, dirty |-> TRUE]]
        /\ issued' = [issued EXCEPT ![h] = Orphaned(@)]
        /\ entries' = entries \ {e} /\ UNCHANGED <<row, latest, flushed, overtaken, setback>>
    BY DEF Board, IInv, TypeOK, Entry, order
  <1>2. Orphaned(issued[h]) \in Seq(Statement) /\ Len(Orphaned(issued[h])) = Len(issued[h])
    BY <1>1, OrphanedProperties
  <1>3. before' \in [Hulls -> SUBSET Hulls]
    BY DEF Board, IInv, TypeOK
  <1>4. TypeOK'
    BY <1>1, <1>2, <1>3 DEF IInv, TypeOK
  <1>5. ASSUME NEW g \in Hulls
        PROVE  Told(g)' /\ Coming(g, mem'[g], row'[g], issued'[g], overtaken'[g], setback')
    <2>1. CASE g = h
      BY <2>1, <1>1, <1>2 DEF Coming, Told, IInv, TypeOK
    <2>2. CASE g # h
      BY <2>2, <1>1, Untouched DEF IInv, TypeOK
    <2> QED BY <2>1, <2>2
  <1> QED BY <1>4, <1>5 DEF IInv

\* A mutation marks the hull dirty.
LEMMA MutateKeeps ==
    ASSUME IInv, NEW h \in Hulls, Mutate(h)
    PROVE  IInv'
  <1>1. /\ latest[h] \in Version /\ latest[h] + 1 \in Version
        /\ latest' = [latest EXCEPT ![h] = @ + 1]
        /\ mem' = [mem EXCEPT ![h].ver = latest[h] + 1, ![h].dirty = TRUE]
        /\ UNCHANGED <<before, row, flushed, issued, entries, overtaken, setback>>
    BY MaxVersionAssumption DEF Mutate, IInv, TypeOK, Version, order
  <1>2. TypeOK'
    BY <1>1 DEF IInv, TypeOK
  <1>3. ASSUME NEW g \in Hulls
        PROVE  Told(g)' /\ Coming(g, mem'[g], row'[g], issued'[g], overtaken'[g], setback')
    <2>1. CASE g = h
      <3>1. mem'[g].dirty
        BY <2>1, <1>1 DEF IInv, TypeOK
      <3>2. Told(g)'
        BY <1>1 DEF IInv, Told
      <3> QED BY <3>1, <3>2 DEF Coming
    <2>2. CASE g # h
      BY <2>2, <1>1, Untouched DEF IInv, TypeOK
    <2> QED BY <2>1, <2>2
  <1> QED BY <1>2, <1>3 DEF IInv

\* The timer starts a sweep.
LEMMA SweepKeeps ==
    ASSUME IInv, NEW w \in Sweeps, Sweep(w)
    PROVE  IInv'
  <1>1. GoesOn(w, mem, issued, {}) /\ UNCHANGED <<before, row, latest, entries, overtaken, setback>>
    BY DEF Sweep, order
  <1>2. /\ TypeOK /\ mem \in [Hulls -> Loaded] /\ issued \in [Hulls -> Seq(Statement)]
        /\ row \in [Hulls -> Version] /\ {} \in SUBSET Hulls /\ overtaken \in [Hulls -> Nat]
        /\ Sound(mem, row, issued, overtaken, setback)
    BY DEF IInv, TypeOK, Loaded, Told, Sound
  <1>3. /\ mem' \in [Hulls -> Loaded]
        /\ issued' \in [Hulls -> Seq(Statement)]
        /\ flushed' \in [Sweeps -> [running : BOOLEAN, past : SUBSET Hulls]]
        /\ Sound(mem', row, issued', overtaken, setback)
    BY <1>1, <1>2, GoesOnSound
  <1> QED BY <1>1, <1>2, <1>3 DEF IInv, TypeOK, Loaded, Told, Sound

\* The final save saves what is in the map.
LEMMA UnloadKeeps ==
    ASSUME IInv, NEW h \in Hulls, Unload(h)
    PROVE  IInv'
  <1> DEFINE s == [ver |-> mem[h].ver, by |-> "unload", live |-> TRUE]
  <1>1. /\ issued[h] \in Seq(Statement) /\ s \in Statement
        /\ issued' = [issued EXCEPT ![h] = Append(@, s)]
        /\ UNCHANGED <<mem, before, row, latest, flushed, entries, overtaken, setback>>
    BY DEF Unload, IInv, TypeOK, Statement, order
  <1>2. /\ Append(issued[h], s) \in Seq(Statement) /\ Len(Append(issued[h], s)) = Len(issued[h]) + 1
        /\ Len(issued[h]) \in Nat /\ Last(Append(issued[h], s)) = s
    BY <1>1, AppendProperties, LenProperties DEF Last
  <1>3. TypeOK'
    BY <1>1, <1>2 DEF IInv, TypeOK
  <1>4. ASSUME NEW g \in Hulls
        PROVE  Told(g)' /\ Coming(g, mem'[g], row'[g], issued'[g], overtaken'[g], setback')
    <2>1. CASE g = h
      <3>1. s.ver = mem[h].ver /\ s.live
        OBVIOUS
      <3>2. issued'[h] = Append(issued[h], s) /\ mem' = mem /\ overtaken'[h] = overtaken[h]
        BY <1>1 DEF IInv, TypeOK
      <3>3. overtaken[h] \in Nat /\ overtaken[h] <= Len(issued[h])
        BY DEF IInv, Told, TypeOK
      <3> HIDE DEF s
      <3>4. overtaken'[h] < Len(issued'[h]) /\ Last(issued'[h]) = s
        BY <3>2, <3>3, <1>2
      <3>5. Told(h)'
        BY <3>2, <3>3, <3>4, <1>2 DEF Told
      <3> QED BY <2>1, <3>1, <3>2, <3>4, <3>5 DEF Coming
    <2>2. CASE g # h
      BY <2>2, <1>1, Untouched DEF IInv, TypeOK
    <2> QED BY <2>1, <2>2
  <1> QED BY <1>3, <1>4 DEF IInv

\* How many statements a later one overtook, once one of them is answered.
LEMMA OvertakesFacts ==
    ASSUME IInv, NEW h \in Hulls, NEW i \in DOMAIN issued[h], NEW ok \in BOOLEAN,
           Overtakes(h, i, ok)
    PROVE  /\ overtaken' \in [Hulls -> Nat] /\ setback' \in SUBSET Hulls
           /\ \A g \in Hulls \ {h} : overtaken'[g] = overtaken[g] /\ (g \in setback => g \in setback')
           /\ i \in Nat /\ i >= 1 /\ i <= Len(issued[h]) /\ Len(issued[h]) \in Nat
           /\ overtaken[h] \in Nat /\ overtaken[h] <= Len(issued[h])
           /\ overtaken'[h] = IF i <= overtaken[h] THEN overtaken[h] - 1
                              ELSE IF ok THEN i - 1 ELSE overtaken[h]
           /\ overtaken'[h] <= Len(issued[h]) - 1
           /\ ok /\ i <= overtaken[h] => h \in setback'
           /\ ~ok => setback' = setback
  <1>1. issued[h] \in Seq(Statement) /\ overtaken[h] \in Nat /\ overtaken[h] <= Len(issued[h])
    BY DEF IInv, TypeOK, Told
  <1>2. i \in Nat /\ i >= 1 /\ i <= Len(issued[h]) /\ Len(issued[h]) \in Nat
    BY <1>1, LenProperties
  <1> DEFINE n == IF i <= overtaken[h] THEN overtaken[h] - 1 ELSE IF ok THEN i - 1 ELSE overtaken[h]
  <1>3. n \in Nat /\ n <= Len(issued[h]) - 1
    BY <1>1, <1>2
  <1>4. overtaken' = [overtaken EXCEPT ![h] = n]
    BY DEF Overtakes
  <1> HIDE DEF n
  <1>5. /\ overtaken' \in [Hulls -> Nat] /\ overtaken'[h] = n
        /\ \A g \in Hulls \ {h} : overtaken'[g] = overtaken[g]
    BY <1>3, <1>4 DEF IInv, TypeOK
  <1>6. /\ setback' \in SUBSET Hulls
        /\ \A g \in Hulls \ {h} : g \in setback => g \in setback'
        /\ ok /\ i <= overtaken[h] => h \in setback'
        /\ ~ok => setback' = setback
    BY DEF Overtakes, IInv, TypeOK
  <1> QED BY <1>1, <1>2, <1>3, <1>5, <1>6 DEF n

\* An answer: the row takes the version of a statement that succeeded, an object
\* whose save failed is dirty again, and the statements issued later are left.
LEMMA AnsweredKeeps ==
    ASSUME IInv, NEW h \in Hulls, NEW i \in DOMAIN issued[h], NEW ok \in BOOLEAN,
           Answered(h, i, ok)
    PROVE  IInv'
  <1> DEFINE s == issued[h][i]
             q == [issued EXCEPT ![h] = RemoveAt(@, i)]
             L == Len(issued[h])
             n == overtaken[h]
  <1>1. /\ UNCHANGED <<latest, entries>> /\ Overtakes(h, i, ok)
        /\ row' = IF ok THEN [row EXCEPT ![h] = s.ver] ELSE row
    BY DEF Answered
  <1>2. issued[h] \in Seq(Statement) /\ s \in Statement
    <2>1. issued[h] \in Seq(Statement)
      BY DEF IInv, TypeOK
    <2> QED BY <2>1, LenProperties
  <1>3. row' \in [Hulls -> Version]
    BY <1>1, <1>2 DEF IInv, TypeOK, Statement
  <1>4. /\ RemoveAt(issued[h], i) \in Seq(Statement)
        /\ Len(RemoveAt(issued[h], i)) = L - 1
        /\ i < L => Last(RemoveAt(issued[h], i)) = Last(issued[h])
    BY <1>2, RemoveAtProperties
  <1>5. /\ q \in [Hulls -> Seq(Statement)] /\ q[h] = RemoveAt(issued[h], i)
        /\ \A g \in Hulls \ {h} : q[g] = issued[g]
    BY <1>4 DEF IInv, TypeOK
  <1>6. /\ overtaken' \in [Hulls -> Nat] /\ setback' \in SUBSET Hulls
        /\ \A g \in Hulls \ {h} : overtaken'[g] = overtaken[g] /\ (g \in setback => g \in setback')
        /\ i \in Nat /\ i >= 1 /\ i <= L /\ L \in Nat /\ n \in Nat /\ n <= L
        /\ overtaken'[h] = IF i <= n THEN n - 1 ELSE IF ok THEN i - 1 ELSE n
        /\ overtaken'[h] <= L - 1
        /\ ok /\ i <= n => h \in setback'
        /\ ~ok => setback' = setback
    BY <1>1, OvertakesFacts
  <1> HIDE DEF q
  <1>7. CASE s.by = "unload"
    <2>1. /\ mem' = [mem EXCEPT ![h] = Out]
          /\ before' = [g \in Hulls |-> IF g = h THEN {} ELSE before[g] \ {h}]
          /\ issued' = [q EXCEPT ![h] = Orphaned(@)]
          /\ flushed' = [w \in Sweeps |-> [flushed[w] EXCEPT !.past = @ \ {h}]]
      BY <1>7, SweepsAssumption DEF Answered, q
    <2>2. Orphaned(q[h]) \in Seq(Statement) /\ Len(Orphaned(q[h])) = L - 1
      BY <1>4, <1>5, OrphanedProperties
    <2>3. Out \in Loaded
      BY MaxVersionAssumption DEF Out, Loaded, Version
    <2>4. flushed' \in [Sweeps -> [running : BOOLEAN, past : SUBSET Hulls]]
      <3>1. flushed \in [Sweeps -> [running : BOOLEAN, past : SUBSET Hulls]]
        BY DEF IInv, TypeOK
      <3> QED BY <2>1, <3>1
    <2>5. before' \in [Hulls -> SUBSET Hulls]
      BY <2>1 DEF IInv, TypeOK
    <2>6. TypeOK'
      BY <2>1, <2>2, <2>3, <2>4, <2>5, <1>1, <1>3, <1>5, <1>6 DEF IInv, TypeOK, Loaded
    <2>7. ASSUME NEW g \in Hulls
          PROVE  Told(g)' /\ Coming(g, mem'[g], row'[g], issued'[g], overtaken'[g], setback')
      <3>1. CASE g = h
        <4>1. issued'[h] = Orphaned(q[h]) /\ mem'[h] = Out
          BY <2>1, <1>5 DEF IInv, TypeOK
        <4>2. Told(h)'
          BY <4>1, <2>2, <1>6 DEF Told
        <4> QED BY <3>1, <4>1, <4>2 DEF Coming, Out
      <3>2. CASE g # h
        <4>1. mem'[g] = mem[g] /\ issued'[g] = issued[g] /\ row'[g] = row[g]
          BY <3>2, <2>1, <1>1, <1>5 DEF IInv, TypeOK
        <4> QED BY <4>1, <3>2, <1>6, Untouched
      <3> QED BY <3>1, <3>2
    <2> QED BY <2>6, <2>7 DEF IInv
  <1>8. CASE s.by # "unload"
    <2> DEFINE m == Reflagged(mem, h, s, ok)
               w == s.by
               r == row'
               k == overtaken'
               back == setback'
    <2>1. /\ w \in Sweeps /\ flushed[w].past \in SUBSET Hulls /\ before' = before
          /\ GoesOn(w, m, q, flushed[w].past)
      BY <1>2, <1>8 DEF Answered, Statement, IInv, TypeOK, q
    <2>2. m \in [Hulls -> Loaded] /\ \A g \in Hulls \ {h} : m[g] = mem[g]
      BY DEF Reflagged, IInv, TypeOK, Loaded
    <2>3. ASSUME NEW g \in Hulls
          PROVE  k[g] <= Len(q[g]) /\ Coming(g, m[g], r[g], q[g], k[g], back)
      <3>1. CASE g # h
        <4>1. m[g] = mem[g] /\ q[g] = issued[g] /\ r[g] = row[g]
          BY <3>1, <2>2, <1>1, <1>5 DEF IInv, TypeOK
        <4>2. k[g] = overtaken[g] /\ (g \in setback => g \in back)
          BY <3>1, <1>6
        <4> HIDE DEF m, r, k, back
        <4> QED BY <4>1, <4>2 DEF IInv, Told, Coming
      <3>2. CASE g = h
        <4>1. k[h] <= Len(q[h]) /\ Len(q[h]) = L - 1
          BY <1>4, <1>5, <1>6
        <4> SUFFICES ASSUME m[h].loaded, ~m[h].dirty
                     PROVE  IF k[h] < Len(q[h]) THEN Last(q[h]).ver = m[h].ver /\ Last(q[h]).live
                            ELSE r[h] = m[h].ver \/ h \in back
          BY <3>2, <4>1 DEF Coming
        <4>2. m[h] = mem[h] /\ (ok \/ ~s.live)
          BY DEF Reflagged, IInv, TypeOK
        <4>3. IF n < L THEN Last(issued[h]).ver = mem[h].ver /\ Last(issued[h]).live
              ELSE row[h] = mem[h].ver \/ h \in setback
          BY <4>2 DEF IInv, Coming
        <4>4. IF ok THEN r[h] = s.ver ELSE r[h] = row[h]
          BY <1>1 DEF IInv, TypeOK
        <4>5. k[h] = IF i <= n THEN n - 1 ELSE IF ok THEN i - 1 ELSE n
          BY <1>6
        <4>6. (ok /\ i <= n => h \in back) /\ (~ok => back = setback)
          BY <1>6
        <4> HIDE DEF m, r, k, back
        <4>7. CASE i < L
          <5>1. Last(q[h]) = Last(issued[h])
            BY <4>7, <1>4, <1>5
          <5>2. CASE n < L
            <6>1. k[h] < L - 1
              BY <4>5, <4>7, <5>2, <1>6
            <6> QED BY <6>1, <5>1, <5>2, <4>1, <4>2, <4>3
          <5>3. CASE ~(n < L)
            <6>1. n = L /\ i <= n /\ ~(k[h] < L - 1)
              BY <4>5, <4>7, <5>3, <1>6
            <6> QED BY <6>1, <5>3, <4>1, <4>2, <4>3, <4>4, <4>6
          <5> QED BY <5>2, <5>3
        <4>8. CASE i = L
          <5>1. s = Last(issued[h])
            BY <4>8 DEF Last
          <5>2. CASE n < L
            <6>1. s.ver = mem[h].ver /\ s.live /\ ok
              BY <5>1, <5>2, <4>2, <4>3
            <6>2. ~(k[h] < L - 1)
              BY <6>1, <4>5, <4>8, <5>2, <1>6
            <6> QED BY <6>1, <6>2, <4>1, <4>2, <4>4
          <5>3. CASE ~(n < L)
            <6>1. i <= n /\ ~(k[h] < L - 1)
              BY <4>5, <4>8, <5>3, <1>6
            <6> QED BY <6>1, <5>3, <4>1, <4>2, <4>3, <4>4, <4>6
          <5> QED BY <5>2, <5>3
        <4> QED BY <4>7, <4>8, <1>6
      <3> QED BY <3>1, <3>2
    <2>7. Sound(m, r, q, k, back)
      BY <2>3 DEF Sound
    <2>4. TypeOK /\ r \in [Hulls -> Version] /\ k \in [Hulls -> Nat]
      BY <1>3, <1>6 DEF IInv
    <2> HIDE DEF m, r, w, k, back
    <2>5. /\ mem' \in [Hulls -> Loaded]
          /\ issued' \in [Hulls -> Seq(Statement)]
          /\ flushed' \in [Sweeps -> [running : BOOLEAN, past : SUBSET Hulls]]
          /\ Sound(mem', r, issued', k, back)
      BY <2>1, <2>2, <2>4, <2>7, <1>5, GoesOnSound
    <2>6. TypeOK'
      BY <2>1, <2>5, <1>1, <1>3, <1>6 DEF IInv, TypeOK, Loaded
    <2> QED BY <2>5, <2>6 DEF IInv, Told, Sound, r, k, back
  <1> QED BY <1>7, <1>8

\* A crash empties the map.
LEMMA CrashKeeps ==
    ASSUME IInv, Crash
    PROVE  IInv'
  <1>1. /\ row' \in [Hulls -> Version] /\ mem' = [h \in Hulls |-> Out]
        /\ before' = [h \in Hulls |-> {}]
        /\ flushed' = [w \in Sweeps |-> Idle] /\ issued' = [h \in Hulls |-> <<>>]
        /\ entries' = {} /\ latest' = latest
        /\ overtaken' = [h \in Hulls |-> 0] /\ setback' = {}
    BY DEF Crash
  <1>2. <<>> \in Seq(Statement) /\ 0 \in Version /\ Len(<<>>) = 0
    BY EmptySeq, MaxVersionAssumption DEF Version
  <1>3. TypeOK'
    BY <1>1, <1>2 DEF IInv, TypeOK, Out, Idle
  <1>4. \A h \in Hulls : Told(h)' /\ Coming(h, mem'[h], row'[h], issued'[h], overtaken'[h], setback')
    BY <1>1, <1>2 DEF Coming, Told, Out
  <1> QED BY <1>3, <1>4 DEF IInv

\* The process starts with nothing in the map.
LEMMA InitSound == Init => IInv
  <1> SUFFICES ASSUME Init PROVE IInv
    OBVIOUS
  <1>1. <<>> \in Seq(Statement) /\ 0 \in Version /\ Len(<<>>) = 0
    BY EmptySeq, MaxVersionAssumption DEF Version
  <1>2. TypeOK
    BY <1>1 DEF Init, TypeOK, Out, Idle
  <1>3. \A h \in Hulls : Told(h) /\ Coming(h, mem[h], row[h], issued[h], overtaken[h], setback)
    BY <1>1 DEF Init, Coming, Told, Out
  <1> QED BY <1>2, <1>3 DEF IInv

-----------------------------------------------------------------------------
(* The theorems.                                                           *)

\* Every step keeps the invariant.
LEMMA NextKeeps == IInv /\ [Next]_vars => IInv'
  <1> SUFFICES ASSUME IInv, [Next]_vars PROVE IInv'
    OBVIOUS
  <1>1. CASE \/ \E h \in Hulls : Read(h)
             \/ \E e \in entries : Warm(e) \/ Hydrate(e)
    BY <1>1, EntriesKeep
  <1>2. CASE \E h \in Hulls : Mutate(h) \/ Unload(h)
    BY <1>2, MutateKeeps, UnloadKeeps
  <1>3. CASE \E e \in entries : Board(e)
    BY <1>3, BoardKeeps
  <1>4. CASE \E w \in Sweeps : Sweep(w)
    BY <1>4, SweepKeeps
  <1>5. CASE \E h \in Hulls : \E i \in DOMAIN issued[h], ok \in BOOLEAN : Answered(h, i, ok)
    BY <1>5, AnsweredKeeps
  <1>6. CASE Crash
    BY <1>6, CrashKeeps
  <1>7. CASE UNCHANGED vars
    BY <1>7 DEF vars, IInv, TypeOK, Told
  <1> QED BY <1>1, <1>2, <1>3, <1>4, <1>5, <1>6, <1>7 DEF Next

\* Every behaviour of the store is type correct.
THEOREM TypeCorrect == Spec => []TypeOK
  <1>1. IInv => TypeOK
    BY DEF IInv
  <1> QED BY InitSound, NextKeeps, <1>1, PTL DEF Spec

\* A mutation is never lost from the world unsaved: a hull that is not marked dirty
\* is in its row, or in a statement that is to be done last, or a statement that was
\* overtaken wrote over it (flush, "Clear the flag BEFORE awaiting").
THEOREM CleanHullsAreSaved == Spec => []CleanIsSaved
  <1>1. IInv => CleanIsSaved
    BY DEF IInv, CleanIsSaved, Coming, LastWordOut
  <1> QED BY InitSound, NextKeeps, <1>1, PTL DEF Spec
=============================================================================
