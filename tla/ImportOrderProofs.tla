-------------------------- MODULE ImportOrderProofs --------------------------
(***************************************************************************)
(* The order resolveImports computes is right for every import graph.      *)
(***************************************************************************)
EXTENDS ImportOrder, TLAPS

\* A call of toposort either returns at once or opens one frame.
LEMMA EnterEffect ==
  ASSUME NEW d \in SearchType, NEW s \in Sources
  PROVE  /\ s \in d.seen => Enter(d, s) = d
         /\ s \notin d.seen =>
              /\ Enter(d, s).roots = d.roots
              /\ Enter(d, s).order = d.order
              /\ Enter(d, s).path = Append(d.path, [source |-> s, next |-> 1])
         /\ Enter(d, s).seen = d.seen \cup {s}
         /\ Enter(d, s) \in SearchType
<1> DEFINE p == Append(d.path, [source |-> s, next |-> 1])
<1>1. d.path \in Seq(Frame) /\ d.seen \in SUBSET Sources
  BY DEF SearchType
<1>2. [source |-> s, next |-> 1] \in Frame
  BY DEF Frame
<1>3. p \in Seq(Frame)
  BY <1>1, <1>2
<1>4. CASE s \in d.seen
  BY <1>4 DEF Enter
<1>5. CASE s \notin d.seen
  <2>1. Enter(d, s) = [d EXCEPT !.seen = @ \cup {s}, !.path = p]
    BY <1>5 DEF Enter
  <2> HIDE DEF p
  <2>2. Enter(d, s) \in SearchType
    BY <1>1, <1>3, <2>1 DEF SearchType
  <2>3. /\ Enter(d, s).roots = d.roots /\ Enter(d, s).order = d.order
        /\ Enter(d, s).seen = d.seen \cup {s} /\ Enter(d, s).path = p
    BY <2>1 DEF SearchType
  <2> QED
    BY <1>5, <2>2, <2>3 DEF p
<1> QED
  BY <1>4, <1>5

\* Reachability: a source reaches itself, and what it reaches, its imports too.
LEMMA ReachesFacts ==
  ASSUME NEW imp
  PROVE  /\ \A s \in Sources : Reaches(imp, s, s)
         /\ \A s, t, u \in Sources :
              Reaches(imp, s, t) /\ u \in ImportsOf(imp, t) => Reaches(imp, s, u)
BY DEF Reaches, Closed

\* The loop over m_sources drops the source it takes and calls toposort for it.
LEMMA TakeRootEffect ==
  ASSUME TypeOK, TakeRoot
  PROVE  LET s == Head(dfs.roots) IN
         /\ s \in Sources
         /\ s = dfs.roots[1]
         /\ dfs' \in SearchType
         /\ dfs'.roots = Tail(dfs.roots)
         /\ dfs'.order = dfs.order
         /\ dfs'.seen = dfs.seen \cup {s}
         /\ s \in dfs.seen => dfs'.path = <<>>
         /\ s \notin dfs.seen => dfs'.path = <<[source |-> s, next |-> 1]>>
<1> DEFINE s == Head(dfs.roots)
           d == [dfs EXCEPT !.roots = Tail(@)]
<1>1. /\ s \in Sources /\ s = dfs.roots[1] /\ d \in SearchType
      /\ d.roots = Tail(dfs.roots) /\ d.order = dfs.order /\ d.seen = dfs.seen
      /\ d.path = <<>>
  <2>1. dfs.roots \in Seq(Sources) /\ dfs.roots # <<>> /\ dfs.path = <<>>
    BY DEF TypeOK, SearchType, TakeRoot
  <2>2. s \in Sources /\ s = dfs.roots[1] /\ Tail(dfs.roots) \in Seq(Sources)
    BY <2>1
  <2> QED
    BY <2>1, <2>2 DEF TypeOK, SearchType
<1>2. dfs' = Enter(d, s)
  BY DEF TakeRoot, NextRoot
<1> HIDE DEF d, s
<1>3. Append(<<>>, [source |-> s, next |-> 1]) = <<[source |-> s, next |-> 1]>>
  OBVIOUS
<1>4. CASE s \in dfs.seen
  BY <1>1, <1>2, <1>4, EnterEffect DEF s
<1>5. CASE s \notin dfs.seen
  BY <1>1, <1>2, <1>3, <1>5, EnterEffect DEF s
<1> QED
  BY <1>4, <1>5

\* Following an import directive advances the innermost frame of toposort, then calls it.
LEMMA FollowEffect ==
  ASSUME TypeOK, FollowImport
  PROVE  LET n == Len(dfs.path)
             f == dfs.path[n]
             t == imports[f.source][f.next]
             q == [dfs.path EXCEPT ![n] = [f EXCEPT !.next = @ + 1]] IN
         /\ n \in DOMAIN dfs.path
         /\ f.source \in Sources
         /\ f.next \in DOMAIN imports[f.source]
         /\ t \in Sources
         /\ t \in ImportsOf(imports, f.source)
         /\ q \in Seq(Frame)
         /\ dfs' \in SearchType
         /\ dfs'.roots = dfs.roots
         /\ dfs'.order = dfs.order
         /\ dfs'.seen = dfs.seen \cup {t}
         /\ t \in dfs.seen => dfs'.path = q
         /\ t \notin dfs.seen => dfs'.path = Append(q, [source |-> t, next |-> 1])
<1> DEFINE n == Len(dfs.path)
           f == dfs.path[n]
           t == imports[f.source][f.next]
           q == [dfs.path EXCEPT ![n] = [f EXCEPT !.next = @ + 1]]
           d == [dfs EXCEPT !.path[Len(dfs.path)] = [f EXCEPT !.next = @ + 1]]
<1>1. /\ n \in DOMAIN dfs.path /\ f \in Frame
  BY DEF TypeOK, SearchType, FollowImport
<1>2. /\ f.source \in Sources /\ f.next \in Nat \ {0}
      /\ imports[f.source] \in Seq(Sources)
  BY <1>1, ImportsAssumption DEF Frame, TypeOK
<1>3. f.next \in DOMAIN imports[f.source] /\ t \in Sources /\ t \in ImportsOf(imports, f.source)
  BY <1>2 DEF FollowImport, Top, ImportsOf
<1>4. q \in Seq(Frame)
  <2>1. [f EXCEPT !.next = @ + 1] \in Frame
    BY <1>1 DEF Frame
  <2> HIDE DEF f
  <2> QED
    BY <1>1, <2>1 DEF TypeOK, SearchType
<1>5. /\ d \in SearchType /\ d.roots = dfs.roots /\ d.order = dfs.order
      /\ d.seen = dfs.seen /\ d.path = q
  BY <1>4 DEF TypeOK, SearchType
<1>6. dfs' = Enter(d, t)
  BY DEF FollowImport, Follow, Top
<1> HIDE DEF d, t, q, f, n
<1>7. dfs' \in SearchType /\ dfs'.roots = dfs.roots /\ dfs'.order = dfs.order
  BY <1>3, <1>5, <1>6, EnterEffect
<1>8. t \in dfs.seen => dfs'.path = q
  BY <1>3, <1>5, <1>6, EnterEffect
<1>9. t \notin dfs.seen => dfs'.path = Append(q, [source |-> t, next |-> 1])
  BY <1>3, <1>5, <1>6, EnterEffect
<1>10. dfs'.seen = dfs.seen \cup {t}
  <2>1. Enter(d, t).seen = d.seen \cup {t}
    BY <1>3, <1>5, EnterEffect
  <2> QED
    BY <1>5, <1>6, <2>1
<1> QED
  BY <1>1, <1>2, <1>3, <1>4, <1>7, <1>8, <1>9, <1>10 DEF t, q, f, n

\* A toposort call that returns moves its source from the path to the end of the order.
LEMMA LeaveEffect ==
  ASSUME TypeOK, LeaveSource
  PROVE  LET n == Len(dfs.path)
             s == dfs.path[n].source IN
         /\ n \in Nat /\ n \in DOMAIN dfs.path
         /\ s \in Sources
         /\ dfs.path[n].next > Len(imports[s])
         /\ dfs' \in SearchType
         /\ dfs'.roots = dfs.roots
         /\ dfs'.order = Append(dfs.order, s)
         /\ dfs'.seen = dfs.seen
         /\ Len(dfs'.path) = n - 1
         /\ DOMAIN dfs'.path = 1 .. n - 1
         /\ \A i \in 1 .. n - 1 : dfs'.path[i] = dfs.path[i]
<1> DEFINE n == Len(dfs.path)
           s == dfs.path[n].source
<1>1. n \in Nat /\ n \in DOMAIN dfs.path /\ dfs.path[n] \in Frame
  BY DEF TypeOK, SearchType, LeaveSource
<1>2. s \in Sources
  BY <1>1 DEF Frame
<1>3. dfs.path[n].next > Len(imports[s])
  BY DEF LeaveSource, Top
<1> DEFINE p == SubSeq(dfs.path, 1, n - 1)
           o == Append(dfs.order, s)
<1>4. dfs' = [dfs EXCEPT !.order = o, !.path = p]
  BY DEF LeaveSource, Leave, Top
<1>5. p \in Seq(Frame) /\ Len(p) = n - 1 /\ \A i \in 1 .. n - 1 : p[i] = dfs.path[i]
  <2>1. dfs.path \in Seq(Frame) /\ n - 1 \in 0 .. Len(dfs.path)
    BY <1>1 DEF TypeOK, SearchType
  <2>2. \A q \in Seq(Frame) : \A k \in 0 .. Len(q) :
          /\ SubSeq(q, 1, k) \in Seq(Frame)
          /\ Len(SubSeq(q, 1, k)) = k
          /\ \A i \in 1 .. k : SubSeq(q, 1, k)[i] = q[i]
    OBVIOUS
  <2> QED
    BY <2>1, <2>2
<1>6. o \in Seq(Sources)
  BY <1>2 DEF TypeOK, SearchType
<1> HIDE DEF p, o
<1>7. dfs' \in SearchType
  BY <1>4, <1>5, <1>6 DEF TypeOK, SearchType
<1>8. /\ dfs'.roots = dfs.roots /\ dfs'.order = o
      /\ dfs'.seen = dfs.seen /\ dfs'.path = p
  BY <1>4 DEF TypeOK, SearchType
<1> QED
  BY <1>1, <1>2, <1>3, <1>5, <1>7, <1>8 DEF o

-----------------------------------------------------------------------------
\* resolveImports starts in the invariant: nothing seen, every entry still to take.
LEMMA InitIInv == Init => IInv
<1> SUFFICES ASSUME Init PROVE IInv
  OBVIOUS
<1>1. /\ dfs.roots = entries /\ dfs.path = <<>> /\ dfs.seen = {}
      /\ dfs.order = <<>> /\ entries \in Seq(Sources) /\ dfs \in SearchType
  BY ImportsAssumption DEF Init, StartSearch, SearchType
<1>2. TypeOK
  BY <1>1 DEF Init, TypeOK
<1>3. OnPath(dfs) = {} /\ Emitted(dfs) = {}
  BY <1>1 DEF OnPath, Emitted
<1>4. SeenSplit /\ FollowedSeen /\ PathConnected /\ EmittedFollowed
  BY <1>1, <1>3 DEF SeenSplit, FollowedSeen, PathConnected, EmittedFollowed
<1>5. EntriesKept /\ SeenReachable
  BY <1>1 DEF EntriesKept, SeenReachable
<1>6. NoDuplicates /\ ImportsFirst
  BY <1>1 DEF NoDuplicates, ImportsFirst
<1> QED
  BY <1>2, <1>4, <1>5, <1>6 DEF IInv

\* The loop over m_sources keeps the invariant when it takes the next source.
LEMMA TakeRootIInv == IInv /\ TakeRoot => IInv'
<1> SUFFICES ASSUME IInv, TakeRoot PROVE IInv'
  OBVIOUS
<1> DEFINE s == Head(dfs.roots)
<1>1. /\ s \in Sources /\ s = dfs.roots[1]
      /\ dfs' \in SearchType
      /\ dfs'.roots = Tail(dfs.roots)
      /\ dfs'.order = dfs.order
      /\ dfs'.seen = dfs.seen \cup {s}
      /\ s \in dfs.seen => dfs'.path = <<>>
      /\ s \notin dfs.seen => dfs'.path = <<[source |-> s, next |-> 1]>>
  BY TakeRootEffect DEF IInv
<1>2. /\ dfs.path = <<>> /\ dfs.roots # <<>> /\ imports' = imports /\ entries' = entries
      /\ dfs.roots \in Seq(Sources) /\ dfs.seen \subseteq Sources
      /\ imports[s] \in Seq(Sources)
  BY <1>1, ImportsAssumption DEF TakeRoot, IInv, TypeOK, SearchType
<1>3. OnPath(dfs) = {} /\ Emitted(dfs') = Emitted(dfs) /\ dfs.seen = Emitted(dfs)
  BY <1>1, <1>2 DEF OnPath, Emitted, IInv, SeenSplit
<1>4. OnPath(dfs') = {s} \ dfs.seen
  BY <1>1 DEF OnPath
<1> HIDE DEF s
<1>5. TypeOK'
  BY <1>1, <1>2 DEF IInv, TypeOK
<1>6. SeenSplit'
  BY <1>1, <1>2, <1>3, <1>4 DEF IInv, SeenSplit
<1>7. FollowedSeen' /\ PathConnected'
  BY <1>1, <1>2, ReachesFacts DEF FollowedSeen, PathConnected
<1>8. EmittedFollowed'
  BY <1>1, <1>2, <1>3 DEF IInv, EmittedFollowed
<1>9. EntriesKept'
  <2>1. \A j \in DOMAIN dfs.roots : j = 1 \/ (j - 1 \in DOMAIN dfs'.roots /\ dfs'.roots[j - 1] = dfs.roots[j])
    BY <1>1, <1>2
  <2>2. \A j \in DOMAIN dfs'.roots : j + 1 \in DOMAIN dfs.roots /\ dfs'.roots[j] = dfs.roots[j + 1]
    BY <1>1, <1>2
  <2>3. 1 \in DOMAIN dfs.roots /\ s \in dfs'.seen /\ dfs.seen \subseteq dfs'.seen
    BY <1>1, <1>2
  <2>4. \A i \in DOMAIN entries :
          \/ entries[i] \in dfs'.seen
          \/ \E j \in DOMAIN dfs'.roots : dfs'.roots[j] = entries[i]
    <3> SUFFICES ASSUME NEW i \in DOMAIN entries, entries[i] \notin dfs'.seen
                 PROVE  \E j \in DOMAIN dfs'.roots : dfs'.roots[j] = entries[i]
      OBVIOUS
    <3>1. PICK j \in DOMAIN dfs.roots : dfs.roots[j] = entries[i]
      BY <2>3 DEF IInv, EntriesKept
    <3>2. j # 1
      BY <1>1, <2>3, <3>1
    <3> QED
      BY <2>1, <3>1, <3>2
  <2>5. \A j \in DOMAIN dfs'.roots : \E i \in DOMAIN entries : entries[i] = dfs'.roots[j]
    BY <2>2 DEF IInv, EntriesKept
  <2> QED
    BY <1>2, <2>4, <2>5 DEF EntriesKept
<1>10. SeenReachable'
  <2>1. \E i \in DOMAIN entries : entries[i] = s
    BY <1>1, <1>2 DEF IInv, EntriesKept
  <2> QED
    BY <1>1, <1>2, <2>1, ReachesFacts DEF IInv, SeenReachable
<1>11. NoDuplicates' /\ ImportsFirst'
  BY <1>1, <1>2 DEF IInv, NoDuplicates, ImportsFirst
<1> QED
  BY <1>5, <1>6, <1>7, <1>8, <1>9, <1>10, <1>11 DEF IInv

\* toposort keeps the invariant when it follows an import directive.
LEMMA FollowImportIInv == IInv /\ FollowImport => IInv'
<1> SUFFICES ASSUME IInv, FollowImport PROVE IInv'
  OBVIOUS
<1> DEFINE n == Len(dfs.path)
           f == dfs.path[n]
           t == imports[f.source][f.next]
           q == [dfs.path EXCEPT ![n] = [f EXCEPT !.next = @ + 1]]
<1>1. /\ n \in DOMAIN dfs.path
      /\ f.source \in Sources
      /\ f.next \in DOMAIN imports[f.source]
      /\ t \in Sources
      /\ t \in ImportsOf(imports, f.source)
      /\ q \in Seq(Frame)
      /\ dfs' \in SearchType
      /\ dfs'.roots = dfs.roots
      /\ dfs'.order = dfs.order
      /\ dfs'.seen = dfs.seen \cup {t}
      /\ t \in dfs.seen => dfs'.path = q
      /\ t \notin dfs.seen => dfs'.path = Append(q, [source |-> t, next |-> 1])
  BY FollowEffect DEF IInv
<1>2. /\ imports' = imports /\ entries' = entries
      /\ dfs.path \in Seq(Frame) /\ dfs.seen \subseteq Sources
      /\ n \in Nat /\ f \in Frame
      /\ \A i \in DOMAIN dfs.path : dfs.path[i] \in Frame
      /\ \A u \in Sources : imports[u] \in Seq(Sources)
  BY <1>1, ImportsAssumption, SMTT(30) DEF FollowImport, IInv, TypeOK, SearchType
<1>3. /\ DOMAIN q = 1 .. n
      /\ \A i \in 1 .. n : q[i].source = dfs.path[i].source
      /\ \A i \in 1 .. n - 1 : q[i].next = dfs.path[i].next
      /\ q[n].next = f.next + 1
  <2>1. DOMAIN dfs.path = 1 .. n /\ f.next \in Nat
    BY <1>2 DEF Frame
  <2>2. \A i \in 1 .. n : q[i] = IF i = n THEN [f EXCEPT !.next = f.next + 1] ELSE dfs.path[i]
    BY <1>1, <2>1
  <2>3. /\ [f EXCEPT !.next = f.next + 1].source = f.source
        /\ [f EXCEPT !.next = f.next + 1].next = f.next + 1
    BY <1>2 DEF Frame
  <2>4. DOMAIN q = 1 .. n
    BY <2>1
  <2>5. /\ f = dfs.path[n]
        /\ n \in 1 .. n /\ n \notin 1 .. n - 1 /\ 1 .. n - 1 \subseteq 1 .. n
    <3>1. n \in 1 .. n /\ n \in Nat
      BY <1>1, <1>2, <2>1
    <3> HIDE DEF n
    <3> QED
      BY <3>1
  <2> HIDE DEF q, n, f
  <2> QED
    BY <2>2, <2>3, <2>4, <2>5
<1> DEFINE m == Len(dfs'.path)
<1>4. /\ m \in Nat
      /\ DOMAIN dfs'.path = 1 .. m
      /\ m = n \/ m = n + 1
      /\ m = n <=> t \in dfs.seen
      /\ \A i \in 1 .. n : dfs'.path[i] = q[i]
      /\ m = n + 1 => dfs'.path[m] = [source |-> t, next |-> 1]
  <2>1. Len(q) = n
    <3>1. q \in Seq(Frame) /\ DOMAIN q = 1 .. n /\ n \in Nat
      BY <1>1, <1>2, <1>3
    <3> HIDE DEF q, n
    <3> QED
      BY <3>1
  <2> HIDE DEF q, t
  <2>2. CASE t \in dfs.seen
    BY <1>1, <1>2, <2>1, <2>2
  <2>3. CASE t \notin dfs.seen
    <3> DEFINE g == [source |-> t, next |-> 1]
    <3>1. Append(q, g) \in Seq(Frame)
      BY <1>1, <2>3 DEF SearchType
    <3> HIDE DEF g
    <3>2. /\ Len(Append(q, g)) = n + 1
          /\ Append(q, g)[n + 1] = g
          /\ \A i \in 1 .. n : Append(q, g)[i] = q[i]
      BY <1>1, <1>2, <2>1
    <3>3. dfs'.path = Append(q, g)
      BY <1>1, <2>3 DEF g
    <3> QED
      BY <1>2, <2>3, <3>1, <3>2, <3>3 DEF g
  <2> QED
    BY <2>2, <2>3
<1>5. /\ OnPath(dfs') = OnPath(dfs) \cup ({t} \ dfs.seen)
      /\ Emitted(dfs') = Emitted(dfs)
  <2> HIDE DEF q, t, m
  <2>1. DOMAIN dfs.path = 1 .. n
    BY <1>2
  <2>2. \A i \in 1 .. n : dfs'.path[i].source = dfs.path[i].source
    BY <1>3, <1>4
  <2> HIDE DEF n
  <2>3. CASE t \in dfs.seen
    BY <1>1, <1>4, <2>1, <2>2, <2>3 DEF OnPath, Emitted
  <2>4. CASE t \notin dfs.seen
    <3>1. DOMAIN dfs'.path = (1 .. n) \cup {m} /\ dfs'.path[m].source = t
      BY <1>2, <1>4, <2>4
    <3> QED
      BY <1>1, <2>1, <2>2, <2>4, <3>1, SMTT(30) DEF OnPath, Emitted
  <2> QED
    BY <2>3, <2>4
<1>6. DOMAIN dfs.path = 1 .. n /\ n > 0
  <2>1. DOMAIN dfs.path = 1 .. n
    BY <1>2
  <2> HIDE DEF n
  <2> QED
    BY <1>1, <1>2, <2>1
<1>7. n \in 1 .. n /\ f = dfs.path[n] /\ f.source = dfs.path[n].source /\ f.next \in Nat \ {0} /\ t = imports[f.source][f.next]
  BY <1>2, <1>6 DEF Frame
<1> HIDE DEF t, q, f, n, m
<1>8. TypeOK'
  <2>1. \A i \in 1 .. m : dfs'.path[i].next <= Len(imports[dfs'.path[i].source]) + 1
    <3> SUFFICES ASSUME NEW i \in 1 .. m
                 PROVE  dfs'.path[i].next <= Len(imports[dfs'.path[i].source]) + 1
      OBVIOUS
    <3>1. CASE i \in 1 .. n - 1
      <4>1. i \in DOMAIN dfs.path /\ dfs'.path[i].next = dfs.path[i].next
            /\ dfs'.path[i].source = dfs.path[i].source
        BY <1>2, <1>3, <1>4, <1>6, <3>1
      <4> QED
        BY <4>1 DEF IInv, TypeOK
    <3>2. CASE i = n
      <4>1. dfs'.path[i].next = f.next + 1 /\ dfs'.path[i].source = f.source
        BY <1>3, <1>4, <1>7, <3>2
      <4>2. imports[f.source] \in Seq(Sources) /\ f.next \in DOMAIN imports[f.source]
        BY <1>1, <1>2
      <4>3. f.next <= Len(imports[f.source]) /\ Len(imports[f.source]) \in Nat
        BY <1>7, <4>2
      <4> QED
        BY <1>7, <4>1, <4>3
    <3>3. CASE i = n + 1
      BY <1>1, <1>2, <1>4, <3>3
    <3> QED
      BY <1>2, <1>4, <3>1, <3>2, <3>3
  <2> QED
    BY <1>1, <1>2, <1>4, <2>1 DEF IInv, TypeOK
<1>9. SeenSplit'
  <2>1. \A i, j \in 1 .. m : i # j => dfs'.path[i].source # dfs'.path[j].source
    <3>1. \A i \in 1 .. n : dfs'.path[i].source = dfs.path[i].source /\ dfs.path[i].source \in dfs.seen
      BY <1>3, <1>4, <1>6 DEF IInv, SeenSplit, OnPath
    <3>2. CASE m = n
      BY <1>6, <3>1, <3>2 DEF IInv, SeenSplit
    <3>3. CASE m = n + 1
      BY <1>2, <1>4, <1>6, <3>1, <3>3, SMTT(30) DEF IInv, SeenSplit
    <3> QED
      BY <1>4, <3>2, <3>3
  <2> QED
    BY <1>1, <1>4, <1>5, <2>1 DEF IInv, SeenSplit
<1>10. FollowedSeen'
  <2> SUFFICES ASSUME NEW i \in 1 .. m, NEW k \in 1 .. dfs'.path[i].next - 1
               PROVE  imports[dfs'.path[i].source][k] \in dfs'.seen
    BY <1>2, <1>4 DEF FollowedSeen
  <2>1. CASE i \in 1 .. n - 1
    <3>1. i \in DOMAIN dfs.path /\ dfs'.path[i].next = dfs.path[i].next
          /\ dfs'.path[i].source = dfs.path[i].source
      BY <1>2, <1>3, <1>4, <1>6, <2>1
    <3> QED
      BY <1>1, <3>1 DEF IInv, FollowedSeen
  <2>2. CASE i = n
    <3>1. k \in 1 .. f.next /\ dfs'.path[i].source = f.source
      BY <1>2, <1>3, <1>4, <1>6, <1>7, <2>2
    <3>2. CASE k = f.next
      BY <1>1, <1>7, <3>1, <3>2
    <3>3. CASE k \in 1 .. f.next - 1
      <4>1. k \in 1 .. dfs.path[n].next - 1
        BY <3>3 DEF f
      <4> QED
        BY <1>1, <1>6, <1>7, <3>1, <4>1 DEF IInv, FollowedSeen
    <3> QED
      BY <1>7, <3>1, <3>2, <3>3
  <2>3. CASE i = n + 1
    BY <1>2, <1>4, <2>3
  <2> QED
    BY <1>2, <1>4, <2>1, <2>2, <2>3
<1>11. PathConnected'
  <2> SUFFICES ASSUME NEW i \in 1 .. m, NEW j \in 1 .. m, i <= j
               PROVE  Reaches(imports, dfs'.path[i].source, dfs'.path[j].source)
    BY <1>2, <1>4 DEF PathConnected
  <2>1. \A k \in 1 .. n : dfs'.path[k].source = dfs.path[k].source /\ dfs.path[k].source \in Sources
    BY <1>2, <1>3, <1>4, <1>6 DEF Frame
  <2>2. CASE j \in 1 .. n
    BY <1>2, <1>6, <2>1, <2>2 DEF IInv, PathConnected
  <2>3. CASE j = n + 1 /\ i = n + 1
    BY <1>1, <1>2, <1>4, <2>3, ReachesFacts
  <2>4. CASE j = n + 1 /\ i \in 1 .. n
    <3>1. dfs'.path[j].source = t
      BY <1>2, <1>4, <2>4
    <3>2. Reaches(imports, dfs.path[i].source, f.source)
      BY <1>2, <1>6, <1>7, <2>4 DEF IInv, PathConnected
    <3>3. /\ dfs'.path[i].source = dfs.path[i].source
          /\ dfs.path[i].source \in Sources
      BY <2>1, <2>4
    <3>4. f.source \in Sources /\ t \in Sources /\ t \in ImportsOf(imports, f.source)
      BY <1>1, <1>7
    <3>5. Reaches(imports, dfs.path[i].source, t)
      BY <3>2, <3>3, <3>4, ReachesFacts
    <3> QED
      BY <3>1, <3>3, <3>5
  <2> QED
    BY <1>2, <1>4, <2>2, <2>3, <2>4
<1>12. EmittedFollowed' /\ EntriesKept'
  BY <1>1, <1>2, <1>5 DEF IInv, EmittedFollowed, EntriesKept
<1>13. SeenReachable'
  <2>1. f.source \in dfs.seen
    BY <1>6, <1>7 DEF IInv, SeenSplit, OnPath
  <2>2. PICK i \in DOMAIN entries : Reaches(imports, entries[i], f.source)
    BY <2>1 DEF IInv, SeenReachable
  <2>3. entries[i] \in Sources
    BY ImportsAssumption DEF IInv, TypeOK
  <2>4. Reaches(imports, entries[i], t)
    BY <1>1, <2>2, <2>3, ReachesFacts
  <2> QED
    BY <1>1, <1>2, <2>4 DEF IInv, SeenReachable
<1>14. NoDuplicates' /\ ImportsFirst'
  BY <1>1, <1>2 DEF IInv, NoDuplicates, ImportsFirst
<1> QED
  BY <1>8, <1>9, <1>10, <1>11, <1>12, <1>13, <1>14 DEF IInv

\* toposort keeps the invariant when it pushes its source and returns.
LEMMA LeaveSourceIInv == IInv /\ LeaveSource => IInv'
<1> SUFFICES ASSUME IInv, LeaveSource PROVE IInv'
  OBVIOUS
<1> DEFINE n == Len(dfs.path)
           s == dfs.path[n].source
           k == Len(dfs.order)
<1>1. /\ n \in Nat /\ n \in DOMAIN dfs.path
      /\ s \in Sources
      /\ dfs.path[n].next > Len(imports[s])
      /\ dfs' \in SearchType
      /\ dfs'.roots = dfs.roots
      /\ dfs'.order = Append(dfs.order, s)
      /\ dfs'.seen = dfs.seen
      /\ DOMAIN dfs'.path = 1 .. n - 1
      /\ \A i \in 1 .. n - 1 : dfs'.path[i] = dfs.path[i]
  BY LeaveEffect DEF IInv
<1>2. /\ imports' = imports /\ entries' = entries
      /\ dfs.path \in Seq(Frame) /\ dfs.order \in Seq(Sources)
      /\ \A u \in Sources : imports[u] \in Seq(Sources)
      /\ DOMAIN dfs.path = 1 .. n /\ n > 0
      /\ k \in Nat /\ DOMAIN dfs.order = 1 .. k
  BY <1>1, ImportsAssumption DEF LeaveSource, IInv, TypeOK, SearchType
<1>3. /\ DOMAIN dfs'.order = 1 .. k + 1
      /\ \A i \in 1 .. k : dfs'.order[i] = dfs.order[i]
      /\ dfs'.order[k + 1] = s
  BY <1>1, <1>2
<1>kept. \A i \in DOMAIN dfs'.path : i \in DOMAIN dfs.path /\ i # n /\ dfs'.path[i] = dfs.path[i]
  BY <1>1, <1>2
<1>others. \A i \in DOMAIN dfs.path : i = n \/ i \in DOMAIN dfs'.path
  BY <1>1, <1>2
<1>top. s = dfs.path[n].source /\ dfs.path[n] \in Frame /\ n \in DOMAIN dfs.path
  BY <1>1, <1>2
<1> HIDE DEF k, n, s
<1>4. Emitted(dfs') = Emitted(dfs) \cup {s}
  <2>1. 1 .. k + 1 = (1 .. k) \cup {k + 1}
    <3>1. k \in Nat
      BY <1>2
    <3> QED
      BY <3>1
  <2> QED
    BY <1>2, <1>3, <2>1, SMTT(30) DEF Emitted
<1>5. OnPath(dfs) = OnPath(dfs') \cup {s} /\ s \notin OnPath(dfs')
  <2>1. \A i \in DOMAIN dfs'.path : dfs'.path[i].source # s
    <3>1. \A i \in DOMAIN dfs'.path : dfs.path[i].source # dfs.path[n].source
      BY <1>kept, <1>top DEF IInv, SeenSplit
    <3> QED
      BY <1>kept, <1>top, <3>1
  <2>2. OnPath(dfs) \subseteq OnPath(dfs') \cup {s}
    BY <1>kept, <1>others, <1>top DEF OnPath
  <2>3. OnPath(dfs') \cup {s} \subseteq OnPath(dfs)
    BY <1>kept, <1>top DEF OnPath
  <2> QED
    BY <2>1, <2>2, <2>3 DEF OnPath
<1>6. s \notin Emitted(dfs) /\ s \in dfs.seen
  BY <1>5 DEF IInv, SeenSplit
<1>7. ImportsOf(imports, s) \subseteq dfs.seen
  <2> SUFFICES ASSUME NEW i \in DOMAIN imports[s] PROVE imports[s][i] \in dfs.seen
    BY DEF ImportsOf
  <2>1. dfs.path[n].next \in Nat
    BY <1>top DEF Frame
  <2>2. imports[s] \in Seq(Sources)
    BY <1>1, <1>2
  <2>3. i \in 1 .. dfs.path[n].next - 1
    BY <1>1, <2>1, <2>2
  <2> QED
    BY <1>top, <2>3 DEF IInv, FollowedSeen
<1>8. TypeOK'
  BY <1>1, <1>2, <1>kept DEF IInv, TypeOK
<1>9. SeenSplit'
  <2>1. \A i, j \in DOMAIN dfs'.path : i # j => dfs'.path[i].source # dfs'.path[j].source
    BY <1>kept DEF IInv, SeenSplit
  <2>2. dfs'.seen = OnPath(dfs') \cup Emitted(dfs') /\ OnPath(dfs') \cap Emitted(dfs') = {}
    BY <1>1, <1>4, <1>5 DEF IInv, SeenSplit
  <2> QED
    BY <2>1, <2>2 DEF SeenSplit
<1>10. FollowedSeen' /\ PathConnected'
  BY <1>1, <1>2, <1>kept DEF IInv, FollowedSeen, PathConnected
<1>11. EmittedFollowed'
  BY <1>1, <1>2, <1>4, <1>7 DEF IInv, EmittedFollowed
<1>12. EntriesKept' /\ SeenReachable'
  BY <1>1, <1>2 DEF IInv, EntriesKept, SeenReachable
<1>13. NoDuplicates'
  <2>1. \A i \in 1 .. k : dfs.order[i] # s
    BY <1>2, <1>6 DEF Emitted
  <2> QED
    BY <1>2, <1>3, <2>1 DEF IInv, NoDuplicates
<1>14. ImportsFirst'
  <2> SUFFICES ASSUME NEW i \in 1 .. k + 1, NEW t \in ImportsOf(imports, dfs'.order[i])
               PROVE  \/ \E j \in 1 .. i - 1 : dfs'.order[j] = t
                      \/ Reaches(imports, t, dfs'.order[i])
    BY <1>2, <1>3 DEF ImportsFirst
  <2>1. CASE i \in 1 .. k
    <3>1. 1 .. i - 1 \subseteq 1 .. k
      BY <1>2, <2>1
    <3>2. dfs'.order[i] = dfs.order[i] /\ i \in DOMAIN dfs.order
      BY <1>2, <1>3, <2>1
    <3> QED
      BY <1>3, <3>1, <3>2 DEF IInv, ImportsFirst
  <2>2. CASE i = k + 1
    <3>1. dfs'.order[i] = s /\ t \in dfs.seen /\ i - 1 = k
      BY <1>2, <1>3, <1>7, <2>2
    <3>2. CASE t \in Emitted(dfs)
      BY <1>2, <1>3, <3>1, <3>2 DEF Emitted
    <3>3. CASE t \in OnPath(dfs)
      <4>1. PICK j \in DOMAIN dfs.path : dfs.path[j].source = t
        BY <3>3 DEF OnPath
      <4>2. j <= n
        BY <1>2, <4>1
      <4> QED
        BY <1>top, <3>1, <4>1, <4>2 DEF IInv, PathConnected
    <3> QED
      BY <3>1, <3>2, <3>3 DEF IInv, SeenSplit
  <2> QED
    BY <1>2, <2>1, <2>2
<1> QED
  BY <1>8, <1>9, <1>10, <1>11, <1>12, <1>13, <1>14 DEF IInv

-----------------------------------------------------------------------------
LEMMA StutterIInv == IInv /\ UNCHANGED vars => IInv'
  BY DEF IInv, vars, TypeOK, SeenSplit, FollowedSeen, PathConnected, EmittedFollowed,
         EntriesKept, SeenReachable, NoDuplicates, ImportsFirst

\* The invariant holds of every search resolveImports can be in.
THEOREM SearchInvariant == Spec => []IInv
<1>1. IInv /\ [Next]_vars => IInv'
  BY StutterIInv, TakeRootIInv, FollowImportIInv, LeaveSourceIInv DEF Next
<1> QED
  BY InitIInv, <1>1, PTL DEF Spec

(***************************************************************************)
(* The search keeps to the sources, and no frame of it runs past the       *)
(* imports of its source.                                                  *)
(***************************************************************************)
THEOREM SearchTypes == Spec => []TypeOK
BY SearchInvariant, PTL DEF IInv

(***************************************************************************)
(* resolveImports never puts a source in the order twice, for any number   *)
(* of sources and any import graph.                                        *)
(***************************************************************************)
THEOREM OrderHasNoDuplicates == Spec => []NoDuplicates
BY SearchInvariant, PTL DEF IInv

(***************************************************************************)
(* In the order resolveImports computes a source follows its imports,      *)
(* except the imports that lead back to it: only cycles are cut.           *)
(***************************************************************************)
THEOREM OrderIsTopological == Spec => []ImportsFirst
BY SearchInvariant, PTL DEF IInv

\* When nothing is left to visit, what has been seen is closed under imports.
LEMMA FinishedCovers == IInv => CoversReachable
<1> SUFFICES ASSUME IInv, Finished(dfs), NEW t \in Sources
             PROVE  t \in Emitted(dfs)
                      <=> \E i \in DOMAIN entries : Reaches(imports, entries[i], t)
  BY DEF CoversReachable
<1>1. dfs.seen = Emitted(dfs) /\ dfs.seen \in SUBSET Sources
  BY DEF Finished, OnPath, IInv, SeenSplit, TypeOK, SearchType
<1>2. \A i \in DOMAIN entries : entries[i] \in dfs.seen
  BY DEF Finished, IInv, EntriesKept
<1>3. Closed(imports, dfs.seen)
  BY <1>1 DEF IInv, EmittedFollowed, Closed
<1>4. (\E i \in DOMAIN entries : Reaches(imports, entries[i], t)) => t \in dfs.seen
  BY <1>1, <1>2, <1>3 DEF Reaches
<1> QED
  BY <1>1, <1>4 DEF IInv, SeenReachable

(***************************************************************************)
(* When resolveImports returns, the order holds what the non-library       *)
(* sources reach through imports, and nothing else.                        *)
(***************************************************************************)
THEOREM OrderCoversReachable == Spec => []CoversReachable
BY FinishedCovers, SearchInvariant, PTL
=============================================================================
