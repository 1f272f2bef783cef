------------------------ MODULE GraphExecutor_proofs ------------------------
(***************************************************************************)
(* Theorems about GraphExecutor, for every DAG and number of runs: the     *)
(* topological sort is one, a finished run has settled every node on this  *)
(* run's inputs, and a roll-back has somewhere to go.                      *)
(***************************************************************************)
EXTENDS GraphExecutor, FiniteSetTheorems, WellFoundedInduction, TLAPS

-----------------------------------------------------------------------------
(* Functions defined by recursion on 0..n.  Induction is over the set of   *)
(* the indices for which something holds.                                  *)

LEMMA HasLeast ==
  ASSUME NEW S \in SUBSET Nat, S # {}
  PROVE  \E m \in S : \A k \in S : m <= k
<1> DEFINE Less == {ss \in Nat \X Nat : ss[1] < ss[2]}
<1>1. IsWellFoundedOn(Less, Nat) BY NatLessThanWellFounded DEF OpToRel
<1>2. PICK m \in S : \A k \in S : <<k, m>> \notin Less
  <2> HIDE DEF Less
  <2> QED BY <1>1, WFMin
<1>3. \A k \in S : m <= k
  <2> TAKE k \in S
  <2>1. m \in Nat /\ k \in Nat /\ ~ (k < m) BY <1>2
  <2> QED BY <2>1
<1> QED BY <1>3

LEMMA UpTo ==
  ASSUME NEW n \in Nat, NEW P, 0 \in P,
         \A i \in 1..n : i - 1 \in P => i \in P
  PROVE  0..n \subseteq P
<1> DEFINE Bad == {i \in 0..n : i \notin P}
<1> SUFFICES ASSUME Bad # {} PROVE FALSE OBVIOUS
<1>1. PICK m \in Bad : \A k \in Bad : m <= k
  <2>1. Bad \in SUBSET Nat OBVIOUS
  <2> HIDE DEF Bad
  <2> QED BY <2>1, HasLeast
<1>2. m \in 1..n /\ m - 1 \in 0..n /\ ~ (m <= m - 1) OBVIOUS
<1>3. m - 1 \in P BY <1>1, <1>2
<1> QED BY <1>2, <1>3

\* A function on 0..n is there for every first value and every step.
Recursions(n, S, a, F) ==
  {f \in [0..n -> S] :
     f[0] = a /\ \A i \in 1..n : f[i] = F[<<i, f[i - 1]>>]}

LEMMA RecursionExists ==
  ASSUME NEW n \in Nat, NEW S, NEW a \in S, NEW F \in [(1..n) \X S -> S]
  PROVE  Recursions(n, S, a, F) # {}
<1> DEFINE Partial(k) == {f \in [0..k -> S] :
             f[0] = a /\ \A i \in 1..k : f[i] = F[<<i, f[i - 1]>>]}
           P == {k \in 0..n : Partial(k) # {}}
<1>1. 0 \in P
  <2>1. [i \in 0..0 |-> a] \in Partial(0) OBVIOUS
  <2> QED BY <2>1
<1>2. ASSUME NEW k \in 1..n, k - 1 \in P PROVE k \in P
  <2>1. PICK f \in Partial(k - 1) : TRUE BY <1>2
  <2>2. f[k - 1] \in S /\ F[<<k, f[k - 1]>>] \in S BY <2>1
  <2> DEFINE g == [i \in 0..k |-> IF i = k THEN F[<<k, f[k - 1]>>] ELSE f[i]]
  <2>3. g \in [0..k -> S] BY <2>1, <2>2
  <2>4. g[0] = a BY <2>1
  <2>5. ASSUME NEW i \in 1..k PROVE g[i] = F[<<i, g[i - 1]>>]
    <3>1. i - 1 \in 0..k /\ i - 1 # k /\ g[i - 1] = f[i - 1] OBVIOUS
    <3>2. CASE i = k BY <3>1, <3>2
    <3>3. CASE i # k
      <4>1. i \in 1..(k - 1) /\ g[i] = f[i] BY <3>3
      <4>2. f[i] = F[<<i, f[i - 1]>>] BY <2>1, <4>1
      <4> QED BY <3>1, <4>1, <4>2
    <3> QED BY <3>2, <3>3
  <2>6. g \in Partial(k) BY <2>3, <2>4, <2>5
  <2>7. k \in 0..n OBVIOUS
  <2> HIDE DEF g, Partial
  <2> QED BY <2>6, <2>7
<1>3. 0..n \subseteq P
  <2> HIDE DEF P
  <2> QED BY <1>1, <1>2, UpTo
<1>4. Partial(n) # {} BY <1>3
<1> QED BY <1>4 DEF Recursions
-----------------------------------------------------------------------------
(* Sequences without repetition. *)

LEMMA Appended ==
  ASSUME NEW S, NEW h \in Seq(S), NEW e \in S
  PROVE  /\ ToSet(Append(h, e)) = ToSet(h) \cup {e}
         /\ IsInjective(h) /\ e \notin ToSet(h) => IsInjective(Append(h, e))
<1>1. /\ Append(h, e) \in Seq(S) /\ Len(h) \in Nat
      /\ Len(Append(h, e)) = Len(h) + 1
      /\ Append(h, e)[Len(h) + 1] = e
      /\ \A i \in 1..Len(h) : Append(h, e)[i] = h[i]
  OBVIOUS
<1>2. /\ DOMAIN h = 1..Len(h) /\ DOMAIN Append(h, e) = 1..(Len(h) + 1)
  BY <1>1
<1> DEFINE g == Append(h, e)
           n == Len(h)
<1> HIDE DEF g
<1>3. ToSet(g) = ToSet(h) \cup {e}
  <2>1. \A i \in 1..(n + 1) : i \in 1..n \/ i = n + 1 BY <1>1
  <2>2. \A i \in 1..n : i \in 1..(n + 1) BY <1>1
  <2>3. n + 1 \in 1..(n + 1) BY <1>1
  <2> QED BY <1>1, <1>2, <2>1, <2>2, <2>3 DEF ToSet, g
<1>4. ASSUME IsInjective(h), e \notin ToSet(h) PROVE IsInjective(g)
  <2>1. \A i \in 1..n : h[i] # e BY <1>2, <1>4 DEF ToSet
  <2>2. \A i, j \in 1..n : h[i] = h[j] => i = j BY <1>2, <1>4 DEF IsInjective
  <2>3. \A i \in 1..(n + 1) : i \in 1..n \/ i = n + 1 BY <1>1
  <2> QED BY <1>1, <1>2, <2>1, <2>2, <2>3 DEF IsInjective, g
<1> QED BY <1>3, <1>4 DEF g

LEMMA HeadTaken ==
  ASSUME NEW S, NEW h \in Seq(S), h # <<>>, IsInjective(h)
  PROVE  /\ Head(h) \in S /\ Tail(h) \in Seq(S) /\ IsInjective(Tail(h))
         /\ Head(h) \in ToSet(h) /\ ToSet(Tail(h)) = ToSet(h) \ {Head(h)}
<1>1. /\ Len(h) \in Nat \ {0} /\ DOMAIN h = 1..Len(h)
      /\ Head(h) = h[1] /\ 1 \in 1..Len(h)
      /\ Tail(h) \in Seq(S) /\ Len(Tail(h)) = Len(h) - 1
      /\ \A i \in 1..(Len(h) - 1) : Tail(h)[i] = h[i + 1]
      /\ DOMAIN Tail(h) = 1..(Len(h) - 1)
  OBVIOUS
<1>2. \A i, j \in 1..Len(h) : h[i] = h[j] => i = j BY <1>1 DEF IsInjective
<1>3. Head(h) \in S /\ Head(h) \in ToSet(h) BY <1>1 DEF ToSet
<1> DEFINE g == Tail(h)
           n == Len(h)
<1>4. \A i \in 1..(n - 1) : i + 1 \in 1..n /\ i + 1 # 1 /\ g[i] = h[i + 1]
  BY <1>1
<1>5. \A i \in 1..n : i = 1 \/ (i - 1 \in 1..(n - 1) /\ i - 1 + 1 = i)
  BY <1>1
<1>6. \A i, j \in 1..(n - 1) : i + 1 = j + 1 => i = j OBVIOUS
<1> HIDE DEF g, n
<1>7. IsInjective(g)
  BY <1>1, <1>2, <1>4, <1>6 DEF IsInjective, g, n
<1>8. ToSet(g) = {h[i] : i \in 1..n} \ {h[1]}
  <2>1. ASSUME NEW i \in 1..(n - 1) PROVE g[i] \in {h[k] : k \in 1..n} \ {h[1]}
    BY <1>1, <1>2, <1>4 DEF n
  <2>2. ASSUME NEW i \in 1..n, h[i] # h[1] PROVE \E j \in 1..(n - 1) : h[i] = g[j]
    <3>1. i - 1 \in 1..(n - 1) /\ i - 1 + 1 = i BY <1>5, <2>2
    <3>2. g[i - 1] = h[i] BY <1>4, <3>1
    <3> QED BY <3>1, <3>2
  <2>3. ToSet(g) = {g[i] : i \in 1..(n - 1)} BY <1>1 DEF ToSet, g, n
  <2> QED BY <2>1, <2>2, <2>3
<1> QED BY <1>1, <1>3, <1>7, <1>8 DEF ToSet, g, n
-----------------------------------------------------------------------------
(* Kahn's algorithm. *)

KahnState == [degree : [Node -> Int], order : Seq(Node), queue : Seq(Node)]

\* Edges still to be looked at: degrees count those, and the nodes in the queue
\* and the order are those that none of them leads to.
IntoOf(L, m) == {i \in L : edges[i].target = m}
Kahn(state, L) ==
  /\ state \in KahnState
  /\ L \subseteq DOMAIN edges
  /\ IsInjective(state.order) /\ IsInjective(state.queue)
  /\ ToSet(state.order) \cap ToSet(state.queue) = {}
  /\ \A m \in Node : state.degree[m] = Cardinality(IntoOf(L, m))
  /\ \A m \in Node :
       m \in ToSet(state.order) \cup ToSet(state.queue) <=> state.degree[m] = 0

\* Between two nodes they are the edges out of a node not taken yet.
Live(taken) == {i \in DOMAIN edges : edges[i].source \notin ToSet(taken)}

LEMMA EdgesAreFinite ==
  ASSUME edges \in EdgeLists
  PROVE  /\ edges \in Seq(DAGEdge)
         /\ Len(edges) \in Nat /\ DOMAIN edges = 1..Len(edges)
         /\ \A i \in DOMAIN edges :
              edges[i].source \in Node /\ edges[i].target \in Node
         /\ \A L \in SUBSET DOMAIN edges, m \in Node :
              /\ IsFiniteSet(IntoOf(L, m))
              /\ Cardinality(IntoOf(L, m)) \in Nat
              /\ Cardinality(IntoOf(L, m)) = 0 <=> IntoOf(L, m) = {}
<1>1. edges \in Seq(DAGEdge)
  BY GraphAssumption
<1>2. Len(edges) \in Nat /\ DOMAIN edges = 1..Len(edges) BY <1>1
<1>3. ASSUME NEW i \in DOMAIN edges
      PROVE  edges[i].source \in Node /\ edges[i].target \in Node
  <2>1. edges[i] \in DAGEdge BY <1>1, <1>2
  <2> QED BY <2>1 DEF DAGEdge
<1>4. IsFiniteSet(DOMAIN edges) BY <1>2, FS_Interval
<1>5. ASSUME NEW L \in SUBSET DOMAIN edges, NEW m \in Node
      PROVE  /\ IsFiniteSet(IntoOf(L, m))
             /\ Cardinality(IntoOf(L, m)) \in Nat
             /\ Cardinality(IntoOf(L, m)) = 0 <=> IntoOf(L, m) = {}
  <2>1. IntoOf(L, m) \subseteq DOMAIN edges BY DEF IntoOf
  <2>2. IsFiniteSet(IntoOf(L, m)) BY <1>4, <2>1, FS_Subset
  <2> QED BY <2>2, FS_CardinalityType, FS_EmptySet
<1> QED BY <1>1, <1>2, <1>3, <1>5

\* An edge is looked at.
LEMMA RelaxKeepsKahn ==
  ASSUME edges \in EdgeLists, NEW state, NEW L, Kahn(state, L), NEW j \in L
  PROVE  /\ Kahn(Relax(state, edges[j]), L \ {j})
         /\ Relax(state, edges[j]).order = state.order
<1> DEFINE t == edges[j].target
           left == state.degree[t] - 1
           next == Relax(state, edges[j])
           K == L \ {j}
<1>1. /\ state \in KahnState /\ L \in SUBSET DOMAIN edges /\ K \in SUBSET DOMAIN edges
      /\ t \in Node
  BY EdgesAreFinite DEF Kahn
<1>2. /\ IntoOf(K, t) = IntoOf(L, t) \ {j} /\ j \in IntoOf(L, t)
      /\ \A m \in Node \ {t} : IntoOf(K, m) = IntoOf(L, m)
  BY DEF IntoOf
<1>3. /\ Cardinality(IntoOf(K, t)) = Cardinality(IntoOf(L, t)) - 1
      /\ Cardinality(IntoOf(L, t)) # 0
      /\ Cardinality(IntoOf(L, t)) \in Nat
  <2>1. IsFiniteSet(IntoOf(L, t)) BY <1>1, EdgesAreFinite
  <2>2. Cardinality(IntoOf(L, t) \ {j}) = Cardinality(IntoOf(L, t)) - 1
    BY <1>2, <2>1, FS_RemoveElement
  <2>3. Cardinality(IntoOf(L, t)) # 0 BY <1>1, <1>2, EdgesAreFinite
  <2> QED BY <1>1, <1>2, <2>2, <2>3, EdgesAreFinite
<1>4. /\ next.degree = [state.degree EXCEPT ![t] = left]
      /\ next.order = state.order
      /\ next.queue = IF left = 0 THEN Append(state.queue, t) ELSE state.queue
      /\ next = [degree |-> next.degree, order |-> next.order, queue |-> next.queue]
  <2>1. state = [degree |-> state.degree, order |-> state.order,
                 queue |-> state.queue]
    BY <1>1 DEF KahnState
  <2>2. next = [state EXCEPT !.degree[t] = left,
                  !.queue = IF left = 0 THEN Append(state.queue, t)
                            ELSE state.queue]
    BY <1>1 DEF Relax
  <2> HIDE DEF t, left, next
  <2> QED BY <2>1, <2>2
<1>5. /\ state.degree \in [Node -> Int] /\ state.order \in Seq(Node)
      /\ state.queue \in Seq(Node) /\ left \in Int
      /\ Append(state.queue, t) \in Seq(Node)
  BY <1>1 DEF KahnState
<1> HIDE DEF t, left, next, K
<1>6. /\ next.degree \in [Node -> Int] /\ next.degree[t] = left
      /\ \A m \in Node \ {t} : next.degree[m] = state.degree[m]
  BY <1>1, <1>4, <1>5
<1>7. next \in KahnState
  <2>1. next.order \in Seq(Node) /\ next.queue \in Seq(Node) BY <1>4, <1>5
  <2> QED BY <1>4, <1>6, <2>1 DEF KahnState
<1>8. state.degree[t] = Cardinality(IntoOf(L, t)) BY <1>1 DEF Kahn
<1>9. \A m \in Node : next.degree[m] = Cardinality(IntoOf(K, m))
  BY <1>2, <1>3, <1>6, <1>8 DEF Kahn, left
<1>10. t \notin ToSet(state.order) \cup ToSet(state.queue)
  BY <1>1, <1>3, <1>8 DEF Kahn
<1>11. CASE left = 0
  <2>1. /\ IsInjective(next.queue)
        /\ ToSet(next.queue) = ToSet(state.queue) \cup {t}
    BY <1>1, <1>4, <1>5, <1>10, <1>11, Appended DEF Kahn
  <2> QED BY <1>1, <1>4, <1>6, <1>7, <1>9, <1>10, <1>11, <2>1 DEF Kahn, next, K
<1>12. CASE left # 0
  BY <1>1, <1>4, <1>6, <1>7, <1>9, <1>10, <1>12 DEF Kahn, next, K
<1> QED BY <1>11, <1>12

LEMMA RelaxTyped ==
  ASSUME edges \in EdgeLists, NEW state \in KahnState, NEW i \in DOMAIN edges
  PROVE  Relax(state, edges[i]) \in KahnState
<1> DEFINE t == edges[i].target
           left == state.degree[t] - 1
           next == Relax(state, edges[i])
<1>1. t \in Node BY EdgesAreFinite
<1>2. /\ state.degree \in [Node -> Int] /\ state.order \in Seq(Node)
      /\ state.queue \in Seq(Node)
  BY DEF KahnState
<1>3. left \in Int /\ Append(state.queue, t) \in Seq(Node) BY <1>1, <1>2
<1>4. state = [degree |-> state.degree, order |-> state.order,
               queue |-> state.queue]
  BY DEF KahnState
<1>5. next = [state EXCEPT !.degree[t] = left,
                !.queue = IF left = 0 THEN Append(state.queue, t)
                          ELSE state.queue]
  BY DEF Relax
<1>6. next = [degree |-> [state.degree EXCEPT ![t] = left],
              order |-> state.order,
              queue |-> IF left = 0 THEN Append(state.queue, t) ELSE state.queue]
  <2> HIDE DEF t, left, next
  <2> QED BY <1>4, <1>5
<1> HIDE DEF t, left, next
<1>7. [state.degree EXCEPT ![t] = left] \in [Node -> Int] BY <1>2, <1>3
<1>8. next \in KahnState BY <1>2, <1>3, <1>6, <1>7 DEF KahnState
<1> QED BY <1>8 DEF next

\* Taking a node: it moves to the order, and its edges are still to be looked at.
LEMMA TakeKeepsKahn ==
  ASSUME edges \in EdgeLists, NEW state, Kahn(state, Live(state.order)),
         state.queue # <<>>, NEW taken,
         taken = [state EXCEPT !.queue = Tail(@),
                               !.order = Append(@, Head(state.queue))]
  PROVE  /\ Kahn(taken, Live(state.order))
         /\ taken.order = Append(state.order, Head(state.queue))
<1>1. /\ state.degree \in [Node -> Int] /\ state.order \in Seq(Node)
      /\ state.queue \in Seq(Node)
      /\ state = [degree |-> state.degree, order |-> state.order,
                  queue |-> state.queue]
  BY DEF Kahn, KahnState
<1> DEFINE n == Head(state.queue)
<1>2. /\ IsInjective(state.order) /\ IsInjective(state.queue)
      /\ ToSet(state.order) \cap ToSet(state.queue) = {}
  BY DEF Kahn
<1>3. /\ n \in Node /\ Tail(state.queue) \in Seq(Node)
      /\ IsInjective(Tail(state.queue)) /\ n \in ToSet(state.queue)
      /\ ToSet(Tail(state.queue)) = ToSet(state.queue) \ {n}
  BY <1>1, <1>2, HeadTaken
<1>4. /\ taken.order = Append(state.order, n) /\ taken.queue = Tail(state.queue)
      /\ taken.degree = state.degree
      /\ taken = [degree |-> state.degree, order |-> Append(state.order, n),
                  queue |-> Tail(state.queue)]
  BY <1>1
<1> HIDE DEF n
<1>5. /\ ToSet(taken.order) = ToSet(state.order) \cup {n}
      /\ IsInjective(taken.order)
  BY <1>1, <1>2, <1>3, <1>4, Appended
<1>6. taken \in KahnState
  <2>1. Append(state.order, n) \in Seq(Node) BY <1>1, <1>3
  <2> QED BY <1>1, <1>3, <1>4, <2>1 DEF KahnState
<1>7. ToSet(taken.order) \cap ToSet(taken.queue) = {}
      /\ ToSet(taken.order) \cup ToSet(taken.queue) =
           ToSet(state.order) \cup ToSet(state.queue)
  BY <1>2, <1>3, <1>4, <1>5
<1>8. IsInjective(taken.queue) BY <1>3, <1>4
<1>9. Kahn(taken, Live(state.order))
  BY <1>4, <1>5, <1>6, <1>7, <1>8 DEF Kahn
<1> QED BY <1>4, <1>9 DEF n

LEMMA PopTakesOne ==
  ASSUME edges \in EdgeLists, NEW state, Kahn(state, Live(state.order)),
         state.queue # <<>>
  PROVE  /\ Pop(state).order = Append(state.order, Head(state.queue))
         /\ Kahn(Pop(state), Live(Pop(state).order))
<1> DEFINE n == Head(state.queue)
           taken == [state EXCEPT !.queue = Tail(@), !.order = Append(@, n)]
           relaxed[i \in 0..Len(edges)] ==
             IF i = 0 THEN taken
             ELSE LET before == relaxed[i - 1]
                  IN IF edges[i].source = n THEN Relax(before, edges[i])
                     ELSE before
<1>1. Pop(state) = relaxed[Len(edges)] BY DEF Pop
<1>2. /\ Len(edges) \in Nat /\ DOMAIN edges = 1..Len(edges)
      /\ \A i \in DOMAIN edges :
           edges[i].source \in Node /\ edges[i].target \in Node
  BY EdgesAreFinite
<1>3. Kahn(taken, Live(state.order)) /\ taken.order = Append(state.order, n)
  BY TakeKeepsKahn
<1>4. taken \in KahnState BY <1>3 DEF Kahn
<1> DEFINE Recursion(g) ==
             g = [i \in 0..Len(edges) |->
                    IF i = 0 THEN taken
                    ELSE IF edges[i].source = n THEN Relax(g[i - 1], edges[i])
                    ELSE g[i - 1]]
<1>5. relaxed = CHOOSE g : Recursion(g) OBVIOUS
<1> HIDE DEF taken, relaxed
<1>6. \E g : Recursion(g)
  <2> DEFINE F == [p \in (1..Len(edges)) \X KahnState |->
                     IF edges[p[1]].source = n THEN Relax(p[2], edges[p[1]])
                     ELSE p[2]]
  <2>1. F \in [(1..Len(edges)) \X KahnState -> KahnState]
    BY <1>2, RelaxTyped
  <2>2. \A i \in 1..Len(edges), x \in KahnState :
          F[<<i, x>>] = IF edges[i].source = n THEN Relax(x, edges[i]) ELSE x
    OBVIOUS
  <2> HIDE DEF F, Recursion, n
  <2> USE DEF Recursion
  <2>3. PICK g \in [0..Len(edges) -> KahnState] :
          g[0] = taken /\ \A i \in 1..Len(edges) : g[i] = F[<<i, g[i - 1]>>]
    <3>1. Len(edges) \in Nat BY <1>2
    <3>2. Recursions(Len(edges), KahnState, taken, F) # {}
      BY <1>4, <2>1, <3>1, RecursionExists
    <3> QED BY <3>2 DEF Recursions
  <2>4. ASSUME NEW i \in 1..Len(edges)
        PROVE  g[i] = IF edges[i].source = n THEN Relax(g[i - 1], edges[i])
                      ELSE g[i - 1]
    <3>1. i - 1 \in 0..Len(edges) BY <1>2
    <3>2. g[i - 1] \in KahnState BY <3>1
    <3> QED BY <2>2, <2>3, <3>2
  <2>5. \A i \in 0..Len(edges) : i = 0 \/ i \in 1..Len(edges) BY <1>2
  <2>6. g = [i \in 0..Len(edges) |->
               IF i = 0 THEN taken
               ELSE IF edges[i].source = n THEN Relax(g[i - 1], edges[i])
               ELSE g[i - 1]]
    BY <2>3, <2>4, <2>5
  <2> QED BY <2>6
<1>7. Recursion(relaxed) BY <1>5, <1>6
<1>8. /\ relaxed[0] = taken
      /\ \A i \in 1..Len(edges) :
           relaxed[i] = IF edges[i].source = n
                        THEN Relax(relaxed[i - 1], edges[i]) ELSE relaxed[i - 1]
  <2>1. \A i \in 0..Len(edges) :
          relaxed[i] = IF i = 0 THEN taken
                       ELSE IF edges[i].source = n
                       THEN Relax(relaxed[i - 1], edges[i]) ELSE relaxed[i - 1]
    BY <1>7, Zenon
  <2>2. 0 \in 0..Len(edges) /\ \A i \in 1..Len(edges) : i \in 0..Len(edges) /\ i # 0
    BY <1>2
  <2> HIDE DEF n, Recursion
  <2> QED BY <2>1, <2>2, Zenon
<1> HIDE DEF Recursion, n
<1> DEFINE Seen(i) == {k \in 1..i : edges[k].source = n}
           L(i) == Live(state.order) \ Seen(i)
           P == {i \in 0..Len(edges) :
                   Kahn(relaxed[i], L(i)) /\ relaxed[i].order = taken.order}
<1>9. 0 \in P
  <2>1. L(0) = Live(state.order) OBVIOUS
  <2> QED BY <1>2, <1>3, <1>8, <2>1
<1>10. n \notin ToSet(state.order)
  BY HeadTaken DEF Kahn, KahnState, n
<1>11. ASSUME NEW i \in 1..Len(edges), i - 1 \in P PROVE i \in P
  <2>1. /\ Kahn(relaxed[i - 1], L(i - 1)) /\ relaxed[i - 1].order = taken.order
    BY <1>11
  <2>2. \A k \in 1..i : k \in 1..(i - 1) \/ k = i BY <1>2
  <2>3. CASE edges[i].source = n
    <3>1. i \in L(i - 1) BY <1>2, <1>10, <2>3 DEF Live
    <3>2. L(i) = L(i - 1) \ {i} BY <1>2, <2>2, <2>3
    <3>4. relaxed[i] = Relax(relaxed[i - 1], edges[i]) BY <1>8, <2>3
    <3> HIDE DEF L
    <3>5. /\ Kahn(Relax(relaxed[i - 1], edges[i]), L(i - 1) \ {i})
          /\ Relax(relaxed[i - 1], edges[i]).order = relaxed[i - 1].order
      BY <2>1, <3>1, RelaxKeepsKahn
    <3>3. Kahn(relaxed[i], L(i)) /\ relaxed[i].order = taken.order
      BY <2>1, <3>2, <3>4, <3>5
    <3> QED BY <1>2, <3>3
  <2>4. CASE edges[i].source # n
    <3>1. L(i) = L(i - 1) BY <1>2, <2>2, <2>4
    <3> HIDE DEF L
    <3>2. Kahn(relaxed[i], L(i)) /\ relaxed[i].order = taken.order
      BY <1>8, <2>1, <2>4, <3>1
    <3> QED BY <1>2, <3>2
  <2> QED BY <2>3, <2>4
<1>12. Len(edges) \in P
  <2>1. Len(edges) \in Nat /\ Len(edges) \in 0..Len(edges) BY <1>2
  <2> HIDE DEF P
  <2>2. 0..Len(edges) \subseteq P BY <1>9, <1>11, <2>1, UpTo
  <2> QED BY <2>1, <2>2
<1>13. L(Len(edges)) = Live(taken.order)
  <2>1. ToSet(taken.order) = ToSet(state.order) \cup {n}
    BY <1>3, HeadTaken, Appended DEF Kahn, KahnState, n
  <2> QED BY <1>2, <2>1 DEF Live
<1> HIDE DEF L
<1> QED BY <1>1, <1>3, <1>12, <1>13 DEF n

\* The queue starts with the nodes that no edge leads to, each once.
LEMMA SourcesAreFree ==
  ASSUME edges \in EdgeLists
  PROVE  /\ Sources[NodeCount] \in Seq(Node) /\ IsInjective(Sources[NodeCount])
         /\ ToSet(Sources[NodeCount]) = {m \in Node : InDegree[m] = 0}
<1> DEFINE Recursion(g) ==
             g = [n \in 0..NodeCount |->
                    IF n = 0 THEN <<>>
                    ELSE IF InDegree[n] = 0 THEN Append(g[n - 1], n)
                    ELSE g[n - 1]]
<1>1. Sources = CHOOSE g : Recursion(g) BY DEF Sources
<1>2. NodeCount \in Nat /\ Node = 1..NodeCount BY GraphAssumption DEF Node
<1>3. \E g : Recursion(g)
  <2> DEFINE F == [p \in (1..NodeCount) \X Seq(Node) |->
                     IF InDegree[p[1]] = 0 THEN Append(p[2], p[1]) ELSE p[2]]
  <2>1. F \in [(1..NodeCount) \X Seq(Node) -> Seq(Node)]
    <3>1. \A n \in Node : \A h \in Seq(Node) : Append(h, n) \in Seq(Node)
      OBVIOUS
    <3> QED BY <1>2, <3>1
  <2>2. \A n \in 1..NodeCount, h \in Seq(Node) :
          F[<<n, h>>] = IF InDegree[n] = 0 THEN Append(h, n) ELSE h
    OBVIOUS
  <2>3. <<>> \in Seq(Node) OBVIOUS
  <2> HIDE DEF F
  <2>4. Recursions(NodeCount, Seq(Node), <<>>, F) # {}
    BY <1>2, <2>1, <2>3, RecursionExists
  <2>5. PICK g \in [0..NodeCount -> Seq(Node)] :
          g[0] = <<>> /\ \A n \in 1..NodeCount : g[n] = F[<<n, g[n - 1]>>]
    BY <2>4 DEF Recursions
  <2>6. ASSUME NEW n \in 1..NodeCount
        PROVE  g[n] = IF InDegree[n] = 0 THEN Append(g[n - 1], n) ELSE g[n - 1]
    <3>1. n - 1 \in 0..NodeCount BY <1>2
    <3>2. g[n - 1] \in Seq(Node) BY <3>1
    <3> QED BY <2>2, <2>5, <3>2
  <2>7. \A n \in 0..NodeCount : n = 0 \/ n \in 1..NodeCount BY <1>2
  <2>8. g = [n \in 0..NodeCount |->
               IF n = 0 THEN <<>>
               ELSE IF InDegree[n] = 0 THEN Append(g[n - 1], n) ELSE g[n - 1]]
    BY <2>5, <2>6, <2>7
  <2> QED BY <2>8
<1>4. Recursion(Sources) BY <1>1, <1>3
<1>5. /\ Sources[0] = <<>>
      /\ \A n \in 1..NodeCount :
           Sources[n] = IF InDegree[n] = 0 THEN Append(Sources[n - 1], n)
                        ELSE Sources[n - 1]
  <2>1. \A n \in 0..NodeCount :
          Sources[n] = IF n = 0 THEN <<>>
                       ELSE IF InDegree[n] = 0 THEN Append(Sources[n - 1], n)
                       ELSE Sources[n - 1]
    BY <1>4, Zenon
  <2>2. /\ 0 \in 0..NodeCount
        /\ \A n \in 1..NodeCount : n \in 0..NodeCount /\ n # 0
    BY <1>2
  <2> HIDE DEF Recursion
  <2> QED BY <2>1, <2>2, Zenon
<1> HIDE DEF Recursion
<1> DEFINE Free(n) == {m \in 1..n : InDegree[m] = 0}
           P == {n \in 0..NodeCount :
                   /\ Sources[n] \in Seq(Node) /\ IsInjective(Sources[n])
                   /\ ToSet(Sources[n]) = Free(n)}
<1>6. 0 \in P
  <2>1. <<>> \in Seq(Node) /\ IsInjective(<<>>) /\ ToSet(<<>>) = {}
    BY DEF IsInjective, ToSet
  <2>2. Free(0) = {} OBVIOUS
  <2>3. Sources[0] = <<>> /\ 0 \in 0..NodeCount BY <1>2, <1>5
  <2> HIDE DEF Free
  <2> QED BY <2>1, <2>2, <2>3
<1>7. ASSUME NEW n \in 1..NodeCount, n - 1 \in P PROVE n \in P
  <2>1. /\ Sources[n - 1] \in Seq(Node) /\ IsInjective(Sources[n - 1])
        /\ ToSet(Sources[n - 1]) = Free(n - 1)
    BY <1>7
  <2>2. \A m \in 1..n : m \in 1..(n - 1) \/ m = n BY <1>2
  <2>3. n \notin Free(n - 1) /\ n \in 1..n /\ n \in Node /\ n \in 0..NodeCount
    BY <1>2
  <2>4. \A m \in 1..(n - 1) : m \in 1..n BY <1>2
  <2>5. CASE InDegree[n] = 0
    <3>1. Free(n) = Free(n - 1) \cup {n} BY <2>2, <2>3, <2>4, <2>5
    <3>2. Sources[n] = Append(Sources[n - 1], n) BY <1>5, <2>5
    <3> HIDE DEF Free
    <3>3. /\ IsInjective(Sources[n]) /\ ToSet(Sources[n]) = Free(n)
      BY <2>1, <2>3, <3>1, <3>2, Appended
    <3>4. Sources[n] \in Seq(Node) BY <2>1, <2>3, <3>2
    <3> QED BY <2>3, <3>3, <3>4
  <2>6. CASE InDegree[n] # 0
    <3>1. Free(n) = Free(n - 1) BY <2>2, <2>4, <2>6
    <3>2. Sources[n] = Sources[n - 1] BY <1>5, <2>6
    <3> HIDE DEF Free
    <3> QED BY <2>1, <2>3, <3>1, <3>2
  <2> QED BY <2>5, <2>6
<1>8. NodeCount \in P
  <2>1. NodeCount \in Nat /\ NodeCount \in 0..NodeCount BY <1>2
  <2> HIDE DEF P
  <2>2. 0..NodeCount \subseteq P BY <1>6, <1>7, <2>1, UpTo
  <2> QED BY <2>1, <2>2
<1> QED BY <1>2, <1>8

LEMMA StartIsKahn ==
  ASSUME edges \in EdgeLists
  PROVE  /\ KahnStart.order = <<>> /\ Kahn(KahnStart, Live(KahnStart.order))
<1>1. /\ KahnStart.order = <<>> /\ KahnStart.queue = Sources[NodeCount]
      /\ KahnStart.degree = InDegree
      /\ KahnStart = [degree |-> InDegree, order |-> <<>>,
                      queue |-> Sources[NodeCount]]
  BY DEF KahnStart
<1>2. /\ Live(<<>>) = DOMAIN edges
      /\ ToSet(<<>>) = {} /\ IsInjective(<<>>) /\ <<>> \in Seq(Node)
  BY DEF Live, ToSet, IsInjective
<1>3. \A m \in Node : InDegree[m] = Cardinality(IntoOf(DOMAIN edges, m))
  BY DEF InDegree, IntoOf
<1>4. InDegree \in [Node -> Int]
  <2>1. \A m \in Node : InDegree[m] \in Int
    <3>1. DOMAIN edges \in SUBSET DOMAIN edges OBVIOUS
    <3>2. \A m \in Node : Cardinality(IntoOf(DOMAIN edges, m)) \in Nat
      BY <3>1, EdgesAreFinite, Zenon
    <3> QED BY <1>3, <3>2
  <2>2. InDegree = [m \in Node |-> InDegree[m]] BY DEF InDegree
  <2> QED BY <2>1, <2>2
<1>5. KahnStart \in KahnState
  BY <1>1, <1>2, <1>4, SourcesAreFree DEF KahnState
<1> QED BY <1>1, <1>2, <1>3, <1>5, SourcesAreFree DEF Kahn

\* Each node comes behind the sources of its edges.
Ordered(list) ==
  \A b \in 1..Len(list) : \A i \in DOMAIN edges :
    edges[i].target = list[b] =>
      \E a \in 1..(b - 1) : list[a] = edges[i].source

LEMMA TakenIsOrdered ==
  ASSUME edges \in EdgeLists, NEW state, Kahn(state, Live(state.order)),
         state.queue # <<>>, Ordered(state.order)
  PROVE  Ordered(Append(state.order, Head(state.queue)))
<1> DEFINE n == Head(state.queue)
           list == state.order
           longer == Append(list, n)
<1>1. list \in Seq(Node) /\ state.queue \in Seq(Node) BY DEF Kahn, KahnState
<1>2. n \in Node /\ n \in ToSet(state.queue) BY <1>1, HeadTaken DEF Kahn
<1>3. /\ Len(list) \in Nat /\ Len(longer) = Len(list) + 1
      /\ longer[Len(list) + 1] = n
      /\ \A a \in 1..Len(list) : longer[a] = list[a]
  BY <1>1, <1>2
<1>4. state.degree[n] = 0 /\ IntoOf(Live(list), n) = {}
  <2>1. /\ state.degree[n] = 0
        /\ state.degree[n] = Cardinality(IntoOf(Live(list), n))
    BY <1>2 DEF Kahn
  <2>2. Live(list) \in SUBSET DOMAIN edges BY DEF Live
  <2> QED BY <1>2, <2>1, <2>2, EdgesAreFinite
<1> HIDE DEF n, longer, list
<1>5. ASSUME NEW b \in 1..Len(longer), NEW i \in DOMAIN edges,
             edges[i].target = longer[b]
      PROVE  \E a \in 1..(b - 1) : longer[a] = edges[i].source
  <2>1. CASE b = Len(list) + 1
    <3>1. i \notin Live(list) BY <1>3, <1>4, <1>5, <2>1 DEF IntoOf
    <3>2. PICK a \in DOMAIN list : list[a] = edges[i].source
      BY <3>1 DEF Live, ToSet
    <3>3. a \in 1..Len(list) BY <1>1
    <3>4. a \in 1..(b - 1) /\ longer[a] = edges[i].source
      BY <1>3, <2>1, <3>2, <3>3
    <3> QED BY <3>4
  <2>2. CASE b # Len(list) + 1
    <3>1. b \in 1..Len(list) /\ longer[b] = list[b] BY <1>3, <2>2
    <3>2. PICK a \in 1..(b - 1) : list[a] = edges[i].source
      BY <1>5, <3>1 DEF Ordered, list
    <3>3. a \in 1..Len(list) BY <1>3, <3>1
    <3> QED BY <1>3, <3>2, <3>3
  <2> QED BY <2>1, <2>2
<1> QED BY <1>5 DEF Ordered, longer, list, n

\* After k turns k nodes are listed, or none is left to take.
LEMMA KahnRuns ==
  ASSUME edges \in EdgeLists
  PROVE  \E state :
           /\ TopologicalSort = state.order
           /\ Kahn(state, Live(state.order)) /\ Ordered(state.order)
           /\ Len(state.order) = NodeCount \/ state.queue = <<>>
<1> DEFINE popped[i \in 0..NodeCount] ==
             IF i = 0 THEN KahnStart ELSE Pop(popped[i - 1])
           Recursion(g) ==
             g = [i \in 0..NodeCount |->
                    IF i = 0 THEN KahnStart ELSE Pop(g[i - 1])]
           State == {state \in KahnState : Kahn(state, Live(state.order))}
<1>1. TopologicalSort = popped[NodeCount].order BY DEF TopologicalSort
<1>2. popped = CHOOSE g : Recursion(g) OBVIOUS
<1>3. NodeCount \in Nat BY GraphAssumption
<1>4. KahnStart \in State BY StartIsKahn DEF Kahn
<1>5. ASSUME NEW state \in State
      PROVE  /\ Pop(state) \in State
             /\ state.queue = <<>> => Pop(state) = state
             /\ state.queue # <<>> =>
                  Pop(state).order = Append(state.order, Head(state.queue))
  <2>1. CASE state.queue = <<>>
    <3>1. Pop(state) = state BY <2>1 DEF Pop
    <3> QED BY <2>1, <3>1
  <2>2. CASE state.queue # <<>>
    <3>1. /\ Pop(state).order = Append(state.order, Head(state.queue))
          /\ Kahn(Pop(state), Live(Pop(state).order))
      BY <2>2, PopTakesOne
    <3> QED BY <2>2, <3>1 DEF Kahn
  <2> QED BY <2>1, <2>2
<1> HIDE DEF popped, State
<1>6. \E g : Recursion(g)
  <2> DEFINE F == [p \in (1..NodeCount) \X State |-> Pop(p[2])]
  <2>1. F \in [(1..NodeCount) \X State -> State] BY <1>5
  <2>2. \A i \in 1..NodeCount, x \in State : F[<<i, x>>] = Pop(x) OBVIOUS
  <2> HIDE DEF F
  <2>3. Recursions(NodeCount, State, KahnStart, F) # {}
    BY <1>3, <1>4, <2>1, RecursionExists
  <2>4. PICK g \in [0..NodeCount -> State] :
          g[0] = KahnStart /\ \A i \in 1..NodeCount : g[i] = F[<<i, g[i - 1]>>]
    BY <2>3 DEF Recursions
  <2>5. ASSUME NEW i \in 1..NodeCount PROVE g[i] = Pop(g[i - 1])
    <3>1. i - 1 \in 0..NodeCount BY <1>3
    <3>2. g[i - 1] \in State BY <3>1
    <3> QED BY <2>2, <2>4, <3>2
  <2>6. \A i \in 0..NodeCount : i = 0 \/ i \in 1..NodeCount BY <1>3
  <2>7. g = [i \in 0..NodeCount |-> IF i = 0 THEN KahnStart ELSE Pop(g[i - 1])]
    BY <2>4, <2>5, <2>6
  <2> QED BY <2>7
<1>7. Recursion(popped) BY <1>2, <1>6
<1>8. /\ popped[0] = KahnStart
      /\ \A i \in 1..NodeCount : popped[i] = Pop(popped[i - 1])
  <2>1. \A i \in 0..NodeCount :
          popped[i] = IF i = 0 THEN KahnStart ELSE Pop(popped[i - 1])
    BY <1>7, Zenon
  <2>2. /\ 0 \in 0..NodeCount
        /\ \A i \in 1..NodeCount : i \in 0..NodeCount /\ i # 0
    BY <1>3
  <2> HIDE DEF Recursion
  <2> QED BY <2>1, <2>2, Zenon
<1> HIDE DEF Recursion
<1> DEFINE P == {i \in 0..NodeCount :
                   /\ popped[i] \in State /\ Ordered(popped[i].order)
                   /\ Len(popped[i].order) = i \/ popped[i].queue = <<>>}
<1>9. 0 \in P
  <2>1. popped[0].order = <<>> /\ popped[0] \in State /\ 0 \in 0..NodeCount
    BY <1>3, <1>4, <1>8, StartIsKahn
  <2>2. Len(<<>>) = 0 /\ Ordered(<<>>) BY DEF Ordered
  <2> QED BY <2>1, <2>2
<1>10. ASSUME NEW i \in 1..NodeCount, i - 1 \in P PROVE i \in P
  <2> DEFINE state == popped[i - 1]
  <2>1. /\ state \in State /\ Ordered(state.order)
        /\ Len(state.order) = i - 1 \/ state.queue = <<>>
        /\ popped[i] = Pop(state) /\ i \in 0..NodeCount
    BY <1>8, <1>10
  <2> HIDE DEF state
  <2>2. CASE state.queue = <<>>
    <3>1. popped[i] = state BY <1>5, <2>1, <2>2
    <3> QED BY <2>1, <2>2, <3>1
  <2>3. CASE state.queue # <<>>
    <3>1. /\ popped[i].order = Append(state.order, Head(state.queue))
          /\ popped[i] \in State
      BY <1>5, <2>1, <2>3
    <3>2. Kahn(state, Live(state.order)) /\ state \in KahnState
      BY <2>1 DEF State
    <3>3. Ordered(popped[i].order) BY <2>1, <2>3, <3>1, <3>2, TakenIsOrdered
    <3>4. Len(popped[i].order) = i
      <4>1. state.order \in Seq(Node) /\ Len(state.order) = i - 1
        BY <2>1, <2>3, <3>2 DEF KahnState
      <4>2. Len(popped[i].order) = Len(state.order) + 1 BY <3>1, <4>1
      <4> QED BY <4>1, <4>2
    <3> QED BY <2>1, <3>1, <3>3, <3>4
  <2> QED BY <2>2, <2>3
<1>11. NodeCount \in P
  <2>1. NodeCount \in 0..NodeCount BY <1>3
  <2> HIDE DEF P
  <2>2. 0..NodeCount \subseteq P BY <1>3, <1>9, <1>10, UpTo
  <2> QED BY <2>1, <2>2
<1> QED BY <1>1, <1>11 DEF State

\* What SortIsTopological says of an order that was found.
Topological(list) ==
  /\ ~ Cyclic
  /\ IsInjective(list) /\ ToSet(list) = Node
  /\ \A i, j \in 1..Len(list) :
       (\E e \in Edge : e.source = list[i] /\ e.target = list[j]) => i < j

\* Kahn's algorithm lists all nodes, each behind its predecessors, or there is a
\* cycle: the nodes it never takes.
LEMMA SortIsCorrect ==
  ASSUME edges \in EdgeLists
  PROVE  /\ Len(TopologicalSort) = NodeCount => Topological(TopologicalSort)
         /\ Len(TopologicalSort) # NodeCount => Cyclic
<1>1. PICK state :
        /\ TopologicalSort = state.order
        /\ Kahn(state, Live(state.order)) /\ Ordered(state.order)
        /\ Len(state.order) = NodeCount \/ state.queue = <<>>
  BY KahnRuns
<1> DEFINE list == state.order
<1>2. /\ list \in Seq(Node) /\ IsInjective(list) /\ Ordered(list)
      /\ Len(list) \in Nat /\ DOMAIN list = 1..Len(list)
  BY <1>1 DEF Kahn, KahnState
<1>3. Edge = {edges[i] : i \in DOMAIN edges} BY DEF Edge, ToSet
<1>4. Len(list) = NodeCount <=> \A m \in Node : \E b \in 1..Len(list) : list[b] = m
  <2>1. IsFiniteSet(Node) /\ Cardinality(Node) = NodeCount
    BY GraphAssumption, FS_Interval DEF Node
  <2>2. Cardinality(1..Len(list)) = Len(list) BY <1>2, FS_Interval
  <2>3. list \in Injection(1..Len(list), Node)
    BY <1>2 DEF IsInjective, Injection
  <2>4. Len(list) = NodeCount <=> list \in Surjection(1..Len(list), Node)
    BY <2>1, <2>2, <2>3, FS_Injection
  <2>5. list \in [1..Len(list) -> Node] BY <1>2
  <2> QED BY <2>4, <2>5 DEF Surjection
<1> HIDE DEF list
<1>5. ASSUME Len(list) = NodeCount PROVE Topological(list)
  <2>1. ToSet(list) = Node
    <3>1. \A b \in 1..Len(list) : list[b] \in Node BY <1>2
    <3> QED BY <1>2, <1>4, <1>5, <3>1 DEF ToSet
  <2>2. ASSUME NEW i \in 1..Len(list), NEW j \in 1..Len(list),
               NEW e \in Edge, e.source = list[i], e.target = list[j]
        PROVE  i < j
    <3>1. PICK k \in DOMAIN edges : e = edges[k] BY <1>3
    <3>2. PICK a \in 1..(j - 1) : list[a] = list[i]
      BY <1>2, <2>2, <3>1 DEF Ordered
    <3>3. a \in 1..Len(list) BY <1>2
    <3>4. a = i BY <1>2, <3>2, <3>3 DEF IsInjective
    <3> QED BY <3>4
  <2>3. ASSUME Cyclic PROVE FALSE
    <3>1. PICK S \in SUBSET Node :
            S # {} /\ \A n \in S : \E e \in Into(n) : e.source \in S
      BY <2>3 DEF Cyclic
    <3> DEFINE I == {b \in 1..Len(list) : list[b] \in S}
    <3>2. I \in SUBSET Nat OBVIOUS
    <3>3. I # {} BY <1>4, <1>5, <3>1
    <3>4. PICK b \in I : \A a \in I : b <= a
      <4> HIDE DEF I
      <4> QED BY <3>2, <3>3, HasLeast
    <3>5. PICK e \in Edge : e.target = list[b] /\ e.source \in S
      BY <3>1 DEF Into
    <3>6. PICK k \in DOMAIN edges : e = edges[k] BY <1>3
    <3>7. PICK a \in 1..(b - 1) : list[a] = e.source
      BY <1>2, <3>5, <3>6 DEF Ordered
    <3>8. a \in 1..Len(list) /\ ~ (b <= a) BY <1>2
    <3> QED BY <3>4, <3>5, <3>7, <3>8
  <2> QED BY <1>2, <2>1, <2>2, <2>3 DEF Topological
<1>6. ASSUME Len(list) # NodeCount PROVE Cyclic
  <2> DEFINE S == Node \ ToSet(list)
  <2>1. S # {} /\ S \in SUBSET Node
    BY <1>2, <1>4, <1>6 DEF ToSet
  <2>2. ASSUME NEW n \in S PROVE \E e \in Into(n) : e.source \in S
    <3>1. state.queue = <<>> /\ ToSet(<<>>) = {} BY <1>1, <1>6 DEF list, ToSet
    <3>2. n \in Node /\ n \notin ToSet(list) \cup ToSet(state.queue)
      BY <3>1
    <3>3. /\ state.degree[n] # 0
          /\ state.degree[n] = Cardinality(IntoOf(Live(list), n))
      BY <1>1, <3>2 DEF Kahn, list
    <3>4. Live(list) \in SUBSET DOMAIN edges BY DEF Live
    <3>5. IntoOf(Live(list), n) # {} BY <3>2, <3>3, <3>4, EdgesAreFinite
    <3>6. PICK i \in DOMAIN edges :
            edges[i].target = n /\ edges[i].source \notin ToSet(list)
      BY <3>5 DEF IntoOf, Live
    <3>7. edges[i] \in Edge /\ edges[i].source \in Node
      BY <1>3, EdgesAreFinite
    <3> QED BY <3>6, <3>7 DEF Into
  <2> QED BY <2>1, <2>2 DEF Cyclic
<1> QED BY <1>1, <1>5, <1>6 DEF list
-----------------------------------------------------------------------------
(* The executor. *)

Status == {"pending", "running", "completed", "failed", "skipped",
           "interrupted"}
PC == {"idle", "sort", "cyclic", "visit", "running", "completed", "failing",
       "stopping", "finishing"}

\* The run goes through its order.
Visiting == {"visit", "running", "completed", "finishing"}

TypeInv ==
  /\ edges \in EdgeLists
  /\ status \in [Node -> Status] /\ output \in [Node -> Output \cup {None}]
  /\ checkpoint \in Node \cup {None} /\ interrupted \in BOOLEAN
  /\ run \in Nat /\ pc \in PC /\ pos \in Nat \ {0}
  /\ undone \in BOOLEAN

OrderInv ==
  /\ pc = "cyclic" => Cyclic
  /\ pc \in Visiting => Topological(order) /\ order \in Seq(Node)
  /\ pc \in {"running", "completed"} => pos <= Len(order)
  /\ pc = "finishing" => pos > Len(order)

\* Every node the run has passed is settled, or was reset since by a roll-back.
Settled(n) ==
  \/ status[n] = "pending" /\ undone
  \/ status[n] # "pending" /\ (interrupted \/ SettledByThisRun(n) \/ n \in kept)
VisitedAreSettled ==
  pc \in Visiting => \A i \in 1..Len(order) : i < pos => Settled(order[i])

\* Between a node's completion and its checkpoint.
CompletedIsOfThisRun ==
  pc = "completed" =>
    \/ /\ status[Current] = "completed"
       /\ output[Current] # None /\ output[Current].run = run
    \/ status[Current] = "pending" /\ undone

\* The inductive invariant.
IInv == TypeInv /\ OrderInv /\ VisitedAreSettled /\ CompletedIsOfThisRun

LEMMA InitIInv == ASSUME Init PROVE IInv
<1>1. status \in [Node -> Status] /\ output \in [Node -> Output \cup {None}]
  BY DEF Init, Status
<1>2. pc = "idle" /\ pc \in PC /\ pos = 1 /\ run = 0 /\ checkpoint = None
      /\ edges \in EdgeLists
  BY DEF Init, PC
<1>3. interrupted \in BOOLEAN /\ undone \in BOOLEAN BY DEF Init
<1>4. TypeInv BY <1>1, <1>2, <1>3 DEF TypeInv
<1> QED
  BY <1>2, <1>4 DEF IInv, TypeInv, OrderInv, VisitedAreSettled,
     CompletedIsOfThisRun, Visiting

\* Where the run is in its order.
LEMMA CurrentIsNode ==
  ASSUME IInv, pc \in {"running", "completed"} \/ AtNode
  PROVE  /\ pos \in 1..Len(order) /\ Current \in Node
         /\ order \in Seq(Node) /\ Len(order) \in Nat
         /\ \A i \in 1..Len(order) :
              order[i] \in Node /\ (i < pos => order[i] # Current)
<1>1. /\ pos \in Nat \ {0} /\ pos <= Len(order)
      /\ order \in Seq(Node) /\ IsInjective(order)
  BY DEF IInv, TypeInv, OrderInv, Visiting, AtNode, Topological
<1>2. Len(order) \in Nat /\ DOMAIN order = 1..Len(order) BY <1>1
<1>3. pos \in 1..Len(order) BY <1>1, <1>2
<1>4. \A i \in 1..Len(order) : order[i] \in Node BY <1>1, <1>2
<1>5. \A i \in 1..Len(order) : i < pos => order[i] # order[pos]
  BY <1>1, <1>2, <1>3 DEF IsInjective
<1> QED BY <1>1, <1>2, <1>3, <1>4, <1>5 DEF Current

\* The node the run is at gets a status, and the run may go on to the next.
LEMMA VisitedStay ==
  ASSUME IInv, pc \in {"running", "completed"} \/ AtNode,
         UNCHANGED <<order, run, interrupted, undone, kept>>,
         NEW c, c = Current,
         \A n \in Node \ {c} : status'[n] = status[n] /\ output'[n] = output[n],
         pos' = pos \/ (pos' = pos + 1 /\ Settled(c)')
  PROVE  \A i \in 1..Len(order') : i < pos' => Settled(order[i])'
<1>1. TAKE i \in 1..Len(order')
<1>2. HAVE i < pos'
<1>3. /\ pos \in 1..Len(order) /\ i \in 1..Len(order) /\ i \in Nat
      /\ order'[i] = order[i] /\ order[i] \in Node
  BY CurrentIsNode
<1>4. CASE i < pos
  <2>1. order[i] # Current /\ Settled(order[i])
    BY <1>3, <1>4, CurrentIsNode
       DEF IInv, VisitedAreSettled, Visiting, AtNode
  <2>2. status'[order[i]] = status[order[i]] /\ output'[order[i]] = output[order[i]]
    BY <1>3, <2>1
  <2> QED BY <1>3, <2>1, <2>2 DEF Settled, SettledByThisRun
<1>5. CASE ~ (i < pos)
  <2>1. i = pos /\ pos' = pos + 1 BY <1>2, <1>3, <1>5
  <2>2. Settled(c)' /\ order'[i] = c BY <1>3, <2>1 DEF Current
  <2> QED BY <2>2 DEF Settled, SettledByThisRun
<1> QED BY <1>4, <1>5

\* The graph and the order a run has found do not change under it.
LEMMA OrderIsKept ==
  ASSUME IInv, UNCHANGED <<edges, order>>, pc' \in Visiting => pc \in Visiting,
         pc' = "cyclic" => pc = "cyclic" \/ Cyclic,
         pc' \in {"running", "completed"} => pos' <= Len(order),
         pc' = "finishing" => pos' > Len(order)
  PROVE  OrderInv'
<1>1. Cyclic => Cyclic' BY DEF Cyclic, Into, Edge
<1>2. ASSUME pc \in Visiting PROVE Topological(order)' /\ order' \in Seq(Node)
  <2>1. Topological(order) /\ order \in Seq(Node) BY <1>2 DEF IInv, OrderInv
  <2>2. ~ Cyclic => ~ Cyclic' BY DEF Cyclic, Into, Edge
  <2>3. Edge' = Edge BY DEF Edge
  <2> QED BY <2>1, <2>2, <2>3 DEF Topological
<1>3. pc = "cyclic" => Cyclic BY DEF IInv, OrderInv
<1> QED BY <1>1, <1>2, <1>3 DEF OrderInv

\* A step of the node the run is at.
LEMMA NodeStepKeepsIInv ==
  ASSUME IInv, NEW c, c = Current,
         SkipInterrupted \/ Skip \/ Begin \/ Complete \/ AfterCompleted
  PROVE  IInv'
<1>1. pc \in {"running", "completed"} \/ AtNode
  BY DEF SkipInterrupted, Skip, Begin, Complete, AfterCompleted, Goto
<1>2. c \in Node /\ order \in Seq(Node) /\ pc \in Visiting /\ pos \in Nat \ {0}
  BY <1>1, CurrentIsNode DEF IInv, TypeInv, Visiting, AtNode
<1>3. UNCHANGED <<edges, run, order, interrupted, undone, kept>>
  BY DEF SkipInterrupted, Skip, Begin, Complete, AfterCompleted, Only, Advance,
         loop, nodes, undoing
<1>4. /\ status \in [Node -> Status] /\ output \in [Node -> Output \cup {None}]
      /\ checkpoint \in Node \cup {None} /\ edges \in EdgeLists
      /\ run \in Nat
  BY DEF IInv, TypeInv
<1> DEFINE Kept ==
      /\ status' \in [Node -> Status] /\ output' \in [Node -> Output \cup {None}]
      /\ \A n \in Node \ {c} : status'[n] = status[n] /\ output'[n] = output[n]
      /\ checkpoint' \in {checkpoint, c}
      /\ pos' = pos \/ (pos' = pos + 1 /\ Settled(c)')
      /\ pc' \in Visiting /\ pc' # "finishing"
      /\ pc' \in {"running", "completed"} => pos' <= Len(order)
      /\ pc' = "completed" =>
           /\ pos' = pos /\ status'[c] = "completed"
           /\ output'[c] # None /\ output'[c].run = run'
<1> USE DEF SettledByThisRun
<1>5. Kept
  <2>1. CASE SkipInterrupted
    <3>1. /\ status' = [status EXCEPT ![c] =
                          IF status[c] = "pending" THEN "interrupted" ELSE status[c]]
          /\ output' = output /\ checkpoint' = checkpoint /\ pos' = pos + 1
          /\ pc = "visit" /\ pc' = pc /\ interrupted' = interrupted /\ interrupted
      BY <2>1 DEF SkipInterrupted, Advance, Only, AtNode
    <3>2. /\ status' \in [Node -> Status] /\ status'[c] # "pending"
          /\ \A n \in Node \ {c} : status'[n] = status[n]
      BY <1>2, <1>4, <3>1 DEF Status
    <3>3. Settled(c)' BY <3>1, <3>2 DEF Settled
    <3> QED BY <1>4, <3>1, <3>2, <3>3 DEF Visiting
  <2>2. CASE Skip
    <3>1. /\ status' = [status EXCEPT ![c] = "skipped"]
          /\ output' = output /\ checkpoint' = checkpoint /\ pos' = pos + 1
          /\ pc = "visit" /\ pc' = pc
      BY <2>2 DEF Skip, Advance, Only, AtNode
    <3>2. /\ status' \in [Node -> Status] /\ status'[c] = "skipped"
          /\ \A n \in Node \ {c} : status'[n] = status[n]
      BY <1>2, <1>4, <3>1 DEF Status
    <3>3. Settled(c)' BY <3>2 DEF Settled
    <3> QED BY <1>4, <3>1, <3>2, <3>3 DEF Visiting
  <2>3. CASE Begin
    <3>1. /\ status' = [status EXCEPT ![c] = "running"]
          /\ output' = output /\ checkpoint' = checkpoint /\ pos' = pos
          /\ pc' = "running" /\ pos <= Len(order)
      BY <2>3 DEF Begin, Only, AtNode, Goto, loop
    <3>2. /\ status' \in [Node -> Status]
          /\ \A n \in Node \ {c} : status'[n] = status[n]
      BY <1>2, <1>4, <3>1 DEF Status
    <3> QED BY <1>4, <3>1, <3>2 DEF Visiting
  <2>4. CASE Complete
    <3>1. PICK holds \in SUBSET {e \in Edge : e.source = c /\ e.conditional} :
            output' = [output EXCEPT ![c] = [run |-> run, holds |-> holds]]
      BY <2>4 DEF Complete
    <3>2. /\ status' = [status EXCEPT ![c] = "completed"]
          /\ checkpoint' = checkpoint /\ pos' = pos /\ pc' = "completed"
          /\ pos <= Len(order)
      BY <2>4 DEF Complete, Only, Goto, loop, IInv, OrderInv
    <3>3. Edge \subseteq DAGEdge
      <4>1. edges \in Seq(DAGEdge) BY <1>4, GraphAssumption
      <4>2. \A i \in DOMAIN edges : edges[i] \in DAGEdge BY <4>1
      <4> QED BY <4>2 DEF Edge, ToSet
    <3>4. [run |-> run, holds |-> holds] \in Output
      BY <1>4, <3>3 DEF Output
    <3>5. [run |-> run, holds |-> holds] # None BY <3>4, GraphAssumption
    <3>6. /\ status' \in [Node -> Status] /\ status'[c] = "completed"
          /\ \A n \in Node \ {c} : status'[n] = status[n]
      BY <1>2, <1>4, <3>2 DEF Status
    <3>7. /\ output' \in [Node -> Output \cup {None}]
          /\ output'[c] = [run |-> run, holds |-> holds]
          /\ \A n \in Node \ {c} : output'[n] = output[n]
      BY <1>2, <1>4, <3>1, <3>4
    <3> QED BY <1>3, <3>2, <3>5, <3>6, <3>7 DEF Visiting
  <2>5. CASE AfterCompleted
    <3>1. /\ status' = status /\ output' = output /\ run' = run
          /\ checkpoint' = checkpoint \/ checkpoint' = c
          /\ pos' = pos + 1 /\ pc = "completed" /\ pc' = "visit"
      BY <2>5 DEF AfterCompleted, Only, Goto, Advance, nodes
    <3>2. \/ status[c] = "completed" /\ output[c].run = run
          \/ status[c] = "pending" /\ undone
      BY <3>1 DEF IInv, CompletedIsOfThisRun
    <3>3. Settled(c)' BY <1>3, <3>1, <3>2 DEF Settled
    <3> QED BY <1>4, <3>1, <3>2, <3>3 DEF Visiting
  <2> QED BY <2>1, <2>2, <2>3, <2>4, <2>5
<1>6. TypeInv'
  <2>1. pos' \in Nat \ {0} BY <1>2, <1>5
  <2>2. interrupted' \in BOOLEAN /\ undone' \in BOOLEAN BY <1>3 DEF IInv, TypeInv
  <2>3. pc' \in PC BY <1>5 DEF Visiting, PC
  <2>4. checkpoint' \in Node \cup {None} BY <1>2, <1>4, <1>5
  <2>5. edges' \in EdgeLists /\ run' \in Nat BY <1>3, <1>4
  <2> QED BY <1>5, <2>1, <2>2, <2>3, <2>4, <2>5 DEF TypeInv
<1>7. OrderInv' BY <1>2, <1>3, <1>5, OrderIsKept DEF Visiting
<1>8. VisitedAreSettled'
  BY <1>1, <1>3, <1>5, VisitedStay DEF VisitedAreSettled
<1>9. CompletedIsOfThisRun'
  <2>1. ASSUME pc' = "completed" PROVE Current' = c
    BY <1>3, <1>5, <2>1 DEF Current
  <2> QED BY <1>5, <2>1 DEF CompletedIsOfThisRun
<1> QED BY <1>6, <1>7, <1>8, <1>9 DEF IInv

\* What changes neither the nodes nor the run's place in its order.
LEMMA EventKeepsIInv ==
  ASSUME IInv, UNCHANGED <<edges, nodes, checkpoint, run, loop, undoing>>,
         interrupted' \in BOOLEAN, interrupted => interrupted',
         \/ pc' = pc
         \/ pc' \in {"idle", "sort", "failing", "stopping"}
         \/ pc' = "cyclic" /\ Cyclic
         \/ pc = "visit" /\ pc' = "finishing" /\ pos > Len(order)
  PROVE  IInv'
<1> USE DEF nodes, loop, undoing
<1>1. TypeInv' BY DEF IInv, TypeInv, PC
<1>2. OrderInv'
  <2>1. pc' \in Visiting => pc \in Visiting BY DEF Visiting
  <2>2. /\ pc' \in {"running", "completed"} => pos' <= Len(order)
        /\ pc' = "finishing" => pos' > Len(order)
    BY DEF IInv, OrderInv
  <2>3. pc' = "cyclic" => pc = "cyclic" \/ Cyclic OBVIOUS
  <2> QED BY <2>1, <2>2, <2>3, OrderIsKept
<1>3. VisitedAreSettled'
  BY DEF IInv, VisitedAreSettled, Settled, SettledByThisRun, Visiting
<1>4. CompletedIsOfThisRun'
  <2>1. Current' = Current BY DEF Current
  <2> QED BY <2>1 DEF IInv, CompletedIsOfThisRun
<1> QED BY <1>1, <1>2, <1>3, <1>4 DEF IInv

LEMMA SortKeepsIInv == ASSUME IInv, Sort PROVE IInv'
<1>1. /\ UNCHANGED <<edges, run, status, output, checkpoint, interrupted, undone>>
      /\ order' = TopologicalSort /\ Len(TopologicalSort) = NodeCount
      /\ pos' = 1 /\ pc' = "visit"
  BY DEF Sort, Goto, Only, nodes, undoing
<1>2. edges \in EdgeLists BY DEF IInv, TypeInv
<1>3. Topological(TopologicalSort) BY <1>1, <1>2, SortIsCorrect
<1>4. TopologicalSort \in Seq(Node) BY <1>2, KahnRuns DEF Kahn, KahnState
<1>5. Topological(order)'
  <2>1. Edge' = Edge /\ (Cyclic' => Cyclic) BY <1>1 DEF Edge, Cyclic, Into
  <2> QED BY <1>1, <1>3, <2>1 DEF Topological
<1>6. TypeInv' BY <1>1 DEF IInv, TypeInv, PC
<1>7. OrderInv' BY <1>1, <1>4, <1>5 DEF OrderInv
<1>8. VisitedAreSettled' BY <1>1 DEF VisitedAreSettled
<1>9. CompletedIsOfThisRun' BY <1>1 DEF CompletedIsOfThisRun
<1> QED BY <1>6, <1>7, <1>8, <1>9 DEF IInv

\* A roll-back in the course of a run resets the nodes it passed, or keeps one.
LEMMA RollbackKeepsIInv == ASSUME IInv, Rollback PROVE IInv'
<1>1. /\ pc' = pc /\ UNCHANGED <<edges, checkpoint, run, order, pos>>
      /\ interrupted' = FALSE /\ checkpoint # None
      /\ undone' = (undone \/ Active)
      /\ kept' = IF Active /\ interrupted THEN kept \cup {checkpoint} ELSE kept
      /\ status' = [n \in Node |-> IF n = checkpoint THEN status[n] ELSE "pending"]
      /\ output' = [n \in Node |-> IF n = checkpoint THEN output[n] ELSE None]
  BY DEF Rollback, RolledBack, loop
<1>2. /\ status' \in [Node -> Status] /\ output' \in [Node -> Output \cup {None}]
      /\ interrupted' \in BOOLEAN /\ undone' \in BOOLEAN
  BY <1>1 DEF IInv, TypeInv, Status, Active
<1>3. TypeInv' BY <1>1, <1>2 DEF IInv, TypeInv
<1>4. OrderInv' BY <1>1, OrderIsKept DEF IInv, OrderInv
<1>5. ASSUME NEW n \in Node, Active
      PROVE  \/ n # checkpoint /\ status'[n] = "pending" /\ undone'
             \/ n = checkpoint /\ status'[n] = status[n] /\ output'[n] = output[n]
  BY <1>1, <1>5
<1>6. VisitedAreSettled'
  <2>1. SUFFICES ASSUME pc \in Visiting, NEW i \in 1..Len(order), i < pos
                 PROVE  Settled(order[i])'
    BY <1>1 DEF VisitedAreSettled, Settled, SettledByThisRun
  <2>2. order[i] \in Node /\ Active
    <3>1. order \in Seq(Node) BY <2>1 DEF IInv, OrderInv
    <3> QED BY <2>1, <3>1 DEF Visiting, Active
  <2>3. Settled(order[i]) BY <2>1 DEF IInv, VisitedAreSettled
  <2> QED
    BY <1>1, <1>5, <2>2, <2>3 DEF Settled, SettledByThisRun
<1>7. CompletedIsOfThisRun'
  <2>1. SUFFICES ASSUME pc = "completed" PROVE CompletedIsOfThisRun'
    BY <1>1 DEF CompletedIsOfThisRun
  <2>2. Current' = Current /\ Current \in Node /\ Active
    BY <1>1, <2>1, CurrentIsNode DEF Current, Active
  <2> QED BY <1>1, <1>5, <2>1, <2>2 DEF IInv, CompletedIsOfThisRun
<1> QED BY <1>3, <1>4, <1>6, <1>7 DEF IInv

LEMMA NextKeepsIInv == ASSUME IInv, [Next]_vars PROVE IInv'
<1> USE DEF Goto, Only, nodes, loop, undoing
<1>1. CASE SkipInterrupted \/ Skip \/ Begin \/ Complete \/ AfterCompleted
  BY <1>1, NodeStepKeepsIInv
<1>2. CASE Sort BY <1>2, SortKeepsIInv
<1>3. CASE RejectCycle
  <2>1. Cyclic BY <1>3, SortIsCorrect DEF RejectCycle, IInv, TypeInv
  <2> QED BY <1>3, <2>1, EventKeepsIInv DEF RejectCycle, IInv, TypeInv
<1>4. CASE Fail
  <2>1. /\ pc' = "failing"
        /\ UNCHANGED <<edges, output, checkpoint, interrupted, run, order, pos,
                       undone>>
    BY <1>4 DEF Fail
  <2>2. status' \in [Node -> Status]
    BY <1>4 DEF Fail, IInv, TypeInv, Status
  <2>3. TypeInv' BY <2>1, <2>2 DEF IInv, TypeInv, PC
  <2> QED
    BY <2>1, <2>3 DEF IInv, OrderInv, VisitedAreSettled, CompletedIsOfThisRun,
       Visiting
<1>5. CASE Start
  <2>1. /\ pc' = "sort" /\ run' = run + 1 /\ undone' \in BOOLEAN
        /\ UNCHANGED <<edges, status, output, checkpoint, interrupted, order, pos>>
    BY <1>5 DEF Start
  <2>2. TypeInv' BY <2>1 DEF IInv, TypeInv, PC
  <2> QED
    BY <2>1, <2>2 DEF IInv, OrderInv, VisitedAreSettled, CompletedIsOfThisRun,
       Visiting
<1>6. CASE Rollback BY <1>6, RollbackKeepsIInv
<1>7. CASE Finish BY <1>7, EventKeepsIInv DEF Finish, IInv, TypeInv
<1>8. CASE CycleEnds \/ AnnounceFailure \/ Stop \/ Abandon
  BY <1>8, EventKeepsIInv
     DEF CycleEnds, AnnounceFailure, Stop, Abandon, IInv, TypeInv
<1>9. CASE Interrupt \/ HandleFailure
  <2>1. interrupted' \in BOOLEAN /\ (interrupted => interrupted')
    BY <1>9 DEF Interrupt, HandleFailure, IInv, TypeInv
  <2>2. UNCHANGED <<edges, nodes, checkpoint, run, loop, pc, undoing>>
    BY <1>9 DEF Interrupt, HandleFailure
  <2> QED BY <2>1, <2>2, EventKeepsIInv
<1>10. CASE UNCHANGED vars BY <1>10, EventKeepsIInv DEF vars, IInv, TypeInv
<1> QED BY <1>1, <1>2, <1>3, <1>4, <1>5, <1>6, <1>7, <1>8, <1>9, <1>10
        DEF Next, Step

LEMMA AlwaysIInv == Spec => []IInv
BY InitIInv, NextKeepsIInv, PTL DEF Spec

\* _topological_sort finds an order exactly of an acyclic DAG, and it lists each
\* node once behind all of its predecessors, for every DAG of any size.
THEOREM SortIsAlwaysTopological == Spec => []SortIsTopological
<1>1. IInv => SortIsTopological
  BY DEF IInv, OrderInv, SortIsTopological, Topological, Visiting
<1> QED BY <1>1, AlwaysIInv, PTL

\* dag_completed means what it says, though no run resets a status: each node was
\* skipped or completed by this run, or the DAG was interrupted, or a roll-back in
\* the course of the run has reset it or kept it (run_dag).
THEOREM FinishedIsAlwaysSettled == Spec => []FinishedMeansSettled
<1>1. IInv => FinishedMeansSettled
  <2> SUFFICES ASSUME IInv, pc = "finishing", NEW n \in Node PROVE Settled(n)
    BY DEF FinishedMeansSettled, Settled
  <2>1. /\ Topological(order) /\ order \in Seq(Node) /\ pos > Len(order)
        /\ pos \in Nat
    BY DEF IInv, TypeInv, OrderInv, Visiting
  <2>2. Len(order) \in Nat /\ DOMAIN order = 1..Len(order) BY <2>1
  <2>3. PICK i \in 1..Len(order) : order[i] = n
    BY <2>1, <2>2 DEF Topological, ToSet
  <2>4. i < pos BY <2>1, <2>2
  <2> QED BY <2>3, <2>4 DEF IInv, VisitedAreSettled, Visiting
<1> QED BY <1>1, AlwaysIInv, PTL

\* A node begins on inputs of this very run, whatever runs before it failed, were
\* abandoned, interrupted or rolled back, and wherever roll-backs fall in it; but
\* for a checkpoint that one kept while the run was interrupted
\* (_predecessors_completed, rollback_to_checkpoint).
THEOREM InputsAreAlwaysOfThisRun == Spec => InputsAreOfThisRun
<1>1. ASSUME IInv, [Next]_vars, pc = "visit", pc' = "running",
             NEW e \in Into(Current)
      PROVE  SettledByThisRun(e.source) \/ e.source \in kept
  <2>1. Begin
    BY <1>1 DEF Next, Step, Sort, RejectCycle, CycleEnds, SkipInterrupted, Skip,
       Complete, AfterCompleted, Fail, AnnounceFailure, Finish, Stop, Start,
       Abandon, Interrupt, HandleFailure, Rollback, RolledBack, vars, Goto, Only
  <2>2. ~ interrupted /\ AtNode BY <2>1 DEF Begin
  <2>3. pos \in 1..Len(order) /\ order \in Seq(Node) /\ DOMAIN order = 1..Len(order)
    BY <1>1, <2>2, CurrentIsNode
  <2>4. Topological(order) /\ edges \in EdgeLists
    BY <1>1 DEF IInv, TypeInv, OrderInv, Visiting
  <2>5. e \in Edge /\ e.target = order[pos] BY DEF Into, Current
  <2>6. e.source \in Node BY <2>4, <2>5, EdgesAreFinite DEF Edge, ToSet
  <2>7. PICK i \in 1..Len(order) : order[i] = e.source
    BY <2>3, <2>4, <2>6 DEF Topological, ToSet
  <2>8. i < pos BY <2>3, <2>4, <2>5, <2>7 DEF Topological
  <2>9. Settled(e.source)
    BY <1>1, <2>7, <2>8 DEF IInv, VisitedAreSettled, Visiting
  <2>10. status[e.source] # "pending"
    BY <2>1, <2>5 DEF Begin, Ready, PredecessorsCompleted, Current, Into
  <2> QED BY <2>2, <2>9, <2>10 DEF Settled
<1>2. IInv /\ [Next]_vars =>
        [pc = "visit" /\ pc' = "running" =>
           \A e \in Into(Current) :
             SettledByThisRun(e.source) \/ e.source \in kept]_vars
  BY <1>1
<1> QED BY <1>2, AlwaysIInv, PTL DEF Spec, InputsAreOfThisRun

\* No step takes the output of the checkpoint away, and it moves to a node without
\* one only where a roll-back fell on the yield of that node's completion
\* (run_dag, rollback_to_checkpoint).
THEOREM CheckpointAlwaysKeepsOutput == Spec => CheckpointKeepsOutput
<1> DEFINE Keeps ==
      checkpoint' # None =>
        \/ output'[checkpoint'] # None
        \/ checkpoint' = checkpoint /\ output[checkpoint] = None
        \/ checkpoint' # checkpoint /\ status[checkpoint'] = "pending" /\ undone
<1>1. ASSUME IInv, Next PROVE Keeps
  <2> USE DEF Goto, Only, nodes, loop
  <2>1. CASE AfterCompleted
    <3>1. /\ pc = "completed" /\ output' = output
          /\ checkpoint' \in {checkpoint, Current}
      BY <2>1 DEF AfterCompleted
    <3>2. output[Current] # None \/ (status[Current] = "pending" /\ undone)
      BY <1>1, <3>1 DEF IInv, CompletedIsOfThisRun
    <3> QED BY <3>1, <3>2
  <2>2. CASE Complete
    <3>1. PICK holds \in SUBSET {e \in Edge : e.source = Current /\ e.conditional} :
            output' = [output EXCEPT ![Current] = [run |-> run, holds |-> holds]]
      BY <2>2 DEF Complete
    <3>2. Edge \subseteq DAGEdge
      <4>1. edges \in Seq(DAGEdge) BY <1>1, GraphAssumption DEF IInv, TypeInv
      <4>2. \A i \in DOMAIN edges : edges[i] \in DAGEdge BY <4>1
      <4> QED BY <4>2 DEF Edge, ToSet
    <3>3. [run |-> run, holds |-> holds] \in Output
      BY <1>1, <3>2 DEF Output, IInv, TypeInv
    <3>4. [run |-> run, holds |-> holds] # None BY <3>3, GraphAssumption
    <3>5. checkpoint' = checkpoint BY <2>2 DEF Complete
    <3>6. checkpoint # None => checkpoint \in Node /\ output \in [Node -> Output \cup {None}]
      BY <1>1 DEF IInv, TypeInv
    <3> QED BY <3>1, <3>4, <3>5, <3>6
  <2>3. CASE Rollback
    <3>1. /\ checkpoint' = checkpoint
          /\ output' = [n \in Node |-> IF n = checkpoint THEN output[n] ELSE None]
      BY <2>3 DEF Rollback, RolledBack
    <3>2. checkpoint # None => checkpoint \in Node BY <1>1 DEF IInv, TypeInv
    <3> QED BY <3>1, <3>2
  <2>4. CASE ~ (AfterCompleted \/ Complete \/ Rollback)
    <3>1. checkpoint' = checkpoint /\ output' = output
      BY <1>1, <2>4 DEF Next, Step, Sort, RejectCycle, CycleEnds, SkipInterrupted,
         Skip, Begin, Fail, AnnounceFailure, Finish, Stop, Start, Abandon,
         Interrupt, HandleFailure
    <3> QED BY <3>1
  <2> QED BY <2>1, <2>2, <2>3, <2>4
<1>2. IInv /\ [Next]_vars => [Keeps]_vars BY <1>1
<1> QED BY <1>2, AlwaysIInv, PTL DEF Spec, CheckpointKeepsOutput
=============================================================================
