---------------------------- MODULE LocalBuildProofs ----------------------------
(***************************************************************************)
(* What BuildGraph walks and what PrunedLock keeps, for any repositories   *)
(* and any lock files.                                                     *)
(***************************************************************************)
EXTENDS BuildGraph, PrunedLock, FiniteSetTheorems, SequenceTheorems, WellFoundedInduction, TLAPS

-----------------------------------------------------------------------------
(* Recursive functions *)

\* A function does what a recursive equation says, at a point and at all points below.
UpTo(f, x, D, R, H) ==
  \A y \in D : (y = x \/ <<y, x>> \in R) => f[y] = H[<<y, f>>]

\* A step that looks only at points below.
LooksBelow(D, V, R, H) ==
  \A x \in D, f, g \in [D -> V] :
    (\A y \in D : <<y, x>> \in R => f[y] = g[y]) => H[<<x, f>>] = H[<<x, g>>]

Transitive(D, R) == \A x, y, z \in D : <<x, y>> \in R /\ <<y, z>> \in R => <<x, z>> \in R

\* Two such functions agree.
LEMMA RecursionIsUnique ==
  ASSUME NEW D, NEW V, NEW R, NEW H, IsWellFoundedOn(R, D), Transitive(D, R),
         LooksBelow(D, V, R, H), NEW z \in D, NEW f \in [D -> V], NEW g \in [D -> V],
         UpTo(f, z, D, R, H), UpTo(g, z, D, R, H)
  PROVE  f[z] = g[z]
<1> DEFINE Bad == {y \in D : UpTo(f, y, D, R, H) /\ UpTo(g, y, D, R, H) /\ f[y] # g[y]}
<1>1. SUFFICES ASSUME Bad # {} PROVE FALSE
  OBVIOUS
<1>2. PICK x \in Bad : \A y \in Bad : ~ (<<y, x>> \in R)
  <2>1. Bad \subseteq D
    OBVIOUS
  <2> HIDE DEF Bad
  <2>2. QED
    BY <1>1, <2>1, WFMin
<1>3. x \in D /\ UpTo(f, x, D, R, H) /\ UpTo(g, x, D, R, H) /\ f[x] # g[x]
  OBVIOUS
<1>4. ASSUME NEW y \in D, <<y, x>> \in R PROVE f[y] = g[y]
  <2>1. UpTo(f, y, D, R, H) /\ UpTo(g, y, D, R, H)
    BY <1>3, <1>4 DEF UpTo, Transitive
  <2>2. QED
    BY <1>2, <1>4, <2>1
<1>5. H[<<x, f>>] = H[<<x, g>>]
  BY <1>3, <1>4 DEF LooksBelow
<1>6. QED
  BY <1>3, <1>5 DEF UpTo

\* There is one: a recursive definition over a well-founded order has its equation.
LEMMA RecursionExists ==
  ASSUME NEW D, NEW V, NEW R, NEW v \in V, IsWellFoundedOn(R, D), Transitive(D, R),
         NEW H \in [D \X [D -> V] -> V], LooksBelow(D, V, R, H)
  PROVE  \E f \in [D -> V] : \A x \in D : f[x] = H[<<x, f>>]
<1> DEFINE Some(x) == CHOOSE f \in [D -> V] : UpTo(f, x, D, R, H)
           Bad == {x \in D : ~ \E f \in [D -> V] : UpTo(f, x, D, R, H)}
<1>1. ASSUME NEW x \in D, \E f \in [D -> V] : UpTo(f, x, D, R, H)
      PROVE  Some(x) \in [D -> V] /\ UpTo(Some(x), x, D, R, H)
  BY <1>1
<1> HIDE DEF Some
<1>2. Bad = {}
  <2>1. SUFFICES ASSUME Bad # {} PROVE FALSE
    OBVIOUS
  <2>2. PICK x \in Bad : \A y \in Bad : ~ (<<y, x>> \in R)
    <3>1. Bad \subseteq D
      OBVIOUS
    <3> HIDE DEF Bad
    <3>2. QED
      BY <2>1, <3>1, WFMin
  <2>3. x \in D /\ ~ \E f \in [D -> V] : UpTo(f, x, D, R, H)
    OBVIOUS
  <2>4. \A y \in D : <<y, x>> \in R => Some(y) \in [D -> V] /\ UpTo(Some(y), y, D, R, H)
    BY <1>1, <2>2
  <2> DEFINE g == [y \in D |-> IF <<y, x>> \in R THEN Some(y)[y] ELSE v]
             h == [y \in D |-> IF y = x THEN H[<<x, g>>] ELSE g[y]]
  <2>5. g \in [D -> V]
    BY <2>4
  <2>6. \A y \in D : <<y, x>> \in R => g[y] = Some(y)[y]
    OBVIOUS
  <2>7. <<x, x>> \notin R
    BY <2>3, WellFoundedIsIrreflexive
  <2>8. h \in [D -> V] /\ h[x] = H[<<x, g>>] /\ \A y \in D : <<y, x>> \in R => h[y] = g[y]
    <3>1. H[<<x, g>>] \in V
      BY <2>3, <2>5
    <3> HIDE DEF g
    <3>2. QED
      BY <2>3, <2>5, <2>7, <3>1
  <2> HIDE DEF g, h
  <2>9. ASSUME NEW y \in D, <<y, x>> \in R PROVE h[y] = H[<<y, h>>]
    <3>1. Some(y) \in [D -> V] /\ UpTo(Some(y), y, D, R, H)
      BY <2>4, <2>9
    <3>2. ASSUME NEW w \in D, <<w, y>> \in R PROVE Some(y)[w] = h[w]
      <4>1. <<w, x>> \in R
        BY <2>3, <2>9, <3>2 DEF Transitive
      <4>2. Some(w) \in [D -> V] /\ UpTo(Some(w), w, D, R, H)
        BY <2>4, <4>1
      <4>3. UpTo(Some(y), w, D, R, H)
        BY <3>1, <3>2 DEF UpTo, Transitive
      <4>4. Some(y)[w] = Some(w)[w]
        BY <3>1, <4>2, <4>3, RecursionIsUnique
      <4>5. QED
        BY <2>6, <2>8, <4>1, <4>4
    <3>3. H[<<y, Some(y)>>] = H[<<y, h>>]
      BY <2>8, <3>1, <3>2 DEF LooksBelow
    <3>4. h[y] = Some(y)[y]
      BY <2>6, <2>8, <2>9
    <3>5. QED
      BY <3>1, <3>3, <3>4 DEF UpTo
  <2>10. h[x] = H[<<x, h>>]
    <3>1. H[<<x, g>>] = H[<<x, h>>]
      BY <2>3, <2>5, <2>8 DEF LooksBelow
    <3>2. QED
      BY <2>8, <3>1
  <2>11. UpTo(h, x, D, R, H)
    BY <2>9, <2>10 DEF UpTo
  <2>12. QED
    BY <2>3, <2>8, <2>11
<1>3. \A x \in D : Some(x) \in [D -> V] /\ UpTo(Some(x), x, D, R, H)
  BY <1>1, <1>2
<1> DEFINE f == [x \in D |-> Some(x)[x]]
<1>4. f \in [D -> V] /\ \A x \in D : f[x] = Some(x)[x]
  BY <1>3
<1> HIDE DEF f
<1>5. ASSUME NEW x \in D PROVE f[x] = H[<<x, f>>]
  <2>1. ASSUME NEW y \in D, <<y, x>> \in R PROVE Some(x)[y] = f[y]
    <3>1. UpTo(Some(x), y, D, R, H)
      BY <1>3, <2>1 DEF UpTo, Transitive
    <3>2. Some(x)[y] = Some(y)[y]
      BY <1>3, <3>1, RecursionIsUnique
    <3>3. QED
      BY <1>4, <3>2
  <2>2. H[<<x, Some(x)>>] = H[<<x, f>>]
    BY <1>3, <1>4, <2>1 DEF LooksBelow
  <2>3. Some(x)[x] = H[<<x, Some(x)>>]
    BY <1>3 DEF UpTo
  <2>4. QED
    BY <1>4, <2>2, <2>3
<1>6. QED
  BY <1>4, <1>5

-----------------------------------------------------------------------------
(* Naturals *)

\* The order of the naturals, as a relation.
Less == {ss \in Nat \X Nat : ss[1] < ss[2]}

\* Every set of naturals has a least member.
LEMMA LeastElement ==
  ASSUME NEW S \in SUBSET Nat, S # {}
  PROVE  \E x \in S : \A y \in S : x <= y
<1>1. IsWellFoundedOn(Less, Nat)
  BY NatLessThanWellFounded DEF OpToRel, Less
<1>2. PICK x \in S : \A y \in S : ~ (<<y, x>> \in Less)
  BY <1>1, WFMin
<1>3. ASSUME NEW y \in S PROVE x <= y
  <2>1. x \in Nat /\ y \in Nat
    OBVIOUS
  <2>2. <<y, x>> \in Nat \X Nat
    BY <2>1
  <2>3. ~ (<<y, x>>[1] < <<y, x>>[2])
    BY <1>2, <2>2 DEF Less
  <2>4. QED
    BY <2>1, <2>3
<1>4. QED
  BY <1>2, <1>3

-----------------------------------------------------------------------------
(* PrunedLock: paths *)

Results == Nodes \cup {NoNode}
Calls(lock) == [current : Nodes, rest : Seq(InputNames), trail : SUBSET Routes(lock)]

\* The call a path's own path leads to, and the one for the rest of a path.
Inner(call, path) == [current |-> LockRoot, rest |-> path, trail |-> call.trail \cup {path}]
Onward(call, next) == [current |-> next, rest |-> Tail(call.rest), trail |-> call.trail]

\* The link a call looks at, the node it is for, given how paths resolve, and its result.
LinkOf(lock, call) == lock[call.current][Head(call.rest)]
NextOf(lock, call, f) ==
  IF LinkOf(lock, call).node # NoNode THEN LinkOf(lock, call).node
  ELSE IF LinkOf(lock, call).path \in call.trail THEN NoNode
  ELSE f[Inner(call, LinkOf(lock, call).path)]
HasLink(lock, call) ==
  call.rest # <<>> /\ call.current \in DOMAIN lock
  /\ Head(call.rest) \in DOMAIN lock[call.current]
FollowStep(lock, call, f) ==
  IF call.rest = <<>> THEN call.current
  ELSE IF ~HasLink(lock, call) THEN NoNode
  ELSE IF NextOf(lock, call, f) = NoNode THEN NoNode
  ELSE f[Onward(call, NextOf(lock, call, f))]

\* A call's paths that are not being resolved yet, and the order of calls.
Unmet(lock, call) == Cardinality(Routes(lock) \ call.trail)
Nearer(lock) ==
  {pair \in Calls(lock) \X Calls(lock) :
     \/ Unmet(lock, pair[1]) < Unmet(lock, pair[2])
     \/ Unmet(lock, pair[1]) = Unmet(lock, pair[2]) /\ Len(pair[1].rest) < Len(pair[2].rest)}

LEMMA CallFacts ==
  ASSUME NEW lock, IsLock(lock), NEW call \in Calls(lock)
  PROVE  /\ Unmet(lock, call) \in Nat /\ Len(call.rest) \in Nat
         /\ call.current \in Nodes /\ call.rest \in Seq(InputNames)
         /\ call.trail \subseteq Routes(lock)
<1>1. call.current \in Nodes /\ call.rest \in Seq(InputNames) /\ call.trail \in SUBSET Routes(lock)
  BY DEF Calls
<1>2. IsFiniteSet(Routes(lock) \ call.trail)
  <2>1. IsFiniteSet(Routes(lock))
    BY DEF IsLock
  <2>2. QED
    BY <2>1, FS_Difference
<1>3. Unmet(lock, call) \in Nat
  BY <1>2, FS_CardinalityType DEF Unmet
<1>4. QED
  BY <1>1, <1>3, LenProperties

LEMMA NearerIsWellFounded ==
  ASSUME NEW lock, IsLock(lock)
  PROVE  IsWellFoundedOn(Nearer(lock), Calls(lock)) /\ Transitive(Calls(lock), Nearer(lock))
<1>1. ASSUME NEW T \in SUBSET Calls(lock), T # {}
      PROVE  \E x \in T : \A y \in T : <<y, x>> \notin Nearer(lock)
  <2> DEFINE A == {Unmet(lock, c) : c \in T}
  <2>1. A \in SUBSET Nat /\ A # {}
    BY <1>1, CallFacts
  <2>2. PICK a \in A : \A b \in A : a <= b
    <3> HIDE DEF A
    <3>1. QED
      BY <2>1, LeastElement
  <2> DEFINE U == {c \in T : Unmet(lock, c) = a}
             B == {Len(c.rest) : c \in U}
  <2>3. B \in SUBSET Nat /\ B # {}
    BY <1>1, <2>2, CallFacts
  <2>4. PICK n \in B : \A b \in B : n <= b
    <3> HIDE DEF B
    <3>1. QED
      BY <2>3, LeastElement
  <2>5. PICK x \in U : Len(x.rest) = n
    BY <2>4
  <2>6. ASSUME NEW y \in T, <<y, x>> \in Nearer(lock) PROVE FALSE
    <3>1. \/ Unmet(lock, y) < Unmet(lock, x)
          \/ Unmet(lock, y) = Unmet(lock, x) /\ Len(y.rest) < Len(x.rest)
      BY <2>6 DEF Nearer
    <3>2. /\ Unmet(lock, y) \in Nat /\ Unmet(lock, x) \in Nat
          /\ Len(y.rest) \in Nat /\ Len(x.rest) \in Nat
      BY <1>1, CallFacts
    <3>3. Unmet(lock, x) = a /\ Unmet(lock, x) <= Unmet(lock, y)
      BY <2>2, <2>5
    <3>4. Unmet(lock, y) = a => Len(x.rest) <= Len(y.rest)
      BY <2>4, <2>5
    <3>5. QED
      BY <3>1, <3>2, <3>3, <3>4
  <2>7. QED
    BY <2>5, <2>6
<1>2. IsWellFoundedOn(Nearer(lock), Calls(lock))
  BY <1>1, MinWF
<1>3. Transitive(Calls(lock), Nearer(lock))
  <2> SUFFICES ASSUME NEW x \in Calls(lock), NEW y \in Calls(lock), NEW z \in Calls(lock),
                      <<x, y>> \in Nearer(lock), <<y, z>> \in Nearer(lock)
               PROVE  <<x, z>> \in Nearer(lock)
    BY DEF Transitive
  <2>1. /\ Unmet(lock, x) \in Nat /\ Unmet(lock, y) \in Nat /\ Unmet(lock, z) \in Nat
        /\ Len(x.rest) \in Nat /\ Len(y.rest) \in Nat /\ Len(z.rest) \in Nat
    BY CallFacts
  <2>2. QED
    BY <2>1 DEF Nearer
<1>4. QED
  BY <1>2, <1>3

\* What a call calls is nearer.
LEMMA CallsNearer ==
  ASSUME LockConstants, NEW lock, IsLock(lock), NEW call \in Calls(lock), HasLink(lock, call)
  PROVE  /\ LinkOf(lock, call) \in Link /\ LinkOf(lock, call).path \in Routes(lock)
         /\ LinkOf(lock, call).path \notin call.trail =>
              /\ Inner(call, LinkOf(lock, call).path) \in Calls(lock)
              /\ <<Inner(call, LinkOf(lock, call).path), call>> \in Nearer(lock)
         /\ \A next \in Nodes : /\ Onward(call, next) \in Calls(lock)
                                /\ <<Onward(call, next), call>> \in Nearer(lock)
<1> DEFINE link == LinkOf(lock, call)
<1>1. link \in Link /\ link.path \in Routes(lock)
  BY DEF LinkOf, HasLink, IsLock, Routes
<1>2. link.path \in Seq(InputNames)
  BY <1>1 DEF Link
<1>3. /\ call.current \in Nodes /\ call.rest \in Seq(InputNames) /\ call.rest # <<>>
      /\ call.trail \subseteq Routes(lock) /\ Unmet(lock, call) \in Nat /\ Len(call.rest) \in Nat
  BY CallFacts DEF HasLink
<1> HIDE DEF link
<1>4. ASSUME link.path \notin call.trail
      PROVE  Inner(call, link.path) \in Calls(lock) /\ <<Inner(call, link.path), call>> \in Nearer(lock)
  <2> DEFINE inner == Inner(call, link.path)
  <2>1. inner \in Calls(lock) /\ inner.trail = call.trail \cup {link.path}
    BY <1>1, <1>2, <1>3, LockConstants DEF Inner, Calls
  <2>2. Unmet(lock, inner) < Unmet(lock, call)
    <3> DEFINE S == Routes(lock) \ call.trail
    <3>1. IsFiniteSet(S)
      <4>1. IsFiniteSet(Routes(lock))
        BY DEF IsLock
      <4>2. QED
        BY <4>1, FS_Difference
    <3>2. link.path \in S /\ Routes(lock) \ inner.trail = S \ {link.path}
      BY <1>1, <1>4, <2>1
    <3>3. Cardinality(S \ {link.path}) = Cardinality(S) - 1
      <4> HIDE DEF S
      <4>1. QED
        BY <3>1, <3>2, FS_RemoveElement
    <3>4. Unmet(lock, inner) = Unmet(lock, call) - 1
      BY <3>2, <3>3 DEF Unmet
    <3>5. QED
      BY <1>3, <3>4
  <2> HIDE DEF inner
  <2>3. <<inner, call>> \in Nearer(lock)
    BY <2>1, <2>2 DEF Nearer
  <2>4. QED
    BY <2>1, <2>3 DEF inner
<1>5. ASSUME NEW next \in Nodes
      PROVE  Onward(call, next) \in Calls(lock) /\ <<Onward(call, next), call>> \in Nearer(lock)
  <2> DEFINE onward == Onward(call, next)
  <2>1. Tail(call.rest) \in Seq(InputNames) /\ Len(Tail(call.rest)) = Len(call.rest) - 1
    BY <1>3, HeadTailProperties
  <2>2. onward \in Calls(lock) /\ onward.trail = call.trail /\ onward.rest = Tail(call.rest)
    BY <1>3, <2>1 DEF Onward, Calls
  <2> HIDE DEF onward
  <2>3. Unmet(lock, onward) = Unmet(lock, call) /\ Len(onward.rest) < Len(call.rest)
    BY <1>3, <2>1, <2>2 DEF Unmet
  <2>4. <<onward, call>> \in Nearer(lock)
    BY <2>2, <2>3 DEF Nearer
  <2>5. QED
    BY <2>2, <2>4 DEF onward
<1>6. QED
  BY <1>1, <1>4, <1>5 DEF link

\* Follow is defined by its equation: there is such a function.
LEMMA FollowEquation ==
  ASSUME LockConstants, NEW lock, IsLock(lock)
  PROVE  /\ Follow(lock) \in [Calls(lock) -> Results]
         /\ \A call \in Calls(lock) : Follow(lock)[call] = FollowStep(lock, call, Follow(lock))
<1> DEFINE D == Calls(lock)
           R == Nearer(lock)
           H == [y \in D \X [D -> Results] |-> FollowStep(lock, y[1], y[2])]
<1>1. ASSUME NEW call \in D, NEW f, \A y \in D : <<y, call>> \in R => f[y] \in Results
      PROVE  FollowStep(lock, call, f) \in Results
  <2>1. call.current \in Results /\ NoNode \in Results
    BY CallFacts DEF Results
  <2>2. ASSUME HasLink(lock, call), NextOf(lock, call, f) # NoNode
        PROVE  f[Onward(call, NextOf(lock, call, f))] \in Results
    <3>1. NextOf(lock, call, f) \in Nodes
      BY <1>1, <2>2, CallsNearer DEF NextOf, Link, Results
    <3>2. QED
      BY <1>1, <2>2, <3>1, CallsNearer
  <2>3. QED
    BY <2>1, <2>2 DEF FollowStep
<1>2. H \in [D \X [D -> Results] -> Results]
  BY <1>1
<1>3. ASSUME NEW call \in D, NEW f \in [D -> Results], NEW g \in [D -> Results],
             \A y \in D : <<y, call>> \in R => f[y] = g[y]
      PROVE  FollowStep(lock, call, f) = FollowStep(lock, call, g)
  <2>1. ASSUME HasLink(lock, call)
        PROVE  /\ NextOf(lock, call, f) = NextOf(lock, call, g)
               /\ NextOf(lock, call, f) \in Results
    BY <1>3, <2>1, CallsNearer DEF NextOf, Link, Results
  <2>2. ASSUME HasLink(lock, call), NextOf(lock, call, f) # NoNode
        PROVE  f[Onward(call, NextOf(lock, call, f))] = g[Onward(call, NextOf(lock, call, g))]
    BY <1>3, <2>1, <2>2, CallsNearer DEF Results
  <2>3. QED
    BY <2>1, <2>2 DEF FollowStep
<1>4. LooksBelow(D, Results, R, H)
  <2>1. \A call \in D, f \in [D -> Results] : H[<<call, f>>] = FollowStep(lock, call, f)
    OBVIOUS
  <2> HIDE DEF H, D, R
  <2>2. QED
    BY <1>3, <2>1 DEF LooksBelow
<1>5. \E f \in [D -> Results] : \A call \in D : f[call] = H[<<call, f>>]
  <2>1. NoNode \in Results
    BY DEF Results
  <2>2. IsWellFoundedOn(R, D) /\ Transitive(D, R)
    BY NearerIsWellFounded
  <2> HIDE DEF H, D, R
  <2>3. QED
    BY <1>2, <1>4, <2>1, <2>2, RecursionExists, SMTT(30)
<1>6. PICK f \in [D -> Results] : \A call \in D : f[call] = FollowStep(lock, call, f)
  <2>1. \A call \in D, f \in [D -> Results] : H[<<call, f>>] = FollowStep(lock, call, f)
    OBVIOUS
  <2> HIDE DEF H
  <2>2. QED
    BY <1>5, <2>1
<1> DEFINE F(g) == [call \in D |-> FollowStep(lock, call, g)]
<1>7. f = F(f)
  BY <1>6
<1> DEFINE G(g) ==
      [call \in [current : Nodes, rest : Seq(InputNames), trail : SUBSET Routes(lock)] |->
        IF call.rest = <<>> THEN call.current
        ELSE IF call.current \notin DOMAIN lock THEN NoNode
        ELSE IF Head(call.rest) \notin DOMAIN lock[call.current] THEN NoNode
        ELSE LET link == lock[call.current][Head(call.rest)]
                 next == IF link.node # NoNode THEN link.node
                         ELSE IF link.path \in call.trail THEN NoNode
                         ELSE g[[current |-> LockRoot, rest |-> link.path,
                                 trail |-> call.trail \cup {link.path}]]
             IN  IF next = NoNode THEN NoNode
                 ELSE g[[current |-> next, rest |-> Tail(call.rest), trail |-> call.trail]]]
<1>8. Follow(lock) = CHOOSE g : g = G(g)
  BY DEF Follow
<1>9. ASSUME NEW g PROVE G(g) = F(g)
  BY DEF FollowStep, HasLink, NextOf, LinkOf, Inner, Onward, Calls
<1> HIDE DEF F, G
<1>10. Follow(lock) = F(Follow(lock))
  <2>1. f = G(f)
    BY <1>7, <1>9
  <2>2. Follow(lock) = G(Follow(lock))
    BY <1>8, <2>1
  <2>3. QED
    BY <1>9, <2>2
<1>11. ASSUME NEW g, g = F(g)
       PROVE  g \in [D -> Results] /\ \A call \in D : g[call] = FollowStep(lock, call, g)
  <2>1. g = [call \in D |-> FollowStep(lock, call, g)]
    BY <1>11 DEF F
  <2>2. DOMAIN g = D /\ \A call \in D : g[call] = FollowStep(lock, call, g)
    BY <2>1
  <2> DEFINE Bad == {call \in D : g[call] \notin Results}
  <2>3. ASSUME Bad # {} PROVE FALSE
    <3>1. Bad \subseteq D /\ IsWellFoundedOn(R, D)
      BY NearerIsWellFounded
    <3>2. PICK x \in Bad : \A y \in Bad : ~ (<<y, x>> \in R)
      <4> HIDE DEF Bad, D, R
      <4>1. QED
        BY <2>3, <3>1, WFMin
    <3>3. x \in D /\ \A y \in D : <<y, x>> \in R => g[y] \in Results
      BY <3>2
    <3>4. QED
      BY <1>1, <2>2, <3>2, <3>3
  <2>4. QED
    BY <2>1, <2>2, <2>3
<1>12. QED
  BY <1>10, <1>11

\* What a link resolves to is a node or none.
LEMMA ResolveTypes ==
  ASSUME LockConstants, NEW lock, IsLock(lock), NEW n \in DOMAIN lock, NEW i \in DOMAIN lock[n]
  PROVE  Resolve(lock, lock[n][i]) \in Results
<1> DEFINE link == lock[n][i]
           call == [current |-> LockRoot, rest |-> link.path, trail |-> {link.path}]
<1>1. link \in Link /\ link.path \in Routes(lock)
  BY DEF IsLock, Routes
<1>2. call \in Calls(lock)
  BY <1>1, LockConstants DEF Link, Calls
<1> HIDE DEF link
<1>3. Follow(lock)[call] \in Results
  <2> HIDE DEF call
  <2>1. QED
    BY <1>2, FollowEquation
<1>4. link.node \in Results
  BY <1>1 DEF Link, Results
<1>5. Resolve(lock, link) \in Results
  BY <1>3, <1>4 DEF Resolve
<1>6. QED
  BY <1>5 DEF link

-----------------------------------------------------------------------------
(* PrunedLock: a part of a lock that leads nowhere else *)

\* What the links of a node lead to, what can be reached from the root, and when a set
\* of nodes is complete, in any lock.
ResolvedIn(lock, node) == {Resolve(lock, lock[node][i]) : i \in DOMAIN lock[node]}
ClosedIn(lock, set) ==
  LockRoot \in set /\ \A n \in set \cap DOMAIN lock : ResolvedIn(lock, n) \cap Nodes \subseteq set
FromRootIn(lock, node) == \A set \in SUBSET Nodes : ClosedIn(lock, set) => node \in set

IsPart(lock, part) ==
  /\ part \subseteq DOMAIN lock /\ LockRoot \in part
  /\ \A n \in part : ResolvedIn(lock, n) \subseteq part
PartOf(lock, part) == [n \in part |-> lock[n]]

LEMMA PartIsLock ==
  ASSUME NEW lock, IsLock(lock), NEW part, IsPart(lock, part)
  PROVE  /\ IsLock(PartOf(lock, part)) /\ Calls(PartOf(lock, part)) \subseteq Calls(lock)
         /\ Routes(PartOf(lock, part)) \subseteq Routes(lock)
<1> DEFINE new == PartOf(lock, part)
<1>1. DOMAIN new = part /\ \A n \in part : new[n] = lock[n]
  BY DEF PartOf
<1> HIDE DEF new
<1>2. part \subseteq DOMAIN lock /\ LockRoot \in part
  BY DEF IsPart
<1>3. Routes(new) \subseteq Routes(lock)
  BY <1>1, <1>2 DEF Routes
<1>4. IsFiniteSet(Routes(new))
  <2>1. IsFiniteSet(Routes(lock))
    BY DEF IsLock
  <2>2. QED
    BY <1>3, <2>1, FS_Subset
<1>5. IsLock(new)
  BY <1>1, <1>2, <1>4 DEF IsLock
<1>6. Calls(new) \subseteq Calls(lock)
  BY <1>3 DEF Calls
<1>7. QED
  BY <1>3, <1>5, <1>6 DEF new

\* In it, paths lead where they led, and stay in it.
LEMMA PartFollows ==
  ASSUME LockConstants, NEW lock, IsLock(lock), NEW part, IsPart(lock, part),
         NEW call \in Calls(PartOf(lock, part)), call.current \in part
  PROVE  /\ Follow(PartOf(lock, part))[call] = Follow(lock)[call]
         /\ Follow(lock)[call] \in part \cup {NoNode}
<1> DEFINE new == PartOf(lock, part)
           F == Follow(lock)
           E == Follow(new)
           Good(c) == E[c] = F[c] /\ F[c] \in part \cup {NoNode}
           Bad == {c \in Calls(new) : c.current \in part /\ ~Good(c)}
<1>1. /\ DOMAIN new = part /\ \A n \in part : new[n] = lock[n]
      /\ part \subseteq DOMAIN lock /\ LockRoot \in part /\ part \subseteq Nodes
  BY DEF PartOf, IsPart, IsLock
<1>2. IsLock(new) /\ Calls(new) \subseteq Calls(lock)
  BY PartIsLock
<1> HIDE DEF new
<1>3. /\ \A c \in Calls(new) : E[c] = FollowStep(new, c, E)
      /\ \A c \in Calls(new) : F[c] = FollowStep(lock, c, F)
  BY <1>2, FollowEquation
<1> HIDE DEF E, F
<1>4. SUFFICES ASSUME Bad # {} PROVE FALSE
  BY DEF E, F, new
<1>5. PICK x \in Bad : \A y \in Bad : ~ (<<y, x>> \in Nearer(new))
  <2>1. Bad \subseteq Calls(new) /\ IsWellFoundedOn(Nearer(new), Calls(new))
    BY <1>2, NearerIsWellFounded
  <2> HIDE DEF Bad
  <2>2. QED
    BY <1>4, <2>1, WFMin
<1>6. x \in Calls(new) /\ x.current \in part /\ ~Good(x)
  OBVIOUS
<1>7. \A y \in Calls(new) : <<y, x>> \in Nearer(new) /\ y.current \in part => Good(y)
  BY <1>5
<1>8. HasLink(new, x) <=> HasLink(lock, x)
  BY <1>1, <1>6 DEF HasLink
<1>9. CASE ~HasLink(lock, x)
  <2>1. E[x] = F[x] /\ F[x] \in {x.current, NoNode}
    BY <1>2, <1>3, <1>6, <1>8, <1>9 DEF FollowStep
  <2>2. QED
    BY <1>6, <2>1
<1>10. CASE HasLink(lock, x)
  <2>1. LinkOf(new, x) = LinkOf(lock, x)
    BY <1>1, <1>6 DEF LinkOf
  <2> DEFINE link == LinkOf(lock, x)
             inner == Inner(x, link.path)
             next == NextOf(lock, x, F)
             onward == Onward(x, next)
  <2>2. /\ link.path \notin x.trail => inner \in Calls(new) /\ <<inner, x>> \in Nearer(new)
        /\ \A n \in Nodes : Onward(x, n) \in Calls(new) /\ <<Onward(x, n), x>> \in Nearer(new)
    BY <1>2, <1>6, <1>8, <1>10, <2>1, CallsNearer
  <2>3. link.node # NoNode => link.node \in part
    <3>1. x.current \in part /\ Head(x.rest) \in DOMAIN lock[x.current]
      BY <1>6, <1>10 DEF HasLink
    <3>2. Resolve(lock, link) \in ResolvedIn(lock, x.current)
      BY <3>1 DEF LinkOf, ResolvedIn
    <3>3. Resolve(lock, link) \in part
      BY <3>1, <3>2 DEF IsPart
    <3>4. QED
      BY <3>3 DEF Resolve
  <2>4. inner.current = LockRoot /\ onward.current = next
    BY DEF Inner, Onward
  <2>5. link.path \notin x.trail => Good(inner)
    BY <1>1, <1>7, <2>2, <2>4
  <2>6. NextOf(new, x, E) = next /\ next \in part \cup {NoNode}
    <3> HIDE DEF inner
    <3>1. next = IF link.node # NoNode THEN link.node
                 ELSE IF link.path \in x.trail THEN NoNode ELSE F[inner]
      BY DEF NextOf, inner
    <3>2. NextOf(new, x, E) = IF link.node # NoNode THEN link.node
                 ELSE IF link.path \in x.trail THEN NoNode ELSE E[inner]
      BY <2>1 DEF NextOf, inner
    <3> HIDE DEF next, link
    <3>3. QED
      BY <2>3, <2>5, <3>1, <3>2
  <2>7. E[x] = IF next = NoNode THEN NoNode ELSE E[onward]
    BY <1>3, <1>6, <1>8, <1>10, <2>6 DEF FollowStep, HasLink
  <2>8. F[x] = IF next = NoNode THEN NoNode ELSE F[onward]
    BY <1>2, <1>3, <1>6, <1>10 DEF FollowStep, HasLink
  <2>9. next # NoNode => Good(onward)
    <3> HIDE DEF next
    <3>1. QED
      BY <1>1, <1>7, <2>2, <2>4, <2>6
  <2> HIDE DEF next, onward
  <2>10. QED
    BY <1>6, <2>7, <2>8, <2>9
<1>11. QED
  BY <1>9, <1>10

\* So its links resolve as they did.
LEMMA PartResolves ==
  ASSUME LockConstants, NEW lock, IsLock(lock), NEW part, IsPart(lock, part)
  PROVE  \A n \in part : ResolvedIn(PartOf(lock, part), n) = ResolvedIn(lock, n)
<1> DEFINE new == PartOf(lock, part)
<1>1. DOMAIN new = part /\ \A n \in part : new[n] = lock[n]
  BY DEF PartOf
<1>2. IsLock(new) /\ LockRoot \in part
  BY PartIsLock DEF IsPart
<1>3. ASSUME NEW n \in part, NEW i \in DOMAIN lock[n]
      PROVE  Resolve(new, new[n][i]) = Resolve(lock, lock[n][i])
  <2> DEFINE link == lock[n][i]
             call == [current |-> LockRoot, rest |-> link.path, trail |-> {link.path}]
  <2>1. new[n][i] = link /\ link \in Link /\ link.path \in Routes(new)
    <3> HIDE DEF new
    <3>1. QED
      BY <1>1, <1>2, <1>3 DEF IsLock, Routes
  <2>2. call \in Calls(new)
    BY <2>1, LockConstants DEF Calls, Link
  <2>3. Follow(new)[call] = Follow(lock)[call]
    <3>1. call.current \in part
      BY <1>2
    <3> HIDE DEF call
    <3>2. QED
      BY <2>2, <3>1, PartFollows
  <2> HIDE DEF link, new
  <2>4. Resolve(new, link) = Resolve(lock, link)
    BY <2>3 DEF Resolve
  <2>5. QED
    BY <2>1, <2>4 DEF link
<1> HIDE DEF new
<1>4. \A n \in part : ResolvedIn(new, n) = ResolvedIn(lock, n)
  BY <1>1, <1>3 DEF ResolvedIn
<1>5. QED
  BY <1>4 DEF new

\* If all of it can be reached from the root, it is all that can be.
LEMMA PartIsReached ==
  ASSUME LockConstants, NEW lock, IsLock(lock), NEW part, IsPart(lock, part),
         \A n \in part : FromRootIn(lock, n)
  PROVE  part = {n \in Nodes : FromRootIn(PartOf(lock, part), n)}
<1> DEFINE new == PartOf(lock, part)
<1>1. DOMAIN new = part /\ \A n \in part : ResolvedIn(new, n) = ResolvedIn(lock, n)
  BY PartResolves DEF PartOf
<1> HIDE DEF new
<1>2. part \subseteq DOMAIN lock /\ part \subseteq Nodes
  BY DEF IsPart, IsLock
<1>3. ClosedIn(new, part)
  BY <1>1 DEF IsPart, ClosedIn
<1>4. ASSUME NEW n \in part, NEW set \in SUBSET Nodes, ClosedIn(new, set)
      PROVE  n \in set
  <2>1. LockRoot \in set \cap part
    BY <1>4 DEF ClosedIn, IsPart
  <2>2. ASSUME NEW m \in set \cap part PROVE ResolvedIn(lock, m) \cap Nodes \subseteq set \cap part
    BY <1>1, <1>4 DEF ClosedIn, IsPart
  <2>3. ClosedIn(lock, set \cap part)
    BY <2>1, <2>2 DEF ClosedIn
  <2>4. QED
    BY <1>2, <2>3 DEF FromRootIn
<1>5. \A n \in part : FromRootIn(new, n)
  BY <1>4 DEF FromRootIn
<1>6. \A n \in Nodes : FromRootIn(new, n) => n \in part
  BY <1>2, <1>3 DEF FromRootIn
<1>7. QED
  BY <1>2, <1>5, <1>6 DEF new

-----------------------------------------------------------------------------
(* PrunedLock: the invariant *)

\* While it runs: what was looked at resolves, into what was or is to be looked at, and
\* all of that can be reached from the root.
Exploring ==
  /\ reachable \subseteq DOMAIN lockfile /\ LockRoot \in pending \cup reachable
  /\ \A n \in reachable : ResolvedIn(lockfile, n) \subseteq (pending \cup reachable) \ {NoNode}
  /\ \A n \in pending \cup reachable : n \in Nodes /\ FromRootIn(lockfile, n)

LockInv ==
  /\ IsLock(lockfile) /\ outcome \in {"running", "failed", "done"}
  /\ outcome = "running" => Exploring
  /\ PruningIsExact

\* The operators of the properties are those of the lock as it stands.
LEMMA InTermsOfLock ==
  \A n : Resolved(n) = ResolvedIn(lockfile, n) /\ (FromRoot(n) <=> FromRootIn(lockfile, n))
<1>1. \A n : Resolved(n) = ResolvedIn(lockfile, n)
  BY Zenon DEF Resolved, ResolvedIn
<1>2. \A n : FromRoot(n) <=> FromRootIn(lockfile, n)
  BY Zenon DEF FromRoot, FromRootIn, Closed, ClosedIn, Resolved, ResolvedIn
<1>3. QED
  BY <1>1, <1>2

LEMMA InTermsOfLockNext ==
  \A n : Resolved(n)' = ResolvedIn(lockfile', n) /\ (FromRoot(n)' <=> FromRootIn(lockfile', n))
<1>1. \A n : Resolved(n)' = ResolvedIn(lockfile', n)
  BY Zenon DEF Resolved, ResolvedIn
<1>2. \A n : FromRoot(n)' <=> FromRootIn(lockfile', n)
  BY Zenon DEF FromRoot, FromRootIn, Closed, ClosedIn, Resolved, ResolvedIn
<1>3. QED
  BY <1>1, <1>2

LEMMA LockInitially == ASSUME LockConstants, LockInit PROVE LockInv
<1>1. PICK locks \in Locks, names \in SUBSET LocalNames :
        lockfile = [locks EXCEPT ![LockRoot] = RemoveInputs(@, names)]
  BY DEF LockInit
<1> DEFINE inputs == RemoveInputs(locks[LockRoot], names)
<1>2. IsLock(locks)
  BY LockConstants
<1>3. /\ DOMAIN inputs \subseteq DOMAIN locks[LockRoot]
      /\ \A i \in DOMAIN inputs : inputs[i] = locks[LockRoot][i]
  BY DEF RemoveInputs
<1>4. /\ DOMAIN lockfile = DOMAIN locks /\ lockfile[LockRoot] = inputs
      /\ \A n \in DOMAIN locks : n # LockRoot => lockfile[n] = locks[n]
  BY <1>1, <1>2 DEF IsLock
<1> HIDE DEF inputs
<1>5. ASSUME NEW n \in DOMAIN locks
      PROVE  /\ DOMAIN lockfile[n] \subseteq DOMAIN locks[n]
             /\ \A i \in DOMAIN lockfile[n] : lockfile[n][i] = locks[n][i]
  BY <1>3, <1>4
<1>6. Routes(lockfile) \subseteq Routes(locks)
  BY <1>4, <1>5 DEF Routes
<1>7. IsFiniteSet(Routes(lockfile))
  <2>1. IsFiniteSet(Routes(locks))
    BY <1>2 DEF IsLock
  <2>2. QED
    BY <1>6, <2>1, FS_Subset
<1>8. IsLock(lockfile)
  BY <1>2, <1>4, <1>5, <1>7 DEF IsLock
<1>9. pending = {LockRoot} /\ reachable = {} /\ outcome = "running"
  BY DEF LockInit
<1>10. FromRootIn(lockfile, LockRoot)
  BY DEF FromRootIn, ClosedIn
<1>11. Exploring
  BY <1>9, <1>10, LockConstants DEF Exploring
<1>12. PruningIsExact
  BY <1>9 DEF PruningIsExact, PrunedIsClosed, FailsOnlyBroken
<1>13. QED
  BY <1>8, <1>9, <1>11, <1>12 DEF LockInv

LEMMA LockVisits ==
  ASSUME LockConstants, LockInv, NEW node \in Nodes, VisitNode(node) PROVE LockInv'
<1>1. /\ outcome = "running" /\ node \in pending /\ node \in DOMAIN lockfile
      /\ NoNode \notin Children(node) /\ lockfile' = lockfile /\ outcome' = outcome
      /\ reachable' = reachable \cup {node}
      /\ pending' = (pending \cup Children(node)) \ reachable'
  BY DEF VisitNode, Broken
<1>2. IsLock(lockfile) /\ Exploring
  BY <1>1 DEF LockInv
<1>3. Children(node) = ResolvedIn(lockfile, node)
  BY DEF Children, ResolvedIn
<1>4. Children(node) \subseteq Nodes
  BY <1>1, <1>2, <1>3, ResolveTypes DEF ResolvedIn, Results
<1>5. ASSUME NEW child \in Children(node) PROVE FromRootIn(lockfile, child)
  <2>1. FromRootIn(lockfile, node)
    BY <1>1, <1>2 DEF Exploring
  <2>2. ASSUME NEW set \in SUBSET Nodes, ClosedIn(lockfile, set) PROVE child \in set
    BY <1>1, <1>3, <1>4, <1>5, <2>1, <2>2 DEF FromRootIn, ClosedIn
  <2>3. QED
    BY <2>2 DEF FromRootIn
<1>6. pending' \cup reachable' = pending \cup reachable \cup Children(node)
  BY <1>1
<1>7. Exploring'
  <2>1. reachable' \subseteq DOMAIN lockfile' /\ LockRoot \in pending' \cup reachable'
    BY <1>1, <1>2, <1>6 DEF Exploring
  <2>2. \A n \in reachable' : ResolvedIn(lockfile, n) \subseteq (pending' \cup reachable') \ {NoNode}
    BY <1>1, <1>2, <1>3, <1>6 DEF Exploring
  <2>3. \A n \in pending' \cup reachable' : n \in Nodes /\ FromRootIn(lockfile, n)
    BY <1>2, <1>4, <1>5, <1>6 DEF Exploring
  <2>4. QED
    BY <1>1, <2>1, <2>2, <2>3 DEF Exploring
<1>8. PruningIsExact'
  BY <1>1 DEF PruningIsExact, PrunedIsClosed, FailsOnlyBroken
<1>9. QED
  BY <1>1, <1>2, <1>7, <1>8 DEF LockInv

LEMMA LockFails ==
  ASSUME LockConstants, LockInv, NEW node \in Nodes, Fail(node) PROVE LockInv'
<1>1. /\ outcome = "running" /\ node \in pending /\ Broken(node)
      /\ lockfile' = lockfile /\ outcome' = "failed"
  BY DEF Fail
<1>2. IsLock(lockfile) /\ Exploring
  BY <1>1 DEF LockInv
<1>3. Children(node) = ResolvedIn(lockfile, node)
  BY DEF Children, ResolvedIn
<1>4. /\ FromRootIn(lockfile', node)
      /\ node \notin DOMAIN lockfile' \/ NoNode \in ResolvedIn(lockfile', node)
  BY <1>1, <1>2, <1>3 DEF Exploring, Broken
<1>5. \E n \in Nodes : FromRoot(n)' /\ (n \notin DOMAIN lockfile' \/ NoNode \in Resolved(n)')
  BY <1>4, InTermsOfLockNext
<1>6. PruningIsExact'
  BY <1>1, <1>5 DEF PruningIsExact, PrunedIsClosed, FailsOnlyBroken
<1>7. QED
  BY <1>1, <1>2, <1>6 DEF LockInv

LEMMA LockRetains ==
  ASSUME LockConstants, LockInv, Retain PROVE LockInv'
<1>1. /\ outcome = "running" /\ pending = {} /\ outcome' = "done"
      /\ lockfile' = PartOf(lockfile, reachable)
  BY DEF Retain, PartOf
<1>2. IsLock(lockfile) /\ Exploring
  BY <1>1 DEF LockInv
<1>3. IsPart(lockfile, reachable) /\ \A n \in reachable : FromRootIn(lockfile, n)
  BY <1>1, <1>2 DEF Exploring, IsPart
<1>4. IsLock(lockfile')
  BY <1>1, <1>2, <1>3, PartIsLock
<1>5. DOMAIN lockfile' = reachable
  BY <1>1 DEF PartOf
<1>6. \A n \in reachable : ResolvedIn(lockfile', n) \subseteq reachable
  BY <1>1, <1>2, <1>3, PartResolves DEF IsPart
<1>7. reachable = {n \in Nodes : FromRootIn(lockfile', n)}
  BY <1>1, <1>2, <1>3, PartIsReached
<1>8. \A n \in DOMAIN lockfile' : Resolved(n)' \subseteq DOMAIN lockfile'
  BY <1>5, <1>6, InTermsOfLockNext
<1>9. DOMAIN lockfile' = {n \in Nodes : FromRoot(n)'}
  BY <1>5, <1>7, InTermsOfLockNext
<1>10. PruningIsExact'
  BY <1>1, <1>8, <1>9 DEF PruningIsExact, PrunedIsClosed, FailsOnlyBroken
<1>11. QED
  BY <1>1, <1>4, <1>10 DEF LockInv

\* For all lock files of finitely many links, cyclic or not, and any choice of local
\* inputs: what pruning keeps is what can be reached from the root, and complete, and it
\* fails only over something it reaches that has no meaning.
THEOREM PruningTheorem == LockSpec => []PruningIsExact
<1>1. LockInit => LockInv
  BY LockInitially, LockConstants
<1>2. LockInv /\ [LockNext]_lockVars => LockInv'
  <2> SUFFICES ASSUME LockInv, [LockNext]_lockVars PROVE LockInv'
    OBVIOUS
  <2>1. CASE Retain
    BY <2>1, LockRetains, LockConstants
  <2>2. CASE \E node \in Nodes : VisitNode(node) \/ Fail(node)
    BY <2>2, LockVisits, LockFails, LockConstants
  <2>3. CASE UNCHANGED lockVars
    BY <2>3 DEF lockVars, LockInv, Exploring, PruningIsExact, PrunedIsClosed, FailsOnlyBroken,
                Resolved, FromRoot, Closed
  <2>4. QED
    BY <2>1, <2>2, <2>3 DEF LockNext
<1>3. LockInv => PruningIsExact
  BY DEF LockInv
<1>4. QED
  BY <1>1, <1>2, <1>3, PTL DEF LockSpec

-----------------------------------------------------------------------------
(* BuildGraph: inputs by path *)

NonEmpty == Seq(Nat) \ {<<>>}

\* What an input lays over the repository it points to is what is said below it.
LEMMA NestedFacts ==
  ASSUME NEW inputs, IsInputs(inputs), NEW n \in Nat
  PROVE  /\ IsInputs(Nested(inputs, n))
         /\ \A path \in NonEmpty :
              /\ path \in DOMAIN Nested(inputs, n) <=> <<n>> \o path \in DOMAIN inputs
              /\ path \in DOMAIN Nested(inputs, n) =>
                   Nested(inputs, n)[path] = inputs[<<n>> \o path]
<1> DEFINE at == {path \in DOMAIN inputs : Head(path) = n}
           below == {Tail(path) : path \in at} \ {<<>>}
           nested == Nested(inputs, n)
<1>1. DOMAIN inputs \subseteq NonEmpty
  BY DEF IsInputs, NonEmpty
<1>2. ASSUME NEW path \in NonEmpty
      PROVE  Tail(path) \in Seq(Nat) /\ (Head(path) = n => path = <<n>> \o Tail(path))
  <2>1. path \in Seq(Nat) /\ path # <<>> /\ Len(path) \in Nat /\ Len(path) # 0
    BY LenProperties, EmptySeq DEF NonEmpty
  <2>2. path = SubSeq(path, 1, Len(path))
    BY <2>1, SubSeqFull
  <2>3. SubSeq(path, 1, Len(path)) = <<path[1]>> \o SubSeq(path, 2, Len(path))
    <3>1. 1 \in 1 .. Len(path) /\ Len(path) \in 1 .. Len(path) /\ 1 + 1 = 2
      BY <2>1
    <3>2. QED
      BY <2>1, <3>1, SubSeqRecursiveFirst
  <2>4. Tail(path) = SubSeq(path, 2, Len(path)) /\ Tail(path) \in Seq(Nat)
    BY <2>1, TailIsSubSeq, HeadTailProperties
  <2>5. Head(path) = path[1]
    OBVIOUS
  <2>6. QED
    BY <2>2, <2>3, <2>4, <2>5
<1>3. ASSUME NEW path \in NonEmpty
      PROVE  /\ <<n>> \o path \in NonEmpty /\ Head(<<n>> \o path) = n
             /\ Tail(<<n>> \o path) = path
  <2> DEFINE whole == <<n>> \o path
  <2>1. path \in Seq(Nat) /\ <<n>> \in Seq(Nat) /\ Len(<<n>>) = 1 /\ <<n>>[1] = n
    BY DEF NonEmpty
  <2>2. Len(path) \in Nat
    BY <2>1, LenProperties
  <2>3. /\ whole \in Seq(Nat) /\ Len(whole) = 1 + Len(path)
        /\ \A i \in 1 .. 1 + Len(path) : whole[i] = IF i <= 1 THEN <<n>>[i] ELSE path[i - 1]
    BY <2>1, ConcatProperties
  <2> HIDE DEF whole
  <2>4. whole # <<>>
    BY <2>2, <2>3, EmptySeq
  <2>5. Head(whole) = n
    BY <2>1, <2>2, <2>3
  <2>6. /\ Tail(whole) \in Seq(Nat) /\ Len(Tail(whole)) = Len(whole) - 1
        /\ \A i \in 1 .. Len(Tail(whole)) : Tail(whole)[i] = whole[i + 1]
    BY <2>3, <2>4, HeadTailProperties
  <2>7. Len(Tail(whole)) = Len(path)
    BY <2>2, <2>3, <2>6
  <2>8. \A i \in 1 .. Len(Tail(whole)) : Tail(whole)[i] = path[i]
    BY <2>2, <2>3, <2>6, <2>7
  <2>9. Tail(whole) = path
    BY <2>1, <2>6, <2>7, <2>8, SeqEqual
  <2>10. QED
    BY <2>3, <2>4, <2>5, <2>9 DEF NonEmpty, whole
<1>4. DOMAIN nested = below /\ \A path \in below : nested[path] = inputs[<<n>> \o path]
  BY DEF Nested
<1>5. below \subseteq NonEmpty
  BY <1>1, <1>2 DEF NonEmpty
<1>6. ASSUME NEW path \in NonEmpty PROVE path \in below <=> <<n>> \o path \in DOMAIN inputs
  <2>1. ASSUME path \in below PROVE <<n>> \o path \in DOMAIN inputs
    <3>1. PICK whole \in DOMAIN inputs : Head(whole) = n /\ Tail(whole) = path
      BY <2>1
    <3>2. QED
      BY <1>1, <1>2, <3>1
  <2>2. ASSUME <<n>> \o path \in DOMAIN inputs PROVE path \in below
    BY <1>3, <2>2 DEF NonEmpty
  <2>3. QED
    BY <2>1, <2>2
<1> HIDE DEF nested, below
<1>7. IsInputs(nested)
  BY <1>4, <1>5, <1>6 DEF IsInputs, NonEmpty
<1>8. QED
  BY <1>4, <1>6, <1>7 DEF nested

\* One input laid over another.
Over(all, under, over) ==
  /\ over.url = NoUrl => all.url = under.url
  /\ over.url # NoUrl => all.url = over.url
  /\ all.follows <=> under.follows \/ over.follows

\* Merging keeps what only one names, and lays the overlay over what both name.
LEMMA MergeFacts ==
  ASSUME NEW target, NEW overlay, IsInputs(target), IsInputs(overlay)
  PROVE  /\ IsInputs(Merge(target, overlay))
         /\ DOMAIN Merge(target, overlay) = DOMAIN target \cup DOMAIN overlay
         /\ \A path \in DOMAIN target \ DOMAIN overlay :
              Merge(target, overlay)[path] = target[path]
         /\ \A path \in DOMAIN overlay \ DOMAIN target :
              Merge(target, overlay)[path] = overlay[path]
         /\ \A path \in DOMAIN overlay \cap DOMAIN target :
              Over(Merge(target, overlay)[path], target[path], overlay[path])
<1> DEFINE m == Merge(target, overlay)
<1>1. DOMAIN m = DOMAIN target \cup DOMAIN overlay
  BY DEF Merge
<1>2. \A path \in DOMAIN target \ DOMAIN overlay : m[path] = target[path]
  BY DEF Merge
<1>3. \A path \in DOMAIN overlay \ DOMAIN target : m[path] = overlay[path]
  BY DEF Merge
<1>4. \A path \in DOMAIN overlay \cap DOMAIN target :
        m[path] = [url |-> IF overlay[path].url = NoUrl THEN target[path].url ELSE overlay[path].url,
                   follows |-> target[path].follows \/ overlay[path].follows]
  BY DEF Merge
<1> HIDE DEF m
<1>5. ASSUME NEW path \in DOMAIN overlay \cap DOMAIN target
      PROVE  Over(m[path], target[path], overlay[path]) /\ m[path].follows \in BOOLEAN
  <2> DEFINE url == IF overlay[path].url = NoUrl THEN target[path].url ELSE overlay[path].url
             follows == target[path].follows \/ overlay[path].follows
  <2>1. m[path] = [url |-> url, follows |-> follows]
    BY <1>4
  <2>2. /\ overlay[path].url = NoUrl => url = target[path].url
        /\ overlay[path].url # NoUrl => url = overlay[path].url
    OBVIOUS
  <2>3. follows \in BOOLEAN /\ (follows <=> target[path].follows \/ overlay[path].follows)
    OBVIOUS
  <2> HIDE DEF url, follows
  <2>4. \A a, b : [url |-> a, follows |-> b].url = a /\ [url |-> a, follows |-> b].follows = b
    OBVIOUS
  <2>5. [url |-> url, follows |-> follows].url = url
    BY <2>4, Zenon
  <2>6. [url |-> url, follows |-> follows].follows = follows
    BY <2>4, Zenon
  <2>7. m[path].url = url /\ m[path].follows = follows
    BY <2>1, <2>5, <2>6, Zenon
  <2>8. QED
    BY <2>2, <2>3, <2>7, Zenon DEF Over
<1>6. IsInputs(m)
  <2>1. DOMAIN m \subseteq Seq(Nat) \ {<<>>}
    BY <1>1 DEF IsInputs
  <2>2. \A path \in DOMAIN m : m[path].follows \in BOOLEAN
    BY <1>1, <1>2, <1>3, <1>5 DEF IsInputs
  <2>3. QED
    BY <2>1, <2>2, Zenon DEF IsInputs
<1>7. QED
  BY <1>1, <1>2, <1>3, <1>5, <1>6 DEF m

\* The inputs that are walked.
LEMMA DirectFacts ==
  ASSUME NEW inputs, IsInputs(inputs)
  PROVE  /\ DirectInputs(inputs) \subseteq Nat
         /\ \A n \in Nat : n \in DirectInputs(inputs) <=>
              <<n>> \in DOMAIN inputs /\ ~inputs[<<n>>].follows /\ inputs[<<n>>].url \in Repos
<1>1. ASSUME NEW path \in DOMAIN inputs, Len(path) = 1
      PROVE  path = <<Head(path)>> /\ Head(path) \in Nat
  <2>1. path \in Seq(Nat)
    BY DEF IsInputs
  <2>2. QED
    BY <1>1, <2>1
<1>2. \A n \in Nat : Len(<<n>>) = 1 /\ Head(<<n>>) = n
  OBVIOUS
<1>3. QED
  BY <1>1, <1>2 DEF DirectInputs

-----------------------------------------------------------------------------
(* BuildGraph: paths *)

\* A path is all of itself, and nothing is left after it.
LEMMA PathFacts ==
  ASSUME NEW p \in Seq(Nat)
  PROVE  /\ Len(p) \in Nat /\ SubSeq(p, 1, Len(p)) = p
         /\ \A q \in Seq(Nat) : SubSeq(p, Len(p) + 1, Len(p)) \o q = q
<1>1. Len(p) \in Nat /\ SubSeq(p, 1, Len(p)) = p
  BY LenProperties, SubSeqFull
<1>2. SubSeq(p, Len(p) + 1, Len(p)) = <<>>
  BY <1>1, SubSeqEmpty
<1>3. QED
  BY <1>1, <1>2, ConcatEmptySeq

\* A path and one step more: what is above it, and what remains below.
LEMMA EdgeFacts ==
  ASSUME NEW p \in Seq(Nat), NEW n \in Nat
  PROVE  /\ Append(p, n) \in NonEmpty /\ Len(Append(p, n)) = Len(p) + 1
         /\ SubSeq(Append(p, n), 1, Len(Append(p, n)) - 1) = p
         /\ Append(p, n)[Len(Append(p, n))] = n
         /\ \A i \in 0 .. Len(p) :
              /\ SubSeq(Append(p, n), 1, i) = SubSeq(p, 1, i)
              /\ \A q \in Seq(Nat) :
                   SubSeq(Append(p, n), i + 1, Len(Append(p, n))) \o q =
                     SubSeq(p, i + 1, Len(p)) \o (<<n>> \o q)
<1> DEFINE e == Append(p, n)
<1>1. Len(p) \in Nat /\ SubSeq(p, 1, Len(p)) = p
  BY PathFacts
<1>2. e \in Seq(Nat) /\ e # <<>> /\ Len(e) = Len(p) + 1 /\ e[Len(p) + 1] = n
  BY AppendProperties
<1>3. e = p \o <<n>> /\ <<n>> \in Seq(Nat)
  BY AppendIsConcat
<1> HIDE DEF e
<1>4. \A k, m \in 1 .. Len(p) : SubSeq(e, k, m) = SubSeq(p, k, m)
  <2>1. \A k, m \in 1 .. Len(p) : SubSeq(p \o <<n>>, k, m) = SubSeq(p, k, m)
    BY <1>3, SubSeqOfConcat1
  <2>2. QED
    BY <1>3, <2>1
<1>5. ASSUME NEW i \in 0 .. Len(p) PROVE SubSeq(e, 1, i) = SubSeq(p, 1, i)
  <2>1. CASE i = 0
    BY <2>1, SubSeqEmpty
  <2>2. CASE i # 0
    BY <1>1, <1>4, <2>2
  <2>3. QED
    BY <2>1, <2>2
<1>6. ASSUME NEW i \in 0 .. Len(p), NEW q \in Seq(Nat)
      PROVE  SubSeq(e, i + 1, Len(e)) \o q = SubSeq(p, i + 1, Len(p)) \o (<<n>> \o q)
  <2>1. SubSeq(e, i + 1, Len(p)) = SubSeq(p, i + 1, Len(p))
    <3>1. CASE i = Len(p)
      <4>1. Len(p) < i + 1 /\ i + 1 \in Int /\ Len(p) \in Int
        BY <1>1, <3>1
      <4>2. QED
        BY <4>1, SubSeqEmpty
    <3>2. CASE i # Len(p)
      <4>1. i + 1 \in 1 .. Len(p) /\ Len(p) \in 1 .. Len(p)
        <5> DEFINE k == Len(p)
        <5>1. k \in Nat /\ i \in 0 .. k /\ i # k
          BY <1>1, <3>2
        <5> HIDE DEF k
        <5>2. i + 1 \in 1 .. k /\ k \in 1 .. k
          BY <5>1
        <5>3. QED
          BY <5>2 DEF k
      <4>2. QED
        BY <4>1, <1>4
    <3>3. QED
      BY <3>1, <3>2
  <2>2. SubSeq(e, i + 1, Len(e)) = SubSeq(p, i + 1, Len(p)) \o <<n>>
    <3>1. i + 1 \in 1 .. Len(e) /\ Len(e) \in i + 1 .. Len(e) /\ Len(e) - 1 = Len(p)
      BY <1>1, <1>2
    <3>2. SubSeq(e, i + 1, Len(e)) = SubSeq(e, i + 1, Len(e) - 1) \o <<e[Len(e)]>>
      BY <1>2, <3>1, SubSeqRecursiveSecond
    <3>3. QED
      BY <1>2, <2>1, <3>1, <3>2
  <2> DEFINE front == SubSeq(p, i + 1, Len(p))
  <2>3. front \in Seq(Nat)
    <3>1. \A k \in i + 1 .. Len(p) : p[k] \in Nat
      BY <1>1, ElementOfSeq
    <3>2. i + 1 \in Int /\ Len(p) \in Int
      BY <1>1
    <3>3. QED
      BY <3>1, <3>2, SubSeqProperties
  <2>4. SubSeq(e, i + 1, Len(e)) = front \o <<n>>
    BY <2>2
  <2> HIDE DEF front
  <2>5. (front \o <<n>>) \o q = front \o (<<n>> \o q)
    BY <1>3, <2>3, ConcatAssociative
  <2>6. SubSeq(e, i + 1, Len(e)) \o q = front \o (<<n>> \o q)
    BY <2>4, <2>5
  <2>7. QED
    BY <2>6 DEF front
<1>7. SubSeq(e, 1, Len(e) - 1) = p
  <2>1. Len(e) - 1 = Len(p) /\ Len(p) \in 0 .. Len(p)
    BY <1>1, <1>2
  <2>2. SubSeq(e, 1, Len(p)) = p
    BY <1>1, <1>5, <2>1
  <2>3. QED
    BY <2>1, <2>2
<1>8. QED
  BY <1>2, <1>5, <1>6, <1>7 DEF NonEmpty, e

-----------------------------------------------------------------------------
(* BuildGraph: what is said of an input, and what inputs it amounts to *)

\* An input, or that there is none, is what the first k say: the first to point it
\* anywhere counts, and one is enough to let it follow.
Sums(say, k, here, input) ==
  /\ here <=> \E i \in 0 .. k : say[i] # {}
  /\ here => /\ input.follows <=> \E i \in 0 .. k : \E x \in say[i] : x.follows
             /\ input.url = NoUrl => \A i \in 0 .. k : \A x \in say[i] : x.url = NoUrl
             /\ \A s : s # NoUrl =>
                  (input.url = s <=>
                     \E i \in 0 .. k : /\ \E x \in say[i] : x.url = s
                                       /\ \A j \in 0 .. i - 1 : \A x \in say[j] : x.url = NoUrl)

\* These are the inputs of a place, by what is said down to k.
Stands(at, place, inputs, k) ==
  \A path \in NonEmpty :
    Sums(Saying(at, place, path), k, path \in DOMAIN inputs, inputs[path])

\* What the first k say counts, and nothing else.
LEMMA SumsSame ==
  ASSUME NEW say, NEW other, NEW k, \A i \in 0 .. k : say[i] = other[i],
         NEW here, NEW input, Sums(say, k, here, input), k \in Int
  PROVE  Sums(other, k, here, input)
<1>1. \A i \in 0 .. k : \A j \in 0 .. i - 1 : j \in 0 .. k
  OBVIOUS
<1>2. (\E i \in 0 .. k : say[i] # {}) <=> \E i \in 0 .. k : other[i] # {}
  OBVIOUS
<1>3. (\E i \in 0 .. k : \E x \in say[i] : x.follows) <=>
        \E i \in 0 .. k : \E x \in other[i] : x.follows
  OBVIOUS
<1>4. (\A i \in 0 .. k : \A x \in say[i] : x.url = NoUrl) =>
        \A i \in 0 .. k : \A x \in other[i] : x.url = NoUrl
  OBVIOUS
<1>5. ASSUME NEW s
      PROVE  (\E i \in 0 .. k : /\ \E x \in say[i] : x.url = s
                                /\ \A j \in 0 .. i - 1 : \A x \in say[j] : x.url = NoUrl)
             <=> \E i \in 0 .. k : /\ \E x \in other[i] : x.url = s
                                   /\ \A j \in 0 .. i - 1 : \A x \in other[j] : x.url = NoUrl
  BY <1>1
<1>6. here <=> \E i \in 0 .. k : other[i] # {}
  BY <1>2, Zenon DEF Sums
<1>7. here => (input.follows <=> \E i \in 0 .. k : \E x \in other[i] : x.follows)
  BY <1>3, Zenon DEF Sums
<1>8. here /\ input.url = NoUrl => \A i \in 0 .. k : \A x \in other[i] : x.url = NoUrl
  BY <1>4, Zenon DEF Sums
<1>9. ASSUME here, NEW s, s # NoUrl
      PROVE  input.url = s <=>
               \E i \in 0 .. k : /\ \E x \in other[i] : x.url = s
                               /\ \A j \in 0 .. i - 1 : \A x \in other[j] : x.url = NoUrl
  <2>1. input.url = s <=>
          \E i \in 0 .. k : /\ \E x \in say[i] : x.url = s
                          /\ \A j \in 0 .. i - 1 : \A x \in say[j] : x.url = NoUrl
    BY <1>9 DEF Sums
  <2>2. QED
    BY <1>5, <2>1
<1>10. QED
  BY <1>6, <1>7, <1>8, <1>9, Zenon DEF Sums

\* What the next one says, below what was said so far.
LEMMA SumStep ==
  ASSUME NEW say, NEW k \in Nat, NEW above, NEW input, Sums(say, k - 1, above, input),
         NEW there, NEW own, NEW all,
         there => say[k] = {own} /\ own.follows \in BOOLEAN, ~there => say[k] = {},
         above => input.follows \in BOOLEAN, above \in BOOLEAN, there \in BOOLEAN,
         above /\ ~there => all = input,
         ~above /\ there => all = own,
         above /\ there => Over(all, own, input)
  PROVE  Sums(say, k, above \/ there, all)
<1> DEFINE First(m, s) ==
      \E i \in 0 .. m : /\ \E x \in say[i] : x.url = s
                        /\ \A j \in 0 .. i - 1 : \A x \in say[j] : x.url = NoUrl
<1>1. \A i \in 0 .. k : i \in 0 .. k - 1 \/ i = k
  OBVIOUS
<1>2. (\A i \in 0 .. k - 1 : i \in 0 .. k) /\ k \in 0 .. k
  OBVIOUS
<1>3. above \/ there <=> \E i \in 0 .. k : say[i] # {}
  <2>1. above <=> \E i \in 0 .. k - 1 : say[i] # {}
    BY DEF Sums
  <2>2. there <=> say[k] # {}
    OBVIOUS
  <2>3. QED
    BY <1>1, <1>2, <2>1, <2>2
<1>4. ASSUME above \/ there
      PROVE  all.follows <=> \E i \in 0 .. k : \E x \in say[i] : x.follows
  <2>1. above => (input.follows <=> \E i \in 0 .. k - 1 : \E x \in say[i] : x.follows)
    BY DEF Sums
  <2>2. there => (own.follows <=> \E x \in say[k] : x.follows)
    OBVIOUS
  <2>3. ~above => ~ \E i \in 0 .. k - 1 : \E x \in say[i] : x.follows
    BY DEF Sums
  <2>4. ~there => ~ \E x \in say[k] : x.follows
    OBVIOUS
  <2>5. (\E i \in 0 .. k : \E x \in say[i] : x.follows) <=>
          \/ \E i \in 0 .. k - 1 : \E x \in say[i] : x.follows
          \/ \E x \in say[k] : x.follows
    BY <1>1, <1>2
  <2>6. CASE above /\ there
    BY <2>1, <2>2, <2>5, <2>6, Zenon DEF Over
  <2>7. CASE above /\ ~there
    BY <2>1, <2>4, <2>5, <2>7, Zenon
  <2>8. CASE ~above /\ there
    BY <2>2, <2>3, <2>5, <2>8, Zenon
  <2>9. QED
    BY <1>4, <2>6, <2>7, <2>8
<1>5. /\ above /\ input.url = NoUrl => \A i \in 0 .. k - 1 : \A x \in say[i] : x.url = NoUrl
      /\ ~above => \A i \in 0 .. k - 1 : \A x \in say[i] : x.url = NoUrl
  BY DEF Sums
<1>6. ASSUME above \/ there, all.url = NoUrl
      PROVE  \A i \in 0 .. k : \A x \in say[i] : x.url = NoUrl
  <2>1. \A i \in 0 .. k - 1 : \A x \in say[i] : x.url = NoUrl
    BY <1>5, <1>6 DEF Over
  <2>2. \A x \in say[k] : x.url = NoUrl
    BY <1>6 DEF Over
  <2>3. QED
    BY <1>1, <2>1, <2>2
<1>7. ASSUME above, NEW s, s # NoUrl PROVE input.url = s <=> First(k - 1, s)
  BY <1>7 DEF Sums
<1>8. ASSUME NEW s
      PROVE  First(k, s) <=>
               \/ First(k - 1, s)
               \/ /\ \E x \in say[k] : x.url = s
                  /\ \A j \in 0 .. k - 1 : \A x \in say[j] : x.url = NoUrl
  BY <1>1, <1>2
<1>9. ~above => \A s : ~First(k - 1, s)
  BY DEF Sums
<1>10. ASSUME above, input.url # NoUrl
       PROVE  ~ \A j \in 0 .. k - 1 : \A x \in say[j] : x.url = NoUrl
  <2>1. First(k - 1, input.url)
    BY <1>7, <1>10
  <2>2. QED
    BY <1>10, <2>1
<1> HIDE DEF First
<1>11. ASSUME above \/ there, NEW s, s # NoUrl PROVE all.url = s <=> First(k, s)
  <2>1. CASE above /\ there /\ input.url = NoUrl
    <3>1. ~First(k - 1, s)
      BY <1>7, <1>11, <2>1
    <3>2. \A j \in 0 .. k - 1 : \A x \in say[j] : x.url = NoUrl
      BY <1>5, <2>1
    <3>3. (\E x \in say[k] : x.url = s) <=> all.url = s
      BY <2>1 DEF Over
    <3>4. QED
      BY <1>8, <3>1, <3>2, <3>3
  <2>2. CASE above /\ there /\ input.url # NoUrl
    BY <1>7, <1>8, <1>10, <1>11, <2>2 DEF Over
  <2>3. CASE above /\ ~there
    BY <1>7, <1>8, <1>11, <2>3
  <2>4. CASE ~above /\ there
    <3>1. \A j \in 0 .. k - 1 : \A x \in say[j] : x.url = NoUrl
      BY <1>5, <2>4
    <3>2. (\E x \in say[k] : x.url = s) <=> all.url = s
      BY <2>4
    <3>3. QED
      BY <1>8, <1>9, <2>4, <3>1, <3>2
  <2>5. QED
    BY <1>11, <2>1, <2>2, <2>3, <2>4
<1>12. QED
  BY <1>3, <1>4, <1>6, <1>11 DEF Sums, First

\* What the repository i steps down a place says.
Says(at, place, path, i) ==
  LET inputs == at[SubSeq(place, 1, i)]
      below == SubSeq(place, i + 1, Len(place)) \o path
  IN  {inputs[x] : x \in {below} \cap DOMAIN inputs}

\* What is said, step by step.
LEMMA SayingIs ==
  ASSUME NEW at, NEW place, NEW path
  PROVE  \A i \in 0 .. Len(place) : Saying(at, place, path)[i] = Says(at, place, path, i)
BY DEF Saying, Says

\* What the repository i steps down a place says, if anything.
LEMMA SayingFacts ==
  ASSUME NEW at, NEW place \in Seq(Nat), NEW path
  PROVE  /\ DOMAIN Saying(at, place, path) = 0 .. Len(place)
         /\ \A i \in 0 .. Len(place) : \A x, y \in Saying(at, place, path)[i] : x = y
  BY DEF Saying

\* The repository at a place says of its inputs what it defines.
LEMMA SayingOwn ==
  ASSUME NEW at, NEW place \in Seq(Nat), NEW path \in Seq(Nat)
  PROVE  Saying(at, place, path)[Len(place)] =
           {at[place][x] : x \in {path} \cap DOMAIN at[place]}
<1>1. /\ Len(place) \in 0 .. Len(place) /\ SubSeq(place, 1, Len(place)) = place
      /\ SubSeq(place, Len(place) + 1, Len(place)) \o path = path
  BY PathFacts
<1>2. Says(at, place, path, Len(place)) = {at[place][x] : x \in {path} \cap DOMAIN at[place]}
  BY <1>1 DEF Says
<1>3. QED
  BY <1>1, <1>2, SayingIs

\* Above the root nothing is said.
LEMMA StandsEmpty == ASSUME NEW at PROVE Stands(at, <<>>, NoInputs, 0 - 1)
<1>1. 0 .. 0 - 1 = {}
  OBVIOUS
<1>2. DOMAIN NoInputs = {}
  BY DEF NoInputs
<1>3. QED
  BY <1>1, <1>2 DEF Stands, Sums

\* What the place itself defines, under what was said above.
LEMMA StandsOver ==
  ASSUME NEW at, NEW place \in Seq(Nat), NEW target, target = at[place], IsInputs(target),
         NEW overlay, IsInputs(overlay), Stands(at, place, overlay, Len(place) - 1),
         NEW m, DOMAIN m = DOMAIN target \cup DOMAIN overlay,
         \A q \in DOMAIN target \ DOMAIN overlay : m[q] = target[q],
         \A q \in DOMAIN overlay \ DOMAIN target : m[q] = overlay[q],
         \A q \in DOMAIN overlay \cap DOMAIN target :
           Over(m[q], target[q], overlay[q])
  PROVE  Stands(at, place, m, Len(place))
<1> SUFFICES ASSUME NEW path \in NonEmpty
             PROVE  Sums(Saying(at, place, path), Len(place),
                         path \in DOMAIN m, m[path])
  BY DEF Stands
<1> DEFINE say == Saying(at, place, path)
           k == Len(place)
           above == path \in DOMAIN overlay
           there == path \in DOMAIN target
<1>1. k \in Nat /\ SubSeq(place, 1, k) = place /\ SubSeq(place, k + 1, k) \o path = path
  BY PathFacts DEF NonEmpty
<1>2. say[k] = {target[x] : x \in {path} \cap DOMAIN target}
  BY SayingOwn DEF NonEmpty
<1>3. Sums(say, k - 1, above, overlay[path])
  BY DEF Stands
<1>4. /\ there => say[k] = {target[path]} /\ target[path].follows \in BOOLEAN
      /\ ~there => say[k] = {}
      /\ above => overlay[path].follows \in BOOLEAN
  BY <1>2 DEF IsInputs
<1>5. path \in DOMAIN m <=> above \/ there
  OBVIOUS
<1>6. /\ above /\ ~there => m[path] = overlay[path]
      /\ ~above /\ there => m[path] = target[path]
  OBVIOUS
<1>7. above /\ there => Over(m[path], target[path], overlay[path])
  OBVIOUS
<1>8. Sums(say, k, above \/ there, m[path])
  <2>1. above \in BOOLEAN /\ there \in BOOLEAN
    OBVIOUS
  <2> HIDE DEF say, k, above, there
  <2>2. QED
    BY <1>1, <1>3, <1>4, <1>6, <1>7, <2>1, SumStep
<1>9. CASE above \/ there
  <2>1. path \in DOMAIN m
    BY <1>5, <1>9
  <2> HIDE DEF above, there, say, k
  <2>2. Sums(say, k, TRUE, m[path])
    BY <1>8, <1>9, Zenon DEF Sums
  <2>3. Sums(say, k, path \in DOMAIN m, m[path])
    BY <2>1, <2>2, Zenon DEF Sums
  <2>4. QED
    BY <2>3 DEF say, k
<1>10. CASE ~(above \/ there)
  <2>1. path \notin DOMAIN m
    BY <1>5, <1>10
  <2> HIDE DEF above, there, say, k
  <2>2. Sums(say, k, FALSE, m[path])
    BY <1>8, <1>10, Zenon DEF Sums
  <2>3. Sums(say, k, path \in DOMAIN m, m[path])
    BY <2>1, <2>2, Zenon DEF Sums
  <2>4. QED
    BY <2>3 DEF say, k
<1>11. QED
  BY <1>9, <1>10

\* Merging the overlay into the definition is what is said down to the place.
LEMMA StandsMerge ==
  ASSUME NEW at, NEW place \in Seq(Nat), IsInputs(at[place]),
         NEW overlay, IsInputs(overlay), Stands(at, place, overlay, Len(place) - 1)
  PROVE  Stands(at, place, Merge(at[place], overlay), Len(place))
<1> DEFINE target == at[place]
<1>1. target = at[place] /\ IsInputs(target)
  OBVIOUS
<1> HIDE DEF target
<1> DEFINE m == Merge(target, overlay)
<1>2. DOMAIN m = DOMAIN target \cup DOMAIN overlay
  BY <1>1, MergeFacts
<1>3. \A q \in DOMAIN target \ DOMAIN overlay : m[q] = target[q]
  BY <1>1, MergeFacts, ZenonT(40)
<1>4. \A q \in DOMAIN overlay \ DOMAIN target : m[q] = overlay[q]
  BY DEF Merge
<1>5. \A q \in DOMAIN overlay \cap DOMAIN target : Over(m[q], target[q], overlay[q])
  BY <1>1, MergeFacts
<1> HIDE DEF m
<1>6. Stands(at, place, m, Len(place))
  BY <1>1, <1>2, <1>5, <1>3, <1>4, StandsOver
<1>7. QED
  BY <1>1, <1>6 DEF m

\* Functions from places to inputs that agree above a place.
Agree(at, other, place) ==
  \A i \in 0 .. Len(place) : at[SubSeq(place, 1, i)] = other[SubSeq(place, 1, i)]

\* They say the same there.
LEMMA SayingAgrees ==
  ASSUME NEW at, NEW other, NEW place, Agree(at, other, place), NEW path
  PROVE  Saying(at, place, path) = Saying(other, place, path)
<1>1. \A i \in 0 .. Len(place) : Says(at, place, path, i) = Says(other, place, path, i)
  BY DEF Says, Agree
<1>2. Saying(at, place, path) = [i \in 0 .. Len(place) |-> Says(at, place, path, i)]
  BY DEF Saying, Says
<1>3. Saying(other, place, path) = [i \in 0 .. Len(place) |-> Says(other, place, path, i)]
  BY DEF Saying, Says
<1>4. QED
  BY <1>1, <1>2, <1>3

\* They amount to the same inputs there.
LEMMA StandsAgrees ==
  ASSUME NEW at, NEW other, NEW place, Agree(at, other, place), NEW inputs, NEW k,
         Stands(at, place, inputs, k)
  PROVE  Stands(other, place, inputs, k)
BY SayingAgrees DEF Stands

\* What an input lays over its repository is what was said down to it.
LEMMA StandsNested ==
  ASSUME NEW at, NEW p \in Seq(Nat), NEW n \in Nat, NEW inputs, IsInputs(inputs),
         Stands(at, p, inputs, Len(p))
  PROVE  Stands(at, Append(p, n), Nested(inputs, n), Len(p))
<1> SUFFICES ASSUME NEW q \in NonEmpty
             PROVE  Sums(Saying(at, Append(p, n), q), Len(p), q \in DOMAIN Nested(inputs, n),
                         Nested(inputs, n)[q])
  BY DEF Stands
<1> DEFINE e == Append(p, n)
           path == <<n>> \o q
           nested == Nested(inputs, n)
<1>1. /\ Len(p) \in Nat /\ Len(e) = Len(p) + 1
      /\ \A i \in 0 .. Len(p) :
           /\ SubSeq(e, 1, i) = SubSeq(p, 1, i)
           /\ SubSeq(e, i + 1, Len(e)) \o q = SubSeq(p, i + 1, Len(p)) \o path
  <2>1. q \in Seq(Nat) /\ Len(p) \in Nat
    BY PathFacts DEF NonEmpty
  <2>2. /\ Len(e) = Len(p) + 1
        /\ \A i \in 0 .. Len(p) : SubSeq(e, 1, i) = SubSeq(p, 1, i)
    BY EdgeFacts
  <2>3. \A i \in 0 .. Len(p) : \A r \in Seq(Nat) :
          SubSeq(e, i + 1, Len(e)) \o r = SubSeq(p, i + 1, Len(p)) \o (<<n>> \o r)
    BY EdgeFacts, Zenon
  <2> HIDE DEF e
  <2>4. QED
    BY <2>1, <2>2, <2>3, Zenon
<1>2. path \in NonEmpty
  <2>1. <<n>> \in Seq(Nat) /\ Len(<<n>>) = 1 /\ q \in Seq(Nat)
    BY DEF NonEmpty
  <2>2. path \in Seq(Nat) /\ Len(path) = 1 + Len(q) /\ Len(q) \in Nat
    BY <2>1, ConcatProperties, LenProperties
  <2> HIDE DEF path
  <2>3. QED
    BY <2>2, EmptySeq DEF NonEmpty
<1>3. /\ q \in DOMAIN nested <=> path \in DOMAIN inputs
      /\ q \in DOMAIN nested => nested[q] = inputs[path]
  BY NestedFacts
<1> HIDE DEF e, path, nested
<1>4. \A i \in 0 .. Len(p) : Says(at, e, q, i) = Says(at, p, path, i)
  BY <1>1 DEF Says
<1>5. \A i \in 0 .. Len(p) : Saying(at, e, q)[i] = Saying(at, p, path)[i]
  <2>1. \A i \in 0 .. Len(p) : i \in 0 .. Len(e)
    BY <1>1
  <2>2. QED
    BY <1>4, <2>1, SayingIs
<1>6. Sums(Saying(at, p, path), Len(p), path \in DOMAIN inputs, inputs[path])
  BY <1>2 DEF Stands
<1>7. Sums(Saying(at, e, q), Len(p), path \in DOMAIN inputs, inputs[path])
  <2> DEFINE here == path \in DOMAIN inputs
  <2>1. Sums(Saying(at, p, path), Len(p), here, inputs[path]) /\ Len(p) \in Int
    BY <1>1, <1>6
  <2> HIDE DEF here
  <2>2. Sums(Saying(at, e, q), Len(p), here, inputs[path])
    BY <1>5, <2>1, SumsSame
  <2>3. QED
    BY <2>2 DEF here
<1>8. CASE path \in DOMAIN inputs
  BY <1>3, <1>7, <1>8, Zenon DEF Sums, e, nested
<1>9. CASE path \notin DOMAIN inputs
  BY <1>3, <1>7, <1>9, Zenon DEF Sums, e, nested
<1>10. QED
  BY <1>8, <1>9

\* Which inputs lead where, read off the merged inputs.
LEMMA StandsLeads ==
  ASSUME GraphConstants, NEW at, NEW p \in Seq(Nat), NEW n \in Nat,
         NEW inputs, IsInputs(inputs), Stands(at, p, inputs, Len(p)), NEW s \in Repos
  PROVE  LeadsTo(Saying(at, p, <<n>>), s) <=>
           n \in DirectInputs(inputs) /\ inputs[<<n>>].url = s
<1> DEFINE say == Saying(at, p, <<n>>)
           here == <<n>> \in DOMAIN inputs
           input == inputs[<<n>>]
<1>1. DOMAIN say = 0 .. Len(p)
  BY SayingFacts
<1>2. Sums(say, Len(p), here, input)
  <2>1. <<n>> \in NonEmpty
    BY DEF NonEmpty
  <2>2. QED
    BY <2>1 DEF Stands
<1>3. s # NoUrl
  BY DEF GraphConstants
<1>4. n \in DirectInputs(inputs) /\ input.url = s <=> here /\ ~input.follows /\ input.url = s
  BY DirectFacts
<1> HIDE DEF say, here, input
<1>5. ASSUME here PROVE input.url = s /\ ~input.follows <=> LeadsTo(say, s)
  BY <1>1, <1>2, <1>3, <1>5 DEF Sums, LeadsTo
<1>6. ASSUME ~here PROVE ~LeadsTo(say, s)
  BY <1>1, <1>2, <1>6 DEF Sums, LeadsTo
<1>7. QED
  BY <1>4, <1>5, <1>6 DEF say, input

\* An input leads to one repository.
LEMMA LeadsToOne ==
  ASSUME NEW at, NEW p \in Seq(Nat), NEW path, NEW s, NEW t, s # NoUrl, t # NoUrl,
         LeadsTo(Saying(at, p, path), s), LeadsTo(Saying(at, p, path), t)
  PROVE  s = t
<1> DEFINE say == Saying(at, p, path)
<1>1. /\ DOMAIN say = 0 .. Len(p) /\ Len(p) \in Nat
      /\ \A i \in 0 .. Len(p) : \A x, y \in say[i] : x = y
  BY SayingFacts, PathFacts
<1> HIDE DEF say
<1>2. PICK i \in 0 .. Len(p) : /\ \E x \in say[i] : x.url = s
                               /\ \A j \in 0 .. i - 1 : \A x \in say[j] : x.url = NoUrl
  BY <1>1 DEF LeadsTo, say
<1>3. PICK k \in 0 .. Len(p) : /\ \E x \in say[k] : x.url = t
                               /\ \A j \in 0 .. k - 1 : \A x \in say[j] : x.url = NoUrl
  BY <1>1 DEF LeadsTo, say
<1>4. i \in 0 .. k - 1 \/ k \in 0 .. i - 1 \/ i = k
  BY <1>1
<1>5. QED
  BY <1>1, <1>2, <1>3, <1>4

\* What somebody says of an input has its name.
LEMMA LeadsFromName ==
  ASSUME NEW at, NEW p \in Seq(Nat), NEW n \in Nat, NEW s, LeadsTo(Saying(at, p, <<n>>), s)
  PROVE  \E i \in 0 .. Len(p) : \E path \in DOMAIN at[SubSeq(p, 1, i)] : path[Len(path)] = n
<1>1. PICK i \in 0 .. Len(p) : Saying(at, p, <<n>>)[i] # {}
  BY SayingFacts DEF LeadsTo
<1>2. Says(at, p, <<n>>, i) # {}
  BY <1>1, SayingIs
<1> DEFINE front == SubSeq(p, i + 1, Len(p))
           path == front \o <<n>>
<1>3. path \in DOMAIN at[SubSeq(p, 1, i)]
  BY <1>2 DEF Says
<1>4. front \in Seq(Nat)
  <2>1. Len(p) \in Nat /\ \A k \in i + 1 .. Len(p) : p[k] \in Nat
    BY PathFacts, ElementOfSeq
  <2>2. i + 1 \in Int /\ Len(p) \in Int
    BY <2>1
  <2>3. QED
    BY <2>1, <2>2, SubSeqProperties
<1>5. path[Len(path)] = n
  <2> HIDE DEF front
  <2>1. Append(front, n) = path
    BY <1>4, AppendIsConcat
  <2>2. Append(front, n)[Len(Append(front, n))] = n
    BY <1>4, EdgeFacts
  <2>3. QED
    BY <2>1, <2>2
<1>6. QED
  BY <1>3, <1>5

-----------------------------------------------------------------------------
(* BuildGraph: stacks *)

IsStack(w) == \E S : w \in Seq(S)

\* The top of a stack and what is below it.
LEMMA StackFacts ==
  ASSUME NEW w, IsStack(w)
  PROVE  /\ Len(w) \in Nat /\ DOMAIN w = 1 .. Len(w)
         /\ \A x : /\ IsStack(Append(w, x)) /\ Len(Append(w, x)) = Len(w) + 1
                   /\ Append(w, x)[Len(w) + 1] = x
                   /\ \A i \in 1 .. Len(w) : Append(w, x)[i] = w[i]
         /\ w # <<>> => /\ Len(w) \in 1 .. Len(w) /\ IsStack(SubSeq(w, 1, Len(w) - 1))
                        /\ Len(SubSeq(w, 1, Len(w) - 1)) = Len(w) - 1
                        /\ \A i \in 1 .. Len(w) - 1 : SubSeq(w, 1, Len(w) - 1)[i] = w[i]
         /\ w = <<>> => Len(w) = 0
<1>1. PICK S : w \in Seq(S)
  BY DEF IsStack
<1>2. Len(w) \in Nat /\ DOMAIN w = 1 .. Len(w) /\ \A i \in 1 .. Len(w) : w[i] \in S
  BY <1>1, LenProperties, ElementOfSeq
<1>3. ASSUME NEW x
      PROVE  /\ IsStack(Append(w, x)) /\ Len(Append(w, x)) = Len(w) + 1
             /\ Append(w, x)[Len(w) + 1] = x
             /\ \A i \in 1 .. Len(w) : Append(w, x)[i] = w[i]
  <2>1. w \in Seq(S \cup {x})
    BY <1>1, SeqMonotonic
  <2> DEFINE T == S \cup {x}
  <2>2. w \in Seq(T) /\ x \in T
    BY <2>1
  <2> HIDE DEF T
  <2>3. QED
    BY <2>2, AppendProperties DEF IsStack
<1>4. ASSUME w # <<>>
      PROVE  /\ Len(w) \in 1 .. Len(w) /\ IsStack(SubSeq(w, 1, Len(w) - 1))
             /\ Len(SubSeq(w, 1, Len(w) - 1)) = Len(w) - 1
             /\ \A i \in 1 .. Len(w) - 1 : SubSeq(w, 1, Len(w) - 1)[i] = w[i]
  <2>1. Len(w) # 0
    BY <1>1, <1>4, EmptySeq
  <2> DEFINE n == Len(w) - 1
             below == SubSeq(w, 1, n)
  <2>2. Len(w) \in 1 .. Len(w) /\ n \in Nat /\ 1 \in Int /\ n \in Int /\ n - 1 + 1 = n
        /\ \A i \in 1 .. n : i \in 1 .. Len(w) /\ 1 + i - 1 = i
    BY <1>2, <2>1
  <2>3. \A i \in 1 .. n : w[i] \in S
    BY <1>2, <2>2
  <2>4. /\ below \in Seq(S) /\ Len(below) = IF 1 <= n THEN n - 1 + 1 ELSE 0
        /\ \A i \in 1 .. n - 1 + 1 : below[i] = w[1 + i - 1]
    <3> HIDE DEF n
    <3>1. QED
      BY <2>2, <2>3, SubSeqProperties
  <2>5. Len(below) = n /\ \A i \in 1 .. n : below[i] = w[i]
    <3> HIDE DEF n, below
    <3>1. QED
      BY <2>2, <2>4
  <2>6. QED
    BY <2>2, <2>4, <2>5 DEF IsStack
<1>5. w = <<>> => Len(w) = 0
  OBVIOUS
<1>6. QED
  BY <1>2, <1>3, <1>4, <1>5

\* The last of a stack is replaced.
Replaced(w, v, g) == v = Append(SubSeq(w, 1, Len(w) - 1), g)

\* Only the last is another.
LEMMA TakeFacts ==
  ASSUME NEW w, IsStack(w), w # <<>>, NEW g, NEW v, Replaced(w, v, g)
  PROVE  /\ IsStack(v) /\ Len(w) \in Nat /\ Len(w) \in 1 .. Len(w) /\ Len(v) = Len(w)
         /\ v[Len(w)] = g /\ \A i \in 1 .. Len(w) : i # Len(w) => v[i] = w[i]
<1> DEFINE b == SubSeq(w, 1, Len(w) - 1)
<1>1. /\ Len(w) \in Nat /\ Len(w) \in 1 .. Len(w) /\ IsStack(b) /\ Len(b) = Len(w) - 1
      /\ \A i \in 1 .. Len(w) - 1 : b[i] = w[i]
  BY StackFacts
<1> HIDE DEF b
<1>2. /\ IsStack(Append(b, g)) /\ Len(Append(b, g)) = Len(b) + 1 /\ Append(b, g)[Len(b) + 1] = g
      /\ \A i \in 1 .. Len(b) : Append(b, g)[i] = b[i]
  BY <1>1, StackFacts
<1>3. v = Append(b, g)
  BY DEF Replaced, b
<1>4. /\ Len(b) + 1 = Len(w)
      /\ \A i \in 1 .. Len(w) : i # Len(w) => i \in 1 .. Len(b) /\ i \in 1 .. Len(w) - 1
  BY <1>1
<1>5. Len(v) = Len(w) /\ v[Len(w)] = g /\ IsStack(v)
  BY <1>2, <1>3, <1>4
<1>6. \A i \in 1 .. Len(w) : i # Len(w) => v[i] = w[i]
  BY <1>1, <1>2, <1>3, <1>4
<1>7. QED
  BY <1>1, <1>5, <1>6

-----------------------------------------------------------------------------
(* BuildGraph: places *)

\* Places and what was captured for them, by any sources and overrides.
PlacesOf(set) == {<<>>} \cup {o.edge : o \in set}
AtOf(copies, set) == [place \in PlacesOf(set) |-> copies[SourceIn(set, place)].inputs]

Captured(copies) == DOMAIN copies \subseteq Repos /\ \A s \in DOMAIN copies : IsInputs(copies[s].inputs)

\* An override is one of the edges that are due, and the only one of its edge.
IsDue(copies, set, o) ==
  \E p \in PlacesOf(set), n \in Nat :
    /\ o.edge = Append(p, n) /\ o.source \in DOMAIN copies
    /\ o = [edge |-> o.edge, source |-> o.source, version |-> copies[o.source].version]
    /\ LeadsTo(Saying(AtOf(copies, set), p, <<n>>), o.source)
OverridesFit(copies, set) ==
  /\ Captured(copies) /\ Root \in DOMAIN copies
  /\ \A p \in PlacesOf(set) : \A i \in 0 .. Len(p) : SubSeq(p, 1, i) \in PlacesOf(set)
  /\ PlacesOf(set) \subseteq Seq(Nat)
  /\ \A o, other \in set : o.edge = other.edge => o = other
  /\ \A o \in set : IsDue(copies, set, o)

\* What is at a place by the overrides, one for each edge.
LEMMA SourceInFacts ==
  ASSUME NEW set, \A o, other \in set : o.edge = other.edge => o = other
  PROVE  /\ SourceIn(set, <<>>) = Root
         /\ \A o \in set : o.edge # <<>> => SourceIn(set, o.edge) = o.source
<1>1. ASSUME NEW o \in set PROVE (CHOOSE other \in set : other.edge = o.edge) = o
  OBVIOUS
<1>2. QED
  BY <1>1 DEF SourceIn

\* A place has a captured repository, and its inputs.
LEMMA PlaceFacts ==
  ASSUME NEW copies, NEW set, OverridesFit(copies, set), NEW p \in PlacesOf(set)
  PROVE  /\ p \in Seq(Nat) /\ SourceIn(set, p) \in DOMAIN copies
         /\ AtOf(copies, set)[p] = copies[SourceIn(set, p)].inputs
         /\ IsInputs(AtOf(copies, set)[p])
<1>1. p \in Seq(Nat)
  BY DEF OverridesFit
<1>2. SourceIn(set, p) \in DOMAIN copies
  <2>1. CASE p = <<>>
    BY <2>1 DEF SourceIn, OverridesFit
  <2>2. CASE p # <<>>
    <3>1. PICK o \in set : o.edge = p
      BY <2>2 DEF PlacesOf
    <3>2. SourceIn(set, p) = o.source
      BY <2>2, <3>1, SourceInFacts DEF OverridesFit
    <3>3. QED
      BY <3>2 DEF OverridesFit, IsDue
  <2>3. QED
    BY <2>1, <2>2
<1>3. AtOf(copies, set)[p] = copies[SourceIn(set, p)].inputs
  BY DEF AtOf
<1>4. QED
  BY <1>1, <1>2, <1>3 DEF OverridesFit, Captured

\* With one more edge, which may have been there, nothing changes for the other places.
Grown(copies, set, more, grown, e, child) ==
  /\ OverridesFit(more, grown) /\ SourceIn(grown, e) = child
  /\ PlacesOf(grown) = PlacesOf(set) \cup {e}
  /\ \A q \in PlacesOf(set) :
       /\ SourceIn(grown, q) = SourceIn(set, q)
       /\ Agree(AtOf(copies, set), AtOf(more, grown), q)

\* An edge that is due is added.
LEMMA EdgeGrows ==
  ASSUME GraphConstants, NEW copies, NEW set, OverridesFit(copies, set),
         NEW more, Captured(more), DOMAIN copies \subseteq DOMAIN more,
         \A s \in DOMAIN copies : more[s] = copies[s],
         NEW p \in PlacesOf(set), NEW n \in Nat, NEW child \in DOMAIN more,
         LeadsTo(Saying(AtOf(copies, set), p, <<n>>), child),
         NEW new, new = [edge |-> Append(p, n), source |-> child, version |-> more[child].version],
         NEW grown, grown = set \cup {new}
  PROVE  Grown(copies, set, more, grown, Append(p, n), child)
<1> DEFINE e == Append(p, n)
           old == AtOf(copies, set)
           at == AtOf(more, grown)
<1>1. p \in Seq(Nat)
  BY PlaceFacts
<1>2. /\ e \in NonEmpty /\ Len(e) = Len(p) + 1 /\ Len(p) \in Nat
      /\ \A i \in 0 .. Len(p) : SubSeq(e, 1, i) = SubSeq(p, 1, i)
      /\ SubSeq(e, 1, Len(e)) = e
  <2>1. /\ e \in NonEmpty /\ Len(e) = Len(p) + 1
        /\ \A i \in 0 .. Len(p) : SubSeq(e, 1, i) = SubSeq(p, 1, i)
    BY <1>1, EdgeFacts
  <2>2. Len(p) \in Nat
    BY <1>1, PathFacts
  <2>3. SubSeq(e, 1, Len(e)) = e
    BY <2>1, PathFacts DEF NonEmpty
  <2>4. QED
    BY <2>1, <2>2, <2>3
<1>3. new.edge = e /\ new.source = child /\ new.version = more[child].version
  OBVIOUS
<1>4. PlacesOf(grown) = PlacesOf(set) \cup {e}
  BY <1>3 DEF PlacesOf
<1>5. ASSUME NEW o \in set, o.edge = e PROVE o = new
  <2>1. PICK q \in PlacesOf(set), m \in Nat :
          /\ o.edge = Append(q, m) /\ o.source \in DOMAIN copies
          /\ o = [edge |-> o.edge, source |-> o.source, version |-> copies[o.source].version]
          /\ LeadsTo(Saying(old, q, <<m>>), o.source)
    BY DEF OverridesFit, IsDue
  <2>2. q \in Seq(Nat) /\ Append(q, m) = Append(p, n)
    BY <1>5, <2>1, PlaceFacts
  <2>3. q = p /\ m = n
    BY <1>1, <2>2, AppendInjective
  <2>4. child # NoUrl /\ o.source # NoUrl
    BY <2>1 DEF GraphConstants, OverridesFit, Captured
  <2>5. o.source = child
    BY <1>1, <2>1, <2>3, <2>4, LeadsToOne
  <2>6. QED
    BY <1>5, <2>1, <2>5
<1>6. \A o, other \in grown : o.edge = other.edge => o = other
  BY <1>3, <1>5 DEF OverridesFit
<1>7. SourceIn(grown, e) = child
  <2>1. new \in grown /\ new.edge # <<>>
    BY <1>2, <1>3 DEF NonEmpty
  <2>2. SourceIn(grown, new.edge) = new.source
    BY <1>6, <2>1, SourceInFacts
  <2>3. QED
    BY <1>3, <2>2
<1>8. ASSUME NEW q \in PlacesOf(set)
      PROVE  SourceIn(grown, q) = SourceIn(set, q) /\ at[q] = old[q]
  <2>1. SourceIn(grown, q) = SourceIn(set, q)
    <3>1. CASE q = <<>>
      BY <3>1 DEF SourceIn
    <3>2. CASE q # <<>>
      <4>1. PICK o \in set : o.edge = q
        BY <3>2 DEF PlacesOf
      <4>2. SourceIn(set, o.edge) = o.source
        BY <3>2, <4>1, SourceInFacts DEF OverridesFit
      <4>3. o \in grown
        OBVIOUS
      <4>4. SourceIn(grown, o.edge) = o.source
        BY <1>6, <3>2, <4>1, <4>3, SourceInFacts
      <4>5. QED
        BY <4>1, <4>2, <4>4
    <3>3. QED
      BY <3>1, <3>2
  <2>2. at[q] = more[SourceIn(grown, q)].inputs
    BY <1>4 DEF AtOf
  <2>3. old[q] = copies[SourceIn(set, q)].inputs /\ SourceIn(set, q) \in DOMAIN copies
    BY PlaceFacts
  <2>4. QED
    BY <2>1, <2>2, <2>3
<1>9. ASSUME NEW q \in PlacesOf(set) PROVE Agree(old, at, q)
  BY <1>8 DEF Agree, OverridesFit
<1>10. /\ \A q \in PlacesOf(grown) : \A i \in 0 .. Len(q) : SubSeq(q, 1, i) \in PlacesOf(grown)
       /\ PlacesOf(grown) \subseteq Seq(Nat)
  <2>1. \A i \in 0 .. Len(e) : i \in 0 .. Len(p) \/ i = Len(e)
    BY <1>2
  <2>2. \A i \in 0 .. Len(e) : SubSeq(e, 1, i) \in PlacesOf(grown)
    BY <1>2, <1>4, <2>1 DEF OverridesFit
  <2>3. PlacesOf(grown) \subseteq Seq(Nat)
    BY <1>2, <1>4 DEF OverridesFit, NonEmpty
  <2> HIDE DEF e
  <2>4. QED
    BY <1>4, <2>2, <2>3 DEF OverridesFit
<1>11. ASSUME NEW o \in set PROVE IsDue(more, grown, o)
  <2>1. PICK q \in PlacesOf(set), m \in Nat :
          /\ o.edge = Append(q, m) /\ o.source \in DOMAIN copies
          /\ o = [edge |-> o.edge, source |-> o.source, version |-> copies[o.source].version]
          /\ LeadsTo(Saying(old, q, <<m>>), o.source)
    BY DEF OverridesFit, IsDue
  <2>2. Saying(at, q, <<m>>) = Saying(old, q, <<m>>)
    <3>1. Agree(old, at, q)
      BY <1>9
    <3> HIDE DEF old, at
    <3>2. QED
      BY <3>1, SayingAgrees
  <2>3. q \in PlacesOf(grown)
    BY <1>4
  <2>4. copies[o.source].version = more[o.source].version /\ o.source \in DOMAIN more
    BY <2>1
  <2>5. QED
    BY <2>1, <2>2, <2>3, <2>4 DEF IsDue
<1>12. IsDue(more, grown, new)
  <2>1. Saying(at, p, <<n>>) = Saying(old, p, <<n>>)
    <3>1. Agree(old, at, p)
      BY <1>9
    <3> HIDE DEF old, at
    <3>2. QED
      BY <3>1, SayingAgrees
  <2>2. p \in PlacesOf(grown)
    BY <1>4
  <2>3. LeadsTo(Saying(at, p, <<n>>), new.source)
    BY <1>3, <2>1
  <2>4. new = [edge |-> new.edge, source |-> new.source, version |-> more[new.source].version]
    BY <1>3
  <2>5. QED
    BY <1>3, <2>2, <2>3, <2>4 DEF IsDue
<1>13. OverridesFit(more, grown)
  <2>1. \A o \in grown : IsDue(more, grown, o)
    BY <1>11, <1>12
  <2>2. Root \in DOMAIN more
    BY DEF OverridesFit
  <2>3. QED
    BY <1>6, <1>10, <2>1, <2>2 DEF OverridesFit
<1>14. QED
  BY <1>4, <1>7, <1>8, <1>9, <1>13 DEF Grown

-----------------------------------------------------------------------------
(* BuildGraph: a build in progress *)

IsCall(c) ==
  /\ c.source \in Repos /\ IsInputs(c.overlay) /\ c.prefix \in Seq(Nat)
  /\ c = Call(c.source, c.overlay, c.prefix)
IsFrame(f) ==
  /\ f.source \in Repos /\ f.prefix \in Seq(Nat) /\ IsInputs(f.inputs)
  /\ f.todo \subseteq DirectInputs(f.inputs)
  /\ f = [source |-> f.source, prefix |-> f.prefix, inputs |-> f.inputs, todo |-> f.todo]

\* A call brings the inputs its place is to be laid under; a walk goes over what they
\* amount to.
CallFits(copies, set, c) ==
  /\ c.prefix \in PlacesOf(set) /\ SourceIn(set, c.prefix) = c.source
  /\ Stands(AtOf(copies, set), c.prefix, c.overlay, Len(c.prefix) - 1)
FrameFits(copies, set, f) ==
  /\ f.prefix \in PlacesOf(set)
  /\ Stands(AtOf(copies, set), f.prefix, f.inputs, Len(f.prefix))

\* An edge that is due is there, or will be found by the call, or is still to be taken.
Expected(w, c, p, n) ==
  \/ c # NoCall /\ c.prefix = p
  \/ \E i \in 1 .. Len(w) : w[i].prefix = p /\ n \in w[i].todo
NothingMissed(copies, set, w, c) ==
  \A p \in PlacesOf(set), n \in Nat, s \in Repos :
    LeadsTo(Saying(AtOf(copies, set), p, <<n>>), s) =>
      Append(p, n) \in PlacesOf(set) \/ Expected(w, c, p, n)

Built(copies, set, w, c) ==
  /\ OverridesFit(copies, set)
  /\ \A i \in 1 .. Len(w) : FrameFits(copies, set, w[i])
  /\ c # NoCall => CallFits(copies, set, c)
  /\ NothingMissed(copies, set, w, c)

\* The root is captured.
LEMMA BuiltBegins ==
  ASSUME GraphConstants, NEW copies, DOMAIN copies = {Root}, IsInputs(copies[Root].inputs)
  PROVE  Built(copies, {}, <<>>, Call(Root, NoInputs, <<>>))
<1> DEFINE c == Call(Root, NoInputs, <<>>)
           at == AtOf(copies, {})
<1>1. PlacesOf({}) = {<<>>} /\ SourceIn({}, <<>>) = Root
  BY DEF PlacesOf, SourceIn
<1>2. c.prefix = <<>> /\ c.source = Root /\ c.overlay = NoInputs /\ c # NoCall
  <2>1. c.prefix = <<>> /\ c.source = Root /\ c.overlay = NoInputs
    BY DEF Call
  <2>2. NoCall.source = NoUrl /\ Root # NoUrl
    BY DEF NoCall, GraphConstants
  <2>3. QED
    BY <2>1, <2>2
<1> HIDE DEF c
<1>3. OverridesFit(copies, {})
  <2>1. Captured(copies)
    BY DEF Captured, GraphConstants
  <2>2. \A i \in 0 .. Len(<<>>) : SubSeq(<<>>, 1, i) = <<>>
    BY SubSeqEmpty
  <2>3. <<>> \in Seq(Nat)
    OBVIOUS
  <2>4. QED
    BY <1>1, <2>1, <2>2, <2>3 DEF OverridesFit
<1>4. Stands(at, <<>>, NoInputs, 0 - 1) /\ Len(<<>>) = 0
  BY StandsEmpty
<1>5. CallFits(copies, {}, c)
  BY <1>1, <1>2, <1>4 DEF CallFits
<1>6. NothingMissed(copies, {}, <<>>, c)
  BY <1>1, <1>2 DEF NothingMissed, Expected
<1>7. \A i \in 1 .. Len(<<>>) : FrameFits(copies, {}, <<>>[i])
  OBVIOUS
<1>8. Built(copies, {}, <<>>, c)
  BY <1>3, <1>5, <1>6, <1>7 DEF Built
<1>9. QED
  BY <1>8 DEF c

\* A call becomes a walk over all that leads somewhere.
LEMMA BuiltWalks ==
  ASSUME GraphConstants, NEW copies, NEW set, NEW w, NEW c, IsStack(w), IsCall(c), c # NoCall,
         Built(copies, set, w, c), NEW inputs, inputs = Merge(copies[c.source].inputs, c.overlay),
         NEW f, f = [source |-> c.source, prefix |-> c.prefix, inputs |-> inputs,
                     todo |-> DirectInputs(inputs)]
  PROVE  IsFrame(f) /\ IsStack(Append(w, f)) /\ Built(copies, set, Append(w, f), NoCall)
<1> DEFINE at == AtOf(copies, set)
           v == Append(w, f)
<1>1. /\ OverridesFit(copies, set) /\ CallFits(copies, set, c)
      /\ \A i \in 1 .. Len(w) : FrameFits(copies, set, w[i])
      /\ NothingMissed(copies, set, w, c)
  BY DEF Built
<1>2. /\ f.source = c.source /\ f.prefix = c.prefix /\ f.inputs = inputs
      /\ f.todo = DirectInputs(inputs)
  OBVIOUS
<1>3. /\ c.prefix \in PlacesOf(set) /\ c.prefix \in Seq(Nat) /\ c.source \in Repos
      /\ at[c.prefix] = copies[c.source].inputs /\ IsInputs(at[c.prefix])
  BY <1>1, PlaceFacts DEF CallFits, IsCall
<1>4. IsInputs(inputs) /\ Stands(at, c.prefix, inputs, Len(c.prefix))
  <2>1. IsInputs(c.overlay) /\ Stands(at, c.prefix, c.overlay, Len(c.prefix) - 1)
    BY <1>1 DEF IsCall, CallFits
  <2>2. inputs = Merge(at[c.prefix], c.overlay)
    BY <1>3
  <2> HIDE DEF at
  <2>3. IsInputs(Merge(at[c.prefix], c.overlay))
    <3> DEFINE t == at[c.prefix]
    <3>1. IsInputs(t)
      BY <1>3
    <3> HIDE DEF t
    <3>2. IsInputs(Merge(t, c.overlay))
      BY <2>1, <3>1, MergeFacts
    <3>3. QED
      BY <3>2 DEF t
  <2>4. Stands(at, c.prefix, Merge(at[c.prefix], c.overlay), Len(c.prefix))
    BY <1>3, <2>1, StandsMerge
  <2>5. QED
    BY <2>2, <2>3, <2>4
<1>5. IsFrame(f)
  BY <1>2, <1>3, <1>4 DEF IsFrame
<1>6. FrameFits(copies, set, f)
  BY <1>2, <1>3, <1>4 DEF FrameFits
<1>7. /\ IsStack(v) /\ Len(w) \in Nat /\ Len(v) = Len(w) + 1 /\ v[Len(w) + 1] = f
      /\ \A i \in 1 .. Len(w) : v[i] = w[i]
  BY StackFacts
<1> HIDE DEF v
<1>8. \A i \in 1 .. Len(v) : i \in 1 .. Len(w) \/ i = Len(w) + 1
  BY <1>7
<1>9. \A i \in 1 .. Len(v) : FrameFits(copies, set, v[i])
  BY <1>1, <1>6, <1>7, <1>8
<1>10. ASSUME NEW p \in PlacesOf(set), NEW n \in Nat, NEW s \in Repos,
              LeadsTo(Saying(at, p, <<n>>), s), Append(p, n) \notin PlacesOf(set)
       PROVE  Expected(v, NoCall, p, n)
  <2>1. CASE c.prefix = p
    <3>1. n \in DirectInputs(inputs)
      BY <1>3, <1>4, <1>10, <2>1, StandsLeads
    <3>2. Len(w) + 1 \in 1 .. Len(v)
      BY <1>7
    <3>3. QED
      BY <1>2, <1>7, <2>1, <3>1, <3>2 DEF Expected
  <2>2. CASE \E i \in 1 .. Len(w) : w[i].prefix = p /\ n \in w[i].todo
    <3>1. \A i \in 1 .. Len(w) : i \in 1 .. Len(v)
      BY <1>7
    <3>2. QED
      BY <1>7, <2>2, <3>1 DEF Expected
  <2>3. QED
    BY <1>1, <1>10, <2>1, <2>2 DEF NothingMissed, Expected
<1>11. NothingMissed(copies, set, v, NoCall)
  BY <1>10 DEF NothingMissed
<1>12. Built(copies, set, v, NoCall)
  BY <1>1, <1>9, <1>11 DEF Built
<1>13. QED
  BY <1>5, <1>7, <1>12 DEF v

\* A walk ends that has nothing left to take.
LEMMA BuiltLeaves ==
  ASSUME NEW copies, NEW set, NEW w, IsStack(w), w # <<>>, w[Len(w)].todo = {},
         Built(copies, set, w, NoCall)
  PROVE  Built(copies, set, SubSeq(w, 1, Len(w) - 1), NoCall)
<1> DEFINE v == SubSeq(w, 1, Len(w) - 1)
<1>1. /\ Len(w) \in Nat /\ Len(v) = Len(w) - 1
      /\ \A i \in 1 .. Len(w) - 1 : v[i] = w[i]
  BY StackFacts
<1> HIDE DEF v
<1>2. \A i \in 1 .. Len(v) : i \in 1 .. Len(w) /\ v[i] = w[i]
  BY <1>1
<1>3. \A i \in 1 .. Len(w) : i \in 1 .. Len(v) \/ i = Len(w)
  BY <1>1
<1>4. \A p, n : Expected(w, NoCall, p, n) => Expected(v, NoCall, p, n)
  BY <1>2, <1>3 DEF Expected
<1>5. NothingMissed(copies, set, v, NoCall)
  BY <1>4 DEF Built, NothingMissed
<1>6. \A i \in 1 .. Len(v) : FrameFits(copies, set, v[i])
  BY <1>2 DEF Built
<1>7. Built(copies, set, v, NoCall)
  BY <1>5, <1>6 DEF Built
<1>8. QED
  BY <1>7 DEF v

\* An edge is captured and the call goes there.
Follows(more, set, grown, f, n, child, c) ==
  /\ child = f.inputs[<<n>>].url
  /\ c = Call(child, Nested(f.inputs, n), Append(f.prefix, n))
  /\ grown = set \cup {[edge |-> Append(f.prefix, n), source |-> child,
                       version |-> more[child].version]}

\* The last walk takes an input: it is no longer to be taken, and the call goes there.
LEMMA BuiltTakes ==
  ASSUME GraphConstants, NEW copies, NEW set, NEW w, IsStack(w), w # <<>>,
         Built(copies, set, w, NoCall),
         NEW f, f = w[Len(w)], IsFrame(f), NEW n \in f.todo,
         NEW g, IsFrame(g), g.prefix = f.prefix, g.inputs = f.inputs, g.todo = f.todo \ {n},
         NEW v, Replaced(w, v, g),
         NEW child, NEW c, NEW grown, NEW more, Follows(more, set, grown, f, n, child, c),
         Captured(more), DOMAIN copies \subseteq DOMAIN more, child \in DOMAIN more,
         \A s \in DOMAIN copies : more[s] = copies[s]
  PROVE  Built(more, grown, v, c)
<1> DEFINE old == AtOf(copies, set)
           at == AtOf(more, grown)
           e == Append(f.prefix, n)
           new == [edge |-> e, source |-> child, version |-> more[child].version]
<1>0. /\ child = f.inputs[<<n>>].url /\ grown = set \cup {new}
      /\ c = Call(child, Nested(f.inputs, n), e)
  BY DEF Follows
<1>1. /\ OverridesFit(copies, set) /\ NothingMissed(copies, set, w, NoCall)
      /\ \A i \in 1 .. Len(w) : FrameFits(copies, set, w[i])
  BY DEF Built
<1>2. /\ f.prefix \in Seq(Nat) /\ IsInputs(f.inputs) /\ n \in DirectInputs(f.inputs) /\ n \in Nat
      /\ child \in Repos
  BY <1>0, DirectFacts DEF IsFrame
<1>3. /\ Len(w) \in Nat /\ Len(w) \in 1 .. Len(w) /\ Len(v) = Len(w) /\ v[Len(w)] = g
      /\ \A i \in 1 .. Len(w) : i # Len(w) => v[i] = w[i]
  BY TakeFacts
<1>4. f.prefix \in PlacesOf(set) /\ Stands(old, f.prefix, f.inputs, Len(f.prefix))
  BY <1>1, <1>3 DEF FrameFits
<1>5. LeadsTo(Saying(old, f.prefix, <<n>>), child)
  <2>1. LeadsTo(Saying(old, f.prefix, <<n>>), child) <=>
          n \in DirectInputs(f.inputs) /\ f.inputs[<<n>>].url = child
    BY <1>2, <1>4, StandsLeads
  <2>2. QED
    BY <1>0, <1>2, <2>1
<1>6. /\ OverridesFit(more, grown) /\ SourceIn(grown, e) = child
      /\ PlacesOf(grown) = PlacesOf(set) \cup {e}
      /\ \A q \in PlacesOf(set) : SourceIn(grown, q) = SourceIn(set, q) /\ Agree(old, at, q)
  <2>1. grown = set \cup {new}
    BY <1>0
  <2>2. new = [edge |-> Append(f.prefix, n), source |-> child, version |-> more[child].version]
    OBVIOUS
  <2> DEFINE p == f.prefix
  <2>3. /\ p \in PlacesOf(set) /\ LeadsTo(Saying(AtOf(copies, set), p, <<n>>), child)
        /\ new = [edge |-> Append(p, n), source |-> child, version |-> more[child].version]
    BY <1>4, <1>5, <2>2
  <2> HIDE DEF p, new
  <2>4. Grown(copies, set, more, grown, Append(p, n), child)
    BY <1>1, <1>2, <2>1, <2>3, EdgeGrows
  <2>5. QED
    BY <2>4 DEF p, Grown
<1>7. \A q \in PlacesOf(set) : \A i, k :
        Stands(old, q, i, k) => Stands(at, q, i, k)
  <2> HIDE DEF old, at
  <2>1. QED
    BY <1>6, StandsAgrees
<1>8. CallFits(more, grown, c)
  <2>1. Stands(at, f.prefix, f.inputs, Len(f.prefix))
    BY <1>4, <1>7
  <2>2. Stands(at, e, Nested(f.inputs, n), Len(f.prefix))
    <3> HIDE DEF at
    <3>1. QED
      BY <1>2, <2>1, StandsNested
  <2>3. Len(e) - 1 = Len(f.prefix)
    <3>1. Len(e) = Len(f.prefix) + 1 /\ Len(f.prefix) \in Nat
      BY <1>2, EdgeFacts, PathFacts
    <3>2. QED
      BY <3>1
  <2>4. c.prefix = e /\ c.source = child /\ c.overlay = Nested(f.inputs, n)
    BY <1>0 DEF Call
  <2> HIDE DEF at, e
  <2>5. QED
    BY <1>6, <2>2, <2>3, <2>4 DEF CallFits, at
<1>9. \A i \in 1 .. Len(v) : FrameFits(more, grown, v[i])
  <2>1. FrameFits(more, grown, g)
    BY <1>4, <1>6, <1>7 DEF FrameFits
  <2>2. \A i \in 1 .. Len(w) : FrameFits(more, grown, w[i])
    BY <1>1, <1>6, <1>7 DEF FrameFits
  <2>3. QED
    BY <1>3, <2>1, <2>2
<1>10. ASSUME NEW p \in PlacesOf(grown), NEW m \in Nat, NEW s \in Repos,
              LeadsTo(Saying(at, p, <<m>>), s), Append(p, m) \notin PlacesOf(grown)
       PROVE  Expected(v, c, p, m)
  <2>1. CASE p = e
    <3>1. c.prefix = e /\ c.source = child
      BY <1>0 DEF Call
    <3>2. c # NoCall
      <4>1. NoCall.source = NoUrl
        BY DEF NoCall
      <4>2. child # NoUrl
        BY <1>2 DEF GraphConstants
      <4>3. QED
        BY <3>1, <4>1, <4>2
    <3>3. QED
      BY <2>1, <3>1, <3>2 DEF Expected
  <2>2. CASE p # e
    <3>1. p \in PlacesOf(set)
      BY <1>6, <2>2
    <3>2. Saying(at, p, <<m>>) = Saying(old, p, <<m>>)
      <4>1. Agree(old, at, p)
        BY <1>6, <3>1
      <4> HIDE DEF old, at
      <4>2. QED
        BY <4>1, SayingAgrees
    <3>3. Expected(w, NoCall, p, m)
      BY <1>1, <1>6, <1>10, <3>1, <3>2 DEF NothingMissed
    <3>4. PICK i \in 1 .. Len(w) : w[i].prefix = p /\ m \in w[i].todo
      BY <3>3 DEF Expected
    <3>5. CASE i = Len(w)
      <4>1. m # n
        BY <1>6, <1>10, <3>4, <3>5
      <4>2. v[i].prefix = p /\ m \in v[i].todo
        BY <1>3, <3>4, <3>5, <4>1
      <4>3. QED
        BY <1>3, <4>2 DEF Expected
    <3>6. CASE i # Len(w)
      BY <1>3, <3>4, <3>6 DEF Expected
    <3>7. QED
      BY <3>5, <3>6
  <2>3. QED
    BY <2>1, <2>2
<1>11. NothingMissed(more, grown, v, c)
  BY <1>10 DEF NothingMissed
<1>12. QED
  BY <1>6, <1>8, <1>9, <1>11 DEF Built

-----------------------------------------------------------------------------
(* BuildGraph: types *)

Phases == {"preflight", "refused", "build", "cycle", "untracked", "locked"}

GraphTypes ==
  /\ live \in Worlds /\ phase \in Phases /\ edits \in Nat
  /\ walkCall # NoCall => IsCall(walkCall)
  /\ IsStack(walks) /\ \A i \in 1 .. Len(walks) : IsFrame(walks[i])
  /\ DOMAIN definitions \subseteq Repos /\ \A s \in DOMAIN definitions : IsInputs(definitions[s])
  /\ Captured(sources)
  /\ phase \in {"preflight", "refused"} => DOMAIN sources = {} /\ overrides = {}

\* Repositories define inputs.
LEMMA LiveFacts ==
  ASSUME GraphConstants, GraphTypes, NEW s \in Repos PROVE IsInputs(live.inputs[s])
BY DEF GraphConstants, GraphTypes

\* A call of a repository is not the absence of one.
LEMMA RealCalls ==
  ASSUME GraphConstants, NEW source \in Repos, NEW overlay, IsInputs(overlay), NEW p \in Seq(Nat)
  PROVE  IsCall(Call(source, overlay, p)) /\ Call(source, overlay, p) # NoCall
<1> DEFINE c == Call(source, overlay, p)
<1>1. c.source = source /\ c.overlay = overlay /\ c.prefix = p
  BY DEF Call
<1>2. NoCall.source = NoUrl
  BY DEF NoCall
<1>3. source # NoUrl
  BY DEF GraphConstants
<1>4. c = Call(c.source, c.overlay, c.prefix)
  BY <1>1
<1> HIDE DEF c
<1>5. IsCall(c) /\ c # NoCall
  BY <1>1, <1>2, <1>3, <1>4 DEF IsCall
<1>6. QED
  BY <1>5 DEF c

\* No inputs are inputs.
LEMMA NoInputsFacts == IsInputs(NoInputs)
BY DEF NoInputs, IsInputs

\* A captured repository has the inputs it defines then; the others keep theirs.
LEMMA CaptureFacts ==
  ASSUME GraphConstants, GraphTypes, NEW s \in Repos, Capture(s)
  PROVE  /\ Captured(sources') /\ DOMAIN sources' = DOMAIN sources \cup {s}
         /\ \A x \in DOMAIN sources : sources'[x] = sources[x]
         /\ s \notin DOMAIN sources => sources'[s].inputs = live.inputs[s]
<1>1. CASE s \in DOMAIN sources
  <2>1. sources' = sources
    BY <1>1 DEF Capture
  <2>2. QED
    BY <1>1, <2>1 DEF GraphTypes
<1>2. CASE s \notin DOMAIN sources
  <2> DEFINE new == [version |-> edits, inputs |-> live.inputs[s]]
  <2>1. sources' = [x \in DOMAIN sources \cup {s} |-> IF x = s THEN new ELSE sources[x]]
    BY <1>2 DEF Capture, Put
  <2>2. new.inputs = live.inputs[s]
    OBVIOUS
  <2> HIDE DEF new
  <2>3. /\ DOMAIN sources' = DOMAIN sources \cup {s} /\ sources'[s] = new
        /\ \A x \in DOMAIN sources : sources'[x] = sources[x]
    BY <1>2, <2>1
  <2>4. IsInputs(sources'[s].inputs)
    BY <2>2, <2>3, LiveFacts
  <2>5. Captured(sources')
    BY <2>3, <2>4 DEF GraphTypes, Captured
  <2>6. QED
    BY <2>2, <2>3, <2>5
<1>3. QED
  BY <1>1, <1>2

\* An input of the last walk is taken.
Takes(w, v, n) ==
  /\ w # <<>> /\ n \in w[Len(w)].todo
  /\ \E g : /\ IsFrame(g) /\ g.prefix = w[Len(w)].prefix /\ g.inputs = w[Len(w)].inputs
            /\ g.todo = w[Len(w)].todo \ {n} /\ Replaced(w, v, g)

\* The walk on top and what it still takes.
LEMMA TopFacts ==
  ASSUME GraphTypes, walks # <<>>
  PROVE  /\ Len(walks) \in 1 .. Len(walks) /\ IsFrame(Top) /\ Top = walks[Len(walks)]
         /\ Top.todo \subseteq Nat
         /\ \A n \in Top.todo : n \in DirectInputs(Top.inputs) /\ Top.inputs[<<n>>].url \in Repos
<1>1. Len(walks) \in 1 .. Len(walks)
  BY StackFacts DEF GraphTypes
<1>2. IsFrame(Top)
  BY <1>1 DEF GraphTypes, Top
<1>3. QED
  BY <1>1, <1>2, DirectFacts DEF IsFrame, Top

\* A walk that has taken an input.
Without(f, n) == [f EXCEPT !.todo = @ \ {n}]

\* Only what is to be taken is less.
LEMMA FrameWithout ==
  ASSUME NEW f, NEW a, NEW b, NEW c, NEW d, NEW n,
         f \in [source : {a}, prefix : {b}, inputs : {c}, todo : {d}]
  PROVE  Without(f, n) = [source |-> a, prefix |-> b, inputs |-> c, todo |-> d \ {n}]
BY DEF Without

\* Descending takes an input and calls for it.
LEMMA DescendFacts ==
  ASSUME GraphConstants, GraphTypes, walks # <<>>, NEW n \in Top.todo, Descend(n)
  PROVE  /\ Takes(walks, walks', n) /\ IsStack(walks')
         /\ \A i \in 1 .. Len(walks') : IsFrame(walks'[i])
         /\ walkCall' = Call(Top.inputs[<<n>>].url, Nested(Top.inputs, n), Append(Top.prefix, n))
         /\ IsCall(walkCall') /\ walkCall' # NoCall
<1> DEFINE f == walks[Len(walks)]
           g == Without(f, n)
<1>1. IsFrame(f) /\ n \in f.todo /\ n \in Nat /\ f.inputs[<<n>>].url \in Repos
      /\ Len(walks) \in 1 .. Len(walks)
  BY TopFacts DEF Top
<1>2. Replaced(walks, walks', g)
  BY DEF Descend, Top, Below, Replaced, Without
<1>3. walkCall' = Call(f.inputs[<<n>>].url, Nested(f.inputs, n), Append(f.prefix, n))
  BY DEF Descend, Top
<1> HIDE DEF f
<1>4. g.source = f.source /\ g.prefix = f.prefix /\ g.inputs = f.inputs /\ g.todo = f.todo \ {n}
      /\ g = [source |-> g.source, prefix |-> g.prefix, inputs |-> g.inputs, todo |-> g.todo]
  <2>1. f = [source |-> f.source, prefix |-> f.prefix, inputs |-> f.inputs, todo |-> f.todo]
    BY <1>1 DEF IsFrame
  <2>2. g = [source |-> f.source, prefix |-> f.prefix, inputs |-> f.inputs, todo |-> f.todo \ {n}]
    <3>1. f \in [source : {f.source}, prefix : {f.prefix}, inputs : {f.inputs}, todo : {f.todo}]
      BY <2>1
    <3>2. QED
      BY <3>1, FrameWithout
  <2> HIDE DEF g
  <2>3. QED
    BY <2>2
<1> HIDE DEF g
<1>5. IsFrame(g)
  BY <1>1, <1>4 DEF IsFrame
<1>6. Takes(walks, walks', n)
  BY <1>1, <1>2, <1>4, <1>5 DEF Takes, f
<1>7. PICK v : v = walks'
  OBVIOUS
<1>8. /\ IsStack(v) /\ Len(v) = Len(walks) /\ v[Len(walks)] = g
      /\ \A i \in 1 .. Len(walks) : i # Len(walks) => v[i] = walks[i]
  <2>1. IsStack(walks) /\ Replaced(walks, v, g)
    BY <1>2, <1>7 DEF GraphTypes
  <2>2. QED
    BY <2>1, TakeFacts
<1>9. \A i \in 1 .. Len(v) : IsFrame(v[i])
  BY <1>5, <1>8 DEF GraphTypes
<1>10. IsCall(walkCall') /\ walkCall' # NoCall
  <2>1. IsInputs(Nested(f.inputs, n)) /\ Append(f.prefix, n) \in Seq(Nat)
    BY <1>1, NestedFacts, AppendProperties DEF IsFrame
  <2>2. QED
    BY <1>1, <1>3, <2>1, RealCalls
<1>11. QED
  BY <1>3, <1>6, <1>7, <1>8, <1>10, <1>9 DEF f, Top

\* The least input to be taken is one of them.
LEMMA MinOfTodo == ASSUME NEW S \in SUBSET Nat, S # {} PROVE Min(S) \in S
<1>1. \E x \in S : \A y \in S : x <= y
  BY LeastElement
<1>2. QED
  BY <1>1 DEF Min

\* A walk over these inputs is on top of the others.
Pushed(w, v, c, inputs) ==
  v = Append(w, [source |-> c.source, prefix |-> c.prefix, inputs |-> inputs,
                 todo |-> DirectInputs(inputs)])

\* A walk over inputs.
LEMMA PushFacts ==
  ASSUME GraphTypes, walkCall # NoCall, NEW inputs, IsInputs(inputs), Push(inputs)
  PROVE  /\ walkCall' = NoCall /\ Pushed(walks, walks', walkCall, inputs) /\ IsStack(walks')
         /\ \A i \in 1 .. Len(walks') : IsFrame(walks'[i])
<1> DEFINE f == [source |-> walkCall.source, prefix |-> walkCall.prefix, inputs |-> inputs,
                 todo |-> DirectInputs(inputs)]
<1>1. walkCall' = NoCall /\ walks' = Append(walks, f)
  BY DEF Push
<1>2. /\ f.source = walkCall.source /\ f.prefix = walkCall.prefix /\ f.inputs = inputs
      /\ f.todo = DirectInputs(inputs)
  OBVIOUS
<1>3. f = [source |-> f.source, prefix |-> f.prefix, inputs |-> f.inputs, todo |-> f.todo]
  BY <1>2
<1>4. Pushed(walks, walks', walkCall, inputs)
  BY <1>1 DEF Pushed
<1> HIDE DEF f
<1>5. IsFrame(f)
  BY <1>2, <1>3 DEF IsFrame, GraphTypes, IsCall
<1>6. PICK v : v = walks'
  OBVIOUS
<1>7. /\ IsStack(v) /\ Len(walks) \in Nat /\ Len(v) = Len(walks) + 1 /\ v[Len(walks) + 1] = f
      /\ \A i \in 1 .. Len(walks) : v[i] = walks[i]
  BY <1>1, <1>6, StackFacts DEF GraphTypes
<1>8. \A i \in 1 .. Len(v) : i \in 1 .. Len(walks) \/ i = Len(walks) + 1
  BY <1>7
<1>9. \A i \in 1 .. Len(v) : IsFrame(v[i])
  BY <1>5, <1>7, <1>8 DEF GraphTypes
<1>10. QED
  BY <1>1, <1>4, <1>6, <1>7, <1>9

\* A repository is inspected once, and untracked files are problems.
LEMMA InspectFacts ==
  ASSUME GraphConstants, GraphTypes, walkCall # NoCall, Inspect
  PROVE  /\ DOMAIN definitions' = DOMAIN definitions \cup {walkCall.source}
         /\ \A x \in DOMAIN definitions : definitions'[x] = definitions[x]
         /\ walkCall.source \notin DOMAIN definitions =>
              /\ definitions'[walkCall.source] = live.inputs[walkCall.source]
              /\ walkCall.source \in live.untracked => walkCall.source \in problems'
         /\ \A x \in DOMAIN definitions' : IsInputs(definitions'[x])
         /\ problems \subseteq problems'
<1> DEFINE s == walkCall.source
<1>1. s \in Repos
  BY DEF GraphTypes, IsCall
<1>2. CASE s \in DOMAIN definitions
  <2>1. definitions' = definitions /\ problems' = problems
    BY <1>2 DEF Inspect
  <2>2. QED
    BY <1>2, <2>1 DEF GraphTypes
<1>3. CASE s \notin DOMAIN definitions
  <2> DEFINE new == live.inputs[s]
  <2>1. /\ definitions' = [x \in DOMAIN definitions \cup {s} |-> IF x = s THEN new ELSE definitions[x]]
        /\ problems' = problems \cup ({s} \cap live.untracked)
    BY <1>3 DEF Inspect, Put
  <2>2. IsInputs(new)
    BY <1>1, LiveFacts
  <2> HIDE DEF new, s
  <2>3. /\ DOMAIN definitions' = DOMAIN definitions \cup {s} /\ definitions'[s] = new
        /\ \A x \in DOMAIN definitions : definitions'[x] = definitions[x]
    BY <1>3, <2>1
  <2>4. \A x \in DOMAIN definitions' : IsInputs(definitions'[x])
    BY <2>2, <2>3 DEF GraphTypes
  <2>5. problems \subseteq problems' /\ (s \in live.untracked => s \in problems')
    BY <2>1
  <2>6. QED
    BY <2>3, <2>4, <2>5 DEF new, s
<1>4. QED
  BY <1>2, <1>3

\* The walks below remain.
LEMMA LeaveFacts ==
  ASSUME GraphTypes, walks # <<>>, walks' = Below
  PROVE  IsStack(walks') /\ \A i \in 1 .. Len(walks') : IsFrame(walks'[i])
<1>1. PICK v : v = walks'
  OBVIOUS
<1>2. v = SubSeq(walks, 1, Len(walks) - 1)
  BY <1>1 DEF Below
<1>3. /\ Len(walks) \in Nat /\ IsStack(v) /\ Len(v) = Len(walks) - 1
      /\ \A i \in 1 .. Len(walks) - 1 : v[i] = walks[i]
  BY <1>2, StackFacts DEF GraphTypes
<1>4. \A i \in 1 .. Len(v) : i \in 1 .. Len(walks) /\ v[i] = walks[i]
  BY <1>3
<1>5. \A i \in 1 .. Len(v) : IsFrame(v[i])
  BY <1>4 DEF GraphTypes
<1>6. QED
  BY <1>1, <1>3, <1>5

\* What is laid over inputs gives inputs.
LEMMA MergedCall ==
  ASSUME GraphTypes, walkCall # NoCall, NEW inputs, IsInputs(inputs)
  PROVE  IsInputs(Merge(inputs, walkCall.overlay))
BY MergeFacts DEF GraphTypes, IsCall

\* The call for the root.
LEMMA RootCall ==
  ASSUME GraphConstants
  PROVE  IsCall(Call(Root, NoInputs, <<>>)) /\ Call(Root, NoInputs, <<>>) # NoCall
<1>1. Root \in Repos /\ IsInputs(NoInputs) /\ <<>> \in Seq(Nat)
  BY NoInputsFacts DEF GraphConstants
<1>2. QED
  BY <1>1, RealCalls

\* A preflight begins.
LEMMA TypesInitially == ASSUME GraphConstants, GraphInit PROVE GraphTypes
<1>1. IsCall(walkCall)
  BY RootCall DEF GraphInit
<1>2. IsStack(walks) /\ Len(walks) = 0 /\ DOMAIN definitions = {} /\ DOMAIN sources = {}
  <2>1. <<>> \in Seq({}) /\ Len(<<>>) = 0 /\ DOMAIN <<>> = {}
    OBVIOUS
  <2>2. QED
    BY <2>1 DEF GraphInit, IsStack
<1>3. \A i \in 1 .. Len(walks) : IsFrame(walks[i])
  BY <1>2
<1>4. Captured(sources)
  BY <1>2 DEF Captured
<1>5. QED
  BY <1>1, <1>2, <1>3, <1>4 DEF GraphTypes, GraphInit, Phases

\* Every step keeps the types.
LEMMA TypesNext ==
  ASSUME GraphConstants, GraphTypes, [GraphNext]_graphVars PROVE GraphTypes'
<1> USE DEF Phases
<1>1. CASE Leave
  BY <1>1, LeaveFacts DEF Leave, Scan, Graph, GraphTypes
<1>2. CASE ScanWalk
  <2>1. CASE walkCall.source \in Ancestors \/ WalkedKey \in walked
    BY <1>2, <2>1 DEF ScanWalk, Scan, Graph, GraphTypes
  <2>2. CASE walkCall.source \notin Ancestors /\ WalkedKey \notin walked
    <3>1. /\ walkCall # NoCall /\ Inspect
          /\ Push(Merge(definitions'[walkCall.source], walkCall.overlay))
      BY <1>2, <2>2 DEF ScanWalk
    <3>2. IsInputs(definitions'[walkCall.source])
      BY <3>1, InspectFacts
    <3>3. IsInputs(Merge(definitions'[walkCall.source], walkCall.overlay))
      BY <3>1, <3>2, MergedCall
    <3>4. /\ walkCall' = NoCall /\ IsStack(walks')
          /\ \A i \in 1 .. Len(walks') : IsFrame(walks'[i])
      BY <3>1, <3>3, PushFacts
    <3>5. /\ DOMAIN definitions' \subseteq Repos
          /\ \A x \in DOMAIN definitions' : IsInputs(definitions'[x])
      BY <3>1, InspectFacts DEF GraphTypes, IsCall
    <3>6. UNCHANGED <<live, edits, phase, sources, overrides>>
      BY <1>2 DEF ScanWalk, Graph
    <3>7. QED
      BY <3>4, <3>5, <3>6 DEF GraphTypes
  <2>3. QED
    BY <2>1, <2>2
<1>3. CASE ScanEdge
  <2>1. /\ walks # <<>> /\ Top.todo # {} /\ Descend(Min(Top.todo))
        /\ UNCHANGED <<live, edits, phase, definitions, sources, overrides>>
    BY <1>3 DEF ScanEdge, Scan, Graph
  <2>2. Min(Top.todo) \in Top.todo
    BY <2>1, TopFacts, MinOfTodo
  <2>3. /\ IsStack(walks') /\ \A i \in 1 .. Len(walks') : IsFrame(walks'[i])
        /\ IsCall(walkCall')
    BY <2>1, <2>2, DescendFacts
  <2>4. QED
    BY <2>1, <2>3 DEF GraphTypes
<1>4. CASE ScanEnds
  <2>1. walkCall' = walkCall \/ IsCall(walkCall')
    BY <1>4, RootCall DEF ScanEnds
  <2>2. QED
    BY <1>4, <2>1 DEF ScanEnds, Scan, Graph, GraphTypes
<1>5. CASE BuildWalk
  <2>1. /\ phase = "build" /\ walkCall # NoCall /\ walkCall.source \in Repos
        /\ Capture(walkCall.source)
        /\ Push(Merge(sources'[walkCall.source].inputs, walkCall.overlay))
        /\ UNCHANGED <<live, edits, phase, definitions, overrides>>
    BY <1>5 DEF BuildWalk, Scan, GraphTypes, IsCall
  <2>2. Captured(sources') /\ IsInputs(sources'[walkCall.source].inputs)
    BY <2>1, CaptureFacts DEF Captured
  <2>3. IsInputs(Merge(sources'[walkCall.source].inputs, walkCall.overlay))
    BY <2>1, <2>2, MergedCall
  <2>4. /\ walkCall' = NoCall /\ IsStack(walks')
        /\ \A i \in 1 .. Len(walks') : IsFrame(walks'[i])
    BY <2>1, <2>3, PushFacts
  <2>5. QED
    BY <2>1, <2>2, <2>4 DEF GraphTypes
<1>6. CASE BuildEdge
  <2>1. /\ phase = "build" /\ walks # <<>> /\ Top.todo # {} /\ Descend(Min(Top.todo))
        /\ Capture(Top.inputs[<<Min(Top.todo)>>].url)
        /\ UNCHANGED <<live, edits, phase, definitions>>
    BY <1>6 DEF BuildEdge, Scan
  <2>2. Min(Top.todo) \in Top.todo
    BY <2>1, TopFacts, MinOfTodo
  <2>3. /\ IsStack(walks') /\ \A i \in 1 .. Len(walks') : IsFrame(walks'[i])
        /\ IsCall(walkCall')
    BY <2>1, <2>2, DescendFacts
  <2>4. Captured(sources')
    BY <2>1, <2>2, TopFacts, CaptureFacts
  <2>5. QED
    BY <2>1, <2>3, <2>4 DEF GraphTypes
<1>7. CASE BuildFails
  BY <1>7 DEF BuildFails, Scan, Graph, GraphTypes
<1>8. CASE LockBuild
  BY <1>8 DEF LockBuild, Scan, Graph, GraphTypes
<1>9. CASE Edit
  <2>1. edits' \in Nat /\ live' \in Worlds
    BY <1>9 DEF Edit, GraphTypes
  <2>2. QED
    BY <1>9, <2>1 DEF Edit, Scan, Graph, GraphTypes
<1>10. CASE UNCHANGED graphVars
  BY <1>10 DEF graphVars, Scan, Graph, GraphTypes
<1>11. QED
  BY <1>1, <1>2, <1>3, <1>4, <1>5, <1>6, <1>7, <1>8, <1>9, <1>10 DEF GraphNext

-----------------------------------------------------------------------------
(* BuildGraph: every edge is captured *)

NotBegun ==
  /\ DOMAIN sources = {} /\ overrides = {} /\ walks = <<>>
  /\ walkCall = Call(Root, NoInputs, <<>>)

BuildFits ==
  /\ phase = "build" => NotBegun \/ Built(sources, overrides, walks, walkCall)
  /\ phase = "locked" => Built(sources, overrides, <<>>, NoCall)

\* Every step keeps what is built right.
LEMMA BuildFitsNext ==
  ASSUME GraphConstants, GraphTypes, BuildFits, [GraphNext]_graphVars PROVE BuildFits'
<1>1. CASE Leave
  <2>1. /\ walkCall = NoCall /\ walks # <<>> /\ Top.todo = {}
        /\ walks' = SubSeq(walks, 1, Len(walks) - 1)
        /\ UNCHANGED <<phase, walkCall, sources, overrides>>
    BY <1>1 DEF Leave, Graph, Below
  <2>2. CASE phase = "build"
    <3>1. Built(sources, overrides, walks, NoCall)
      BY <2>1, <2>2 DEF BuildFits, NotBegun
    <3>2. IsStack(walks) /\ walks[Len(walks)].todo = {}
      BY <2>1 DEF GraphTypes, Top
    <3>3. Built(sources, overrides, SubSeq(walks, 1, Len(walks) - 1), NoCall)
      BY <2>1, <3>1, <3>2, BuiltLeaves
    <3>4. QED
      BY <2>1, <2>2, <3>3 DEF BuildFits
  <2>3. CASE phase # "build"
    BY <2>1, <2>3 DEF BuildFits
  <2>4. QED
    BY <2>2, <2>3
<1>2. CASE ScanWalk \/ ScanEdge
  BY <1>2 DEF ScanWalk, ScanEdge, BuildFits
<1>3. CASE ScanEnds
  <2>1. /\ walks' = <<>> /\ sources' = sources /\ overrides' = overrides
        /\ DOMAIN sources = {} /\ overrides = {}
        /\ \/ phase' = "build" /\ walkCall' = Call(Root, NoInputs, <<>>)
           \/ phase' = "refused"
    BY <1>3 DEF ScanEnds, Graph, GraphTypes
  <2>2. QED
    BY <2>1 DEF BuildFits, NotBegun
<1>4. CASE BuildWalk
  <2> DEFINE c == walkCall
  <2>1. /\ phase = "build" /\ c # NoCall /\ IsCall(c) /\ c.source \in Repos /\ IsStack(walks)
        /\ Capture(c.source) /\ Push(Merge(sources'[c.source].inputs, c.overlay))
        /\ phase' = phase /\ overrides' = overrides
    BY <1>4 DEF BuildWalk, GraphTypes, IsCall
  <2>2. PICK more : more = sources'
    OBVIOUS
  <2>3. /\ Captured(more) /\ DOMAIN more = DOMAIN sources \cup {c.source}
    BY <2>1, <2>2, CaptureFacts
  <2>4. Built(more, overrides, walks, c)
    <3>1. CASE NotBegun
      <4>1. c.source = Root /\ c = Call(Root, NoInputs, <<>>) /\ walks = <<>> /\ overrides = {}
        BY <3>1 DEF NotBegun, Call
      <4>2. DOMAIN more = {Root} /\ IsInputs(more[Root].inputs)
        BY <2>3, <3>1, <4>1 DEF NotBegun, Captured
      <4>3. Built(more, {}, <<>>, Call(Root, NoInputs, <<>>))
        BY <4>2, BuiltBegins
      <4>4. QED
        BY <4>1, <4>3
    <3>2. CASE Built(sources, overrides, walks, c)
      <4>1. /\ OverridesFit(sources, overrides) /\ c.prefix \in PlacesOf(overrides)
            /\ SourceIn(overrides, c.prefix) = c.source
        BY <2>1, <3>2 DEF Built, CallFits
      <4>2. c.source \in DOMAIN sources
        BY <4>1, PlaceFacts
      <4>3. more = sources
        BY <2>1, <2>2, <4>2 DEF Capture
      <4>4. QED
        BY <3>2, <4>3
    <3>3. QED
      BY <2>1, <3>1, <3>2 DEF BuildFits
  <2>5. IsInputs(Merge(more[c.source].inputs, c.overlay))
    BY <2>1, <2>3, MergedCall DEF Captured
  <2>6. Push(Merge(more[c.source].inputs, c.overlay))
    BY <2>1, <2>2
  <2> DEFINE inputs == Merge(more[c.source].inputs, c.overlay)
             f == [source |-> c.source, prefix |-> c.prefix, inputs |-> inputs,
                   todo |-> DirectInputs(inputs)]
  <2>7. walks' = Append(walks, f) /\ walkCall' = NoCall
    BY <2>6 DEF Push
  <2>8. inputs = Merge(more[c.source].inputs, c.overlay)
    OBVIOUS
  <2> HIDE DEF inputs
  <2>9. f = [source |-> c.source, prefix |-> c.prefix, inputs |-> inputs,
             todo |-> DirectInputs(inputs)]
    OBVIOUS
  <2> HIDE DEF f, c
  <2>10. Built(more, overrides, Append(walks, f), NoCall)
    BY <2>1, <2>4, <2>8, <2>9, BuiltWalks
  <2>11. QED
    BY <2>1, <2>2, <2>7, <2>10 DEF BuildFits
<1>5. CASE BuildEdge
  <2> DEFINE n == Min(Top.todo)
             f == walks[Len(walks)]
             child == f.inputs[<<n>>].url
  <2>1. /\ phase = "build" /\ walkCall = NoCall /\ walks # <<>> /\ Top = f /\ f.todo # {}
        /\ Capture(child) /\ Descend(n) /\ phase' = phase /\ IsStack(walks)
        /\ overrides' = overrides \cup {[edge |-> Append(f.prefix, n), source |-> child,
                                         version |-> sources'[child].version]}
    BY <1>5 DEF BuildEdge, Edge, GraphTypes, Top
  <2>2. n \in Top.todo /\ IsFrame(f) /\ child \in Repos
    BY <2>1, TopFacts, MinOfTodo
  <2>3. n \in f.todo
    BY <2>1, <2>2
  <2>4. /\ Takes(walks, walks', n)
        /\ walkCall' = Call(child, Nested(f.inputs, n), Append(f.prefix, n))
    <3> HIDE DEF n
    <3>1. QED
      BY <2>1, <2>2, DescendFacts DEF Top
  <2>5. Built(sources, overrides, walks, NoCall)
    BY <2>1, RootCall DEF BuildFits, NotBegun
  <2>6. PICK more, v, c, grown : more = sources' /\ v = walks' /\ c = walkCall' /\ grown = overrides'
    OBVIOUS
  <2>7. /\ Captured(more) /\ DOMAIN sources \subseteq DOMAIN more /\ child \in DOMAIN more
        /\ \A s \in DOMAIN sources : more[s] = sources[s]
    <3> HIDE DEF child
    <3>1. QED
      BY <2>1, <2>2, <2>6, CaptureFacts
  <2>8. PICK g : /\ IsFrame(g) /\ g.prefix = f.prefix /\ g.inputs = f.inputs
                 /\ g.todo = f.todo \ {n} /\ Replaced(walks, v, g)
    BY <2>4, <2>6 DEF Takes
  <2>9. f = walks[Len(walks)] /\ Follows(more, overrides, grown, f, n, child, c)
    BY <2>1, <2>4, <2>6 DEF Follows
  <2> HIDE DEF n, f, child
  <2>10. Built(more, grown, v, c)
    BY <2>1, <2>2, <2>3, <2>5, <2>7, <2>8, <2>9, BuiltTakes
  <2>11. QED
    BY <2>1, <2>6, <2>10 DEF BuildFits
<1>6. CASE BuildFails
  BY <1>6 DEF BuildFails, BuildFits
<1>7. CASE LockBuild
  <2>1. /\ phase = "build" /\ walkCall = NoCall /\ walks = <<>> /\ phase' = "locked"
        /\ sources' = sources /\ overrides' = overrides
    BY <1>7 DEF LockBuild, Graph
  <2>2. Built(sources, overrides, <<>>, NoCall)
    BY <2>1, RootCall DEF BuildFits, NotBegun
  <2>3. QED
    BY <2>1, <2>2 DEF BuildFits
<1>8. CASE Edit
  BY <1>8 DEF Edit, Graph, BuildFits, NotBegun
<1>9. CASE UNCHANGED graphVars
  BY <1>9 DEF graphVars, Scan, Graph, BuildFits, NotBegun
<1>10. QED
  BY <1>1, <1>2, <1>3, <1>4, <1>5, <1>6, <1>7, <1>8, <1>9 DEF GraphNext

\* Places and inputs of the state.
LEMMA PlacesAre == Places = PlacesOf(overrides) /\ InputsAt = AtOf(sources, overrides)
BY DEF Places, EdgesOf, PlacesOf, InputsAt, AtOf

\* What is said of an input has a name that was captured.
LEMMA DueNames ==
  ASSUME OverridesFit(sources, overrides), NEW p \in PlacesOf(overrides), NEW n \in Nat, NEW s,
         LeadsTo(Saying(AtOf(sources, overrides), p, <<n>>), s)
  PROVE  n \in CapturedNames
<1> DEFINE at == AtOf(sources, overrides)
<1>1. p \in Seq(Nat)
  BY PlaceFacts
<1>2. PICK i \in 0 .. Len(p) : \E path \in DOMAIN at[SubSeq(p, 1, i)] : path[Len(path)] = n
  BY <1>1, LeadsFromName, SMTT(30)
<1> DEFINE q == SubSeq(p, 1, i)
<1>3. q \in PlacesOf(overrides)
  BY DEF OverridesFit
<1>4. SourceIn(overrides, q) \in DOMAIN sources /\ at[q] = sources[SourceIn(overrides, q)].inputs
  <2> HIDE DEF q
  <2>1. QED
    BY <1>3, PlaceFacts
<1>5. \E path \in DOMAIN sources[SourceIn(overrides, q)].inputs : path[Len(path)] = n
  BY <1>2, <1>4
<1>6. QED
  BY <1>4, <1>5 DEF CapturedNames

\* Names of inputs are numbers.
LEMMA CapturedNamesAre == ASSUME Captured(sources) PROVE CapturedNames \subseteq Nat
<1>1. ASSUME NEW s \in DOMAIN sources, NEW path \in DOMAIN sources[s].inputs
      PROVE  path[Len(path)] \in Nat
  <2>1. path \in Seq(Nat) /\ path # <<>>
    BY DEF Captured, IsInputs
  <2>2. Len(path) \in Nat /\ Len(path) # 0
    BY <2>1, LenProperties, EmptySeq
  <2>3. Len(path) \in 1 .. Len(path)
    BY <2>2
  <2>4. QED
    BY <2>1, <2>3, ElementOfSeq
<1>2. QED
  BY <1>1 DEF CapturedNames

\* When nothing is to be done, the overrides are the edges due.
LEMMA BuiltIsExact ==
  ASSUME GraphConstants, Built(sources, overrides, <<>>, NoCall)
  PROVE  EveryEdgeIsCaptured
<1> DEFINE at == AtOf(sources, overrides)
           DueOf(p, n, s) == [edge |-> Append(p, n), source |-> s, version |-> sources[s].version]
<1>1. /\ OverridesFit(sources, overrides) /\ Captured(sources)
      /\ NothingMissed(sources, overrides, <<>>, NoCall)
  BY DEF Built, OverridesFit
<1>2. Places = PlacesOf(overrides) /\ InputsAt = at
  BY PlacesAre
<1>3. ASSUME NEW o \in overrides
      PROVE  \E p \in Places, n \in Nat :
               /\ o.edge = Append(p, n) /\ o.source \in DOMAIN sources /\ o.source \in Repos
               /\ o = DueOf(p, n, o.source) /\ LeadsTo(Saying(at, p, <<n>>), o.source)
               /\ p \in Seq(Nat)
  <2>1. PICK p \in PlacesOf(overrides), n \in Nat :
          /\ o.edge = Append(p, n) /\ o.source \in DOMAIN sources
          /\ o = [edge |-> o.edge, source |-> o.source, version |-> sources[o.source].version]
          /\ LeadsTo(Saying(at, p, <<n>>), o.source)
    BY <1>1 DEF OverridesFit, IsDue
  <2>2. p \in Seq(Nat) /\ o.source \in Repos
    BY <1>1, <2>1, PlaceFacts DEF Captured
  <2>3. o = DueOf(p, n, o.source)
    BY <2>1
  <2>4. QED
    BY <1>2, <2>1, <2>2, <2>3
<1>4. \A edge \in EdgesOf : edge # <<>> /\ SubSeq(edge, 1, Len(edge) - 1) \in Places
  <2>1. ASSUME NEW o \in overrides
        PROVE  o.edge # <<>> /\ SubSeq(o.edge, 1, Len(o.edge) - 1) \in Places
    <3>1. PICK p \in Places, n \in Nat : o.edge = Append(p, n) /\ p \in Seq(Nat)
      BY <1>3
    <3>2. QED
      BY <3>1, EdgeFacts DEF NonEmpty
  <2>2. QED
    BY <2>1 DEF EdgesOf
<1>5. \A o, other \in overrides : o.edge = other.edge => o = other
  BY <1>1 DEF OverridesFit
<1>6. ASSUME NEW o \in overrides
      PROVE  \E e \in EdgesDue : o = DueOf(e[1], e[2], e[3])
  <2>1. PICK p \in Places, n \in Nat :
          /\ o.source \in Repos /\ o = DueOf(p, n, o.source)
          /\ LeadsTo(Saying(at, p, <<n>>), o.source)
    BY <1>3
  <2>2. n \in CapturedNames
    BY <1>1, <1>2, <2>1, DueNames
  <2> DEFINE s == o.source
             e == <<p, n, s>>
  <2>3. e \in Places \X CapturedNames \X Repos /\ e[1] = p /\ e[2] = n /\ e[3] = s
    BY <2>1, <2>2
  <2>4. LeadsTo(Saying(InputsAt, e[1], <<e[2]>>), e[3])
    BY <1>2, <2>1, <2>3
  <2>5. e \in EdgesDue
    BY <2>3, <2>4 DEF EdgesDue
  <2>6. o = DueOf(e[1], e[2], e[3])
    BY <2>1, <2>3
  <2> HIDE DEF e
  <2>7. QED
    BY <2>5, <2>6
<1>7. ASSUME NEW e \in EdgesDue PROVE DueOf(e[1], e[2], e[3]) \in overrides
  <2>1. PICK p, n, s : /\ p = e[1] /\ n = e[2] /\ s = e[3] /\ p \in PlacesOf(overrides)
                       /\ n \in CapturedNames /\ s \in Repos /\ LeadsTo(Saying(at, p, <<n>>), s)
    BY <1>2 DEF EdgesDue
  <2>2. n \in Nat /\ p \in Seq(Nat)
    BY <1>1, <2>1, CapturedNamesAre, PlaceFacts
  <2>3. Append(p, n) \in PlacesOf(overrides)
    <3>1. 1 .. Len(<<>>) = {}
      OBVIOUS
    <3>2. ~Expected(<<>>, NoCall, p, n)
      BY <3>1 DEF Expected
    <3>3. QED
      BY <1>1, <2>1, <2>2, <3>2 DEF NothingMissed
  <2>4. Append(p, n) # <<>>
    BY <2>2, EdgeFacts DEF NonEmpty
  <2>5. PICK o \in overrides : o.edge = Append(p, n)
    BY <2>3, <2>4 DEF PlacesOf
  <2>6. PICK q \in Places, m \in Nat :
          /\ o.edge = Append(q, m) /\ o.source \in Repos /\ o = DueOf(q, m, o.source)
          /\ LeadsTo(Saying(at, q, <<m>>), o.source) /\ q \in Seq(Nat)
    BY <1>3
  <2>7. q = p /\ m = n
    <3>1. Append(p, n) = Append(q, m)
      BY <2>5, <2>6
    <3> HIDE DEF DueOf, at
    <3>2. QED
      BY <2>2, <2>6, <3>1, AppendInjective
  <2>8. s # NoUrl /\ o.source # NoUrl
    BY <2>1, <2>6 DEF GraphConstants
  <2>9. o.source = s
    <3> HIDE DEF at
    <3>1. QED
      BY <2>1, <2>2, <2>6, <2>7, <2>8, LeadsToOne
  <2>10. QED
    BY <2>1, <2>6, <2>7, <2>9
<1>8. overrides = {DueOf(e[1], e[2], e[3]) : e \in EdgesDue}
  <2> HIDE DEF DueOf
  <2>1. QED
    BY <1>6, <1>7
<1>9. QED
  BY <1>4, <1>5, <1>8 DEF EveryEdgeIsCaptured

\* Nothing is built yet.
LEMMA BuildFitsInitially == ASSUME GraphInit PROVE BuildFits
BY DEF GraphInit, BuildFits

-----------------------------------------------------------------------------
(* BuildGraph: what preflight has seen *)

\* What is walked: a repository, and what is laid over its inputs.
Key(c) == <<c.source, c.overlay>>
RootKey == <<Root, NoInputs>>
AllOf(world, key) == Merge(world.inputs[key[1]], key[2])
ChildOf(inputs, n) == <<inputs[<<n>>].url, Nested(inputs, n)>>
IsKey(key) == key = <<key[1], key[2]>> /\ key[1] \in Repos /\ IsInputs(key[2])

\* The root and all that walked repositories lead to.
ClosedUnder(world, keys) ==
  /\ RootKey \in keys
  /\ \A key \in keys : \A n \in DirectInputs(AllOf(world, key)) :
       ChildOf(AllOf(world, key), n) \in keys

\* It was walked, or will be by the call, or is still to be taken.
Awaited(keys, w, c, key) ==
  \/ key \in keys
  \/ c # NoCall /\ key = Key(c)
  \/ \E i \in 1 .. Len(w) : \E n \in w[i].todo : key = ChildOf(w[i].inputs, n)
AllAwaited(world, keys, w, c) ==
  /\ Awaited(keys, w, c, RootKey)
  /\ \A key \in keys : \A n \in DirectInputs(AllOf(world, key)) :
       Awaited(keys, w, c, ChildOf(AllOf(world, key), n))

\* What was inspected is what was walked, as it is defined.
Seen(world, keys, ds) ==
  /\ \A key \in keys : IsKey(key)
  /\ DOMAIN ds = {key[1] : key \in keys}
  /\ \A s \in DOMAIN ds : ds[s] = world.inputs[s]
FramesSeen(world, keys, w) ==
  \A i \in 1 .. Len(w) : \E key \in keys : w[i].inputs = AllOf(world, key)
\* Nothing is walked that the root does not lead to.
Reached(world, keys, c) ==
  \A S : ClosedUnder(world, S) => keys \subseteq S /\ (c # NoCall => Key(c) \in S)

\* After preflight: all is walked, nothing untracked, and the build keeps within it.
AllSeen ==
  /\ ClosedUnder(live, walked) /\ problems = {}
  /\ walkCall # NoCall => Key(walkCall) \in walked
  /\ DOMAIN sources \subseteq DOMAIN definitions

ScanFits ==
  edits = 0 =>
    /\ Seen(live, walked, definitions) /\ FramesSeen(live, walked, walks)
    /\ Reached(live, walked, walkCall)
    /\ DOMAIN definitions \cap live.untracked \subseteq problems
    /\ \A s \in DOMAIN sources : sources[s].inputs = live.inputs[s]
    /\ phase = "preflight" /\ problems = {} => AllAwaited(live, walked, walks, walkCall)
    /\ phase \notin {"preflight", "refused"} => AllSeen
    /\ phase # "untracked"

\* The new walk on top, the others below.
LEMMA PushedFacts ==
  ASSUME NEW w, IsStack(w), NEW v, NEW c, NEW inputs, Pushed(w, v, c, inputs)
  PROVE  /\ \A i \in 1 .. Len(w) : i \in 1 .. Len(v) /\ v[i] = w[i]
         /\ \A i \in 1 .. Len(v) : i \in 1 .. Len(w) \/ i = Len(w) + 1
         /\ Len(w) + 1 \in 1 .. Len(v) /\ v[Len(w) + 1].inputs = inputs
         /\ v[Len(w) + 1].todo = DirectInputs(inputs)
<1> DEFINE f == [source |-> c.source, prefix |-> c.prefix, inputs |-> inputs,
                 todo |-> DirectInputs(inputs)]
<1>1. v = Append(w, f)
  BY DEF Pushed
<1>2. f.inputs = inputs /\ f.todo = DirectInputs(inputs)
  OBVIOUS
<1> HIDE DEF f
<1>3. /\ Len(w) \in Nat /\ Len(v) = Len(w) + 1 /\ v[Len(w) + 1] = f
      /\ \A i \in 1 .. Len(w) : v[i] = w[i]
  BY <1>1, StackFacts
<1>4. /\ \A i \in 1 .. Len(w) : i \in 1 .. Len(v)
      /\ \A i \in 1 .. Len(v) : i \in 1 .. Len(w) \/ i = Len(w) + 1
      /\ Len(w) + 1 \in 1 .. Len(v)
  BY <1>3
<1>5. QED
  BY <1>2, <1>3, <1>4

\* The walk on top has one input less to take.
LEMMA TakesFacts ==
  ASSUME NEW w, IsStack(w), NEW v, NEW n, Takes(w, v, n)
  PROVE  /\ Len(v) = Len(w) /\ Len(w) \in 1 .. Len(w) /\ n \in w[Len(w)].todo
         /\ \A i \in 1 .. Len(w) : v[i].inputs = w[i].inputs
         /\ \A i \in 1 .. Len(w) : i # Len(w) => v[i].todo = w[i].todo
         /\ v[Len(w)].todo = w[Len(w)].todo \ {n}
<1>1. PICK g : /\ g.inputs = w[Len(w)].inputs /\ g.todo = w[Len(w)].todo \ {n}
               /\ Replaced(w, v, g)
  BY DEF Takes
<1>2. w # <<>> /\ n \in w[Len(w)].todo
  BY DEF Takes
<1>3. /\ Len(w) \in 1 .. Len(w) /\ Len(v) = Len(w) /\ v[Len(w)] = g
      /\ \A i \in 1 .. Len(w) : i # Len(w) => v[i] = w[i]
  BY <1>1, <1>2, TakeFacts
<1>4. QED
  BY <1>1, <1>2, <1>3

\* The others remain.
LEMMA LeftFacts ==
  ASSUME NEW w, IsStack(w), w # <<>>, NEW v, v = SubSeq(w, 1, Len(w) - 1)
  PROVE  /\ \A i \in 1 .. Len(v) : i \in 1 .. Len(w) /\ v[i] = w[i]
         /\ \A i \in 1 .. Len(w) : i \in 1 .. Len(v) \/ i = Len(w)
<1>1. /\ Len(w) \in Nat /\ Len(v) = Len(w) - 1
      /\ \A i \in 1 .. Len(w) - 1 : v[i] = w[i]
  BY StackFacts
<1>2. QED
  BY <1>1

\* The new walk goes over a walked key's inputs.
LEMMA FramesPushed ==
  ASSUME NEW world, NEW keys, NEW more, keys \subseteq more, NEW key \in more,
         NEW w, IsStack(w), FramesSeen(world, keys, w),
         NEW v, NEW c, NEW inputs, Pushed(w, v, c, inputs), inputs = AllOf(world, key)
  PROVE  FramesSeen(world, more, v)
BY PushedFacts DEF FramesSeen

\* Taking an input changes no inputs.
LEMMA FramesTaken ==
  ASSUME NEW world, NEW keys, NEW w, IsStack(w), FramesSeen(world, keys, w),
         NEW v, NEW n, Takes(w, v, n)
  PROVE  FramesSeen(world, keys, v)
BY TakesFacts DEF FramesSeen

\* The walks below keep their inputs.
LEMMA FramesLeft ==
  ASSUME NEW world, NEW keys, NEW w, IsStack(w), w # <<>>, FramesSeen(world, keys, w),
         NEW v, v = SubSeq(w, 1, Len(w) - 1)
  PROVE  FramesSeen(world, keys, v)
BY LeftFacts DEF FramesSeen

\* A walk begins: it will take all that its repository leads to.
LEMMA AwaitedPushed ==
  ASSUME NEW world, NEW keys, NEW w, IsStack(w), NEW c, c # NoCall,
         AllAwaited(world, keys, w, c), NEW v, NEW inputs, Pushed(w, v, c, inputs),
         inputs = AllOf(world, Key(c)), NEW more, more = keys \cup {Key(c)}
  PROVE  AllAwaited(world, more, v, NoCall)
<1>1. ASSUME NEW key, Awaited(keys, w, c, key) PROVE Awaited(more, v, NoCall, key)
  <2>1. CASE key \in keys \/ key = Key(c)
    BY <2>1 DEF Awaited
  <2>2. CASE \E i \in 1 .. Len(w) : \E n \in w[i].todo : key = ChildOf(w[i].inputs, n)
    BY <2>2, PushedFacts DEF Awaited
  <2>3. QED
    BY <1>1, <2>1, <2>2 DEF Awaited
<1>2. ASSUME NEW n \in DirectInputs(inputs) PROVE Awaited(more, v, NoCall, ChildOf(inputs, n))
  BY PushedFacts DEF Awaited
<1>3. \A key \in more : key \in keys \/ key = Key(c)
  OBVIOUS
<1>4. \A key \in more : \A n \in DirectInputs(AllOf(world, key)) :
        Awaited(more, v, NoCall, ChildOf(AllOf(world, key), n))
  BY <1>1, <1>2, <1>3 DEF AllAwaited
<1>5. QED
  BY <1>1, <1>4 DEF AllAwaited

\* A call returns at once for what was walked.
LEMMA AwaitedReturns ==
  ASSUME NEW world, NEW keys, NEW w, NEW c, AllAwaited(world, keys, w, c), Key(c) \in keys
  PROVE  AllAwaited(world, keys, w, NoCall)
<1>1. ASSUME NEW key, Awaited(keys, w, c, key) PROVE Awaited(keys, w, NoCall, key)
  BY <1>1 DEF Awaited
<1>2. QED
  BY <1>1 DEF AllAwaited

\* An input taken is what the call goes to.
LEMMA AwaitedTaken ==
  ASSUME NEW world, NEW keys, NEW w, IsStack(w), AllAwaited(world, keys, w, NoCall),
         NEW v, NEW n, Takes(w, v, n), NEW c, c # NoCall, Key(c) = ChildOf(w[Len(w)].inputs, n)
  PROVE  AllAwaited(world, keys, v, c)
<1>1. ASSUME NEW key, Awaited(keys, w, NoCall, key) PROVE Awaited(keys, v, c, key)
  <2>1. CASE key \in keys
    BY <2>1 DEF Awaited
  <2>2. ASSUME NEW i \in 1 .. Len(w), NEW m \in w[i].todo, key = ChildOf(w[i].inputs, m)
        PROVE  Awaited(keys, v, c, key)
    <3>1. CASE i = Len(w) /\ m = n
      BY <2>2, <3>1 DEF Awaited
    <3>2. CASE ~(i = Len(w) /\ m = n)
      <4>1. i \in 1 .. Len(v) /\ m \in v[i].todo /\ v[i].inputs = w[i].inputs
        BY <3>2, TakesFacts
      <4>2. QED
        BY <2>2, <4>1 DEF Awaited
    <3>3. QED
      BY <3>1, <3>2
  <2>3. QED
    BY <1>1, <2>1, <2>2 DEF Awaited
<1>2. QED
  BY <1>1 DEF AllAwaited

\* A walk that ends has nothing left to take.
LEMMA AwaitedLeft ==
  ASSUME NEW world, NEW keys, NEW w, IsStack(w), w # <<>>, w[Len(w)].todo = {},
         AllAwaited(world, keys, w, NoCall), NEW v, v = SubSeq(w, 1, Len(w) - 1)
  PROVE  AllAwaited(world, keys, v, NoCall)
<1>1. ASSUME NEW key, Awaited(keys, w, NoCall, key) PROVE Awaited(keys, v, NoCall, key)
  <2>1. CASE key \in keys
    BY <2>1 DEF Awaited
  <2>2. CASE \E i \in 1 .. Len(w) : \E m \in w[i].todo : key = ChildOf(w[i].inputs, m)
    BY <2>2, LeftFacts DEF Awaited
  <2>3. QED
    BY <1>1, <2>1, <2>2 DEF Awaited
<1>2. QED
  BY <1>1 DEF AllAwaited

\* Nothing left to take: all is walked.
LEMMA AwaitedEnds ==
  ASSUME NEW world, NEW keys, AllAwaited(world, keys, <<>>, NoCall)
  PROVE  ClosedUnder(world, keys)
<1>1. 1 .. Len(<<>>) = {}
  OBVIOUS
<1>2. \A key : Awaited(keys, <<>>, NoCall, key) => key \in keys
  BY <1>1 DEF Awaited
<1>3. QED
  BY <1>2 DEF AllAwaited, ClosedUnder

\* What the walk on top goes to next is one of the keys.
LEMMA ChildSeen ==
  ASSUME GraphTypes, FramesSeen(live, walked, walks), NEW S, ClosedUnder(live, S), walked \subseteq S,
         walks # <<>>, NEW n \in Top.todo
  PROVE  ChildOf(Top.inputs, n) \in S
<1>1. n \in DirectInputs(Top.inputs) /\ Len(walks) \in 1 .. Len(walks)
  BY TopFacts
<1>2. PICK key \in walked : Top.inputs = AllOf(live, key)
  BY <1>1 DEF FramesSeen, Top
<1>3. QED
  BY <1>1, <1>2 DEF ClosedUnder

\* Keys of calls.
LEMMA KeyFacts ==
  /\ Key(Call(Root, NoInputs, <<>>)) = RootKey
  /\ \A source, overlay, prefix : Key(Call(source, overlay, prefix)) = <<source, overlay>>
  /\ \A c : Key(c)[1] = c.source /\ Key(c)[2] = c.overlay
BY DEF Key, Call, RootKey

\* Nothing is seen yet.
LEMMA ScanFitsInitially == ASSUME GraphConstants, GraphInit PROVE ScanFits
<1>1. /\ walked = {} /\ DOMAIN definitions = {} /\ DOMAIN sources = {} /\ walks = <<>>
      /\ walkCall # NoCall /\ Key(walkCall) = RootKey /\ phase = "preflight"
  <2>1. DOMAIN <<>> = {}
    OBVIOUS
  <2>2. QED
    BY <2>1, RootCall, KeyFacts DEF GraphInit
<1>2. 1 .. Len(walks) = {}
  BY <1>1
<1>3. Seen(live, walked, definitions) /\ FramesSeen(live, walked, walks)
  BY <1>1, <1>2 DEF Seen, FramesSeen
<1>4. Reached(live, walked, walkCall)
  BY <1>1 DEF Reached, ClosedUnder
<1>5. AllAwaited(live, walked, walks, walkCall)
  BY <1>1 DEF AllAwaited, Awaited
<1>6. QED
  BY <1>1, <1>3, <1>4, <1>5 DEF ScanFits

\* Every step keeps what preflight has seen right.
LEMMA ScanFitsNext ==
  ASSUME GraphConstants, GraphTypes, ScanFits, [GraphNext]_graphVars PROVE ScanFits'
<1> SUFFICES ASSUME edits' = 0 PROVE ScanFits'
  BY DEF ScanFits
<1>1. CASE Edit
  BY <1>1 DEF Edit, GraphTypes
<1>2. SUFFICES ASSUME ~Edit PROVE ScanFits'
  BY <1>1
<1>3. edits = 0 /\ live' = live /\ IsStack(walks)
  BY <1>2 DEF GraphNext, graphVars, Leave, ScanWalk, ScanEdge, ScanEnds, BuildWalk, BuildEdge,
              BuildFails, LockBuild, GraphTypes
<1>4. /\ Seen(live, walked, definitions) /\ FramesSeen(live, walked, walks)
      /\ Reached(live, walked, walkCall)
      /\ DOMAIN definitions \cap live.untracked \subseteq problems
      /\ \A s \in DOMAIN sources : sources[s].inputs = live.inputs[s]
      /\ phase = "preflight" /\ problems = {} => AllAwaited(live, walked, walks, walkCall)
      /\ phase \notin {"preflight", "refused"} => AllSeen
      /\ phase # "untracked"
  BY <1>3 DEF ScanFits
<1>5. PICK v : v = walks'
  OBVIOUS
<1>6. Reached(live, walked, NoCall)
  BY <1>4 DEF Reached
<1>7. CASE Leave
  <2>1. /\ walkCall = NoCall /\ walks # <<>> /\ walks[Len(walks)].todo = {}
        /\ v = SubSeq(walks, 1, Len(walks) - 1)
        /\ UNCHANGED <<phase, walkCall, definitions, walked, problems, sources, overrides>>
    BY <1>5, <1>7 DEF Leave, Scan, Graph, Below, Top
  <2>2. FramesSeen(live, walked, v)
    BY <1>3, <1>4, <2>1, FramesLeft
  <2>3. AllAwaited(live, walked, walks, walkCall) => AllAwaited(live, walked, v, walkCall)
    BY <1>3, <2>1, AwaitedLeft
  <2>4. QED
    BY <1>3, <1>4, <1>5, <2>1, <2>2, <2>3 DEF ScanFits, AllSeen
<1>8. CASE ScanWalk
  <2>1. /\ phase = "preflight" /\ phase' = phase /\ sources' = sources /\ overrides' = overrides
        /\ walkCall # NoCall /\ IsCall(walkCall) /\ walkCall' = NoCall
    BY <1>8 DEF ScanWalk, Graph, Push, GraphTypes
  <2>2. CASE walkCall.source \in Ancestors
    <3>1. /\ problems' = problems \cup {"cycle"} /\ problems' # {}
          /\ UNCHANGED <<walks, definitions, walked>>
      BY <1>8, <2>2 DEF ScanWalk
    <3>2. QED
      BY <1>3, <1>4, <1>6, <2>1, <3>1 DEF ScanFits
  <2>3. CASE walkCall.source \notin Ancestors /\ WalkedKey \in walked
    <3>1. UNCHANGED <<walks, definitions, walked, problems>>
      BY <1>8, <2>3 DEF ScanWalk, Scan
    <3>2. Key(walkCall) \in walked
      BY <2>3 DEF WalkedKey, Key
    <3>3. problems = {} => AllAwaited(live, walked, walks, NoCall)
      BY <1>4, <2>1, <3>2, AwaitedReturns
    <3>4. QED
      BY <1>3, <1>4, <1>6, <2>1, <3>1, <3>3 DEF ScanFits
  <2>4. CASE walkCall.source \notin Ancestors /\ WalkedKey \notin walked
    <3> DEFINE key == Key(walkCall)
               s == walkCall.source
    <3>1. /\ walked' = walked \cup {key} /\ Inspect
          /\ Push(Merge(definitions'[s], walkCall.overlay))
      BY <1>8, <2>4 DEF ScanWalk, WalkedKey, Key
    <3>2. /\ DOMAIN definitions' = DOMAIN definitions \cup {s}
          /\ \A x \in DOMAIN definitions : definitions'[x] = definitions[x]
          /\ s \notin DOMAIN definitions =>
               definitions'[s] = live.inputs[s] /\ (s \in live.untracked => s \in problems')
          /\ problems \subseteq problems'
      BY <2>1, <3>1, InspectFacts
    <3>3. key[1] = s /\ key[2] = walkCall.overlay /\ IsKey(key)
      BY <2>1, KeyFacts DEF IsKey, IsCall, Key
    <3>4. Seen(live, walked', definitions')
      BY <1>4, <3>1, <3>2, <3>3 DEF Seen
    <3>5. Merge(definitions'[s], walkCall.overlay) = AllOf(live, key)
      <4>1. definitions'[s] = live.inputs[s]
        BY <3>2, <3>4 DEF Seen
      <4>2. QED
        BY <3>3, <4>1 DEF AllOf
    <3>6. Pushed(walks, v, walkCall, AllOf(live, key))
      <4>1. Push(AllOf(live, key))
        BY <3>1, <3>5
      <4>2. QED
        BY <1>5, <4>1 DEF Push, Pushed
    <3>7. PICK inputs, more : inputs = AllOf(live, key) /\ more = walked'
      OBVIOUS
    <3> HIDE DEF key
    <3>8. FramesSeen(live, more, v)
      <4>1. key \in more /\ walked \subseteq more /\ Pushed(walks, v, walkCall, inputs)
        BY <3>1, <3>6, <3>7
      <4>2. QED
        BY <1>3, <1>4, <3>7, <4>1, FramesPushed
    <3>9. problems' = {} => AllAwaited(live, more, v, NoCall)
      <4>1. more = walked \cup {Key(walkCall)} /\ inputs = AllOf(live, Key(walkCall))
            /\ Pushed(walks, v, walkCall, inputs)
        BY <3>1, <3>6, <3>7 DEF key
      <4>2. ASSUME problems' = {} PROVE AllAwaited(live, walked, walks, walkCall)
        BY <1>4, <2>1, <3>2, <4>2
      <4>3. QED
        BY <1>3, <2>1, <4>1, <4>2, AwaitedPushed
    <3>10. Reached(live, more, NoCall)
      BY <1>4, <2>1, <3>1, <3>7 DEF Reached, key
    <3>11. DOMAIN definitions' \cap live.untracked \subseteq problems'
      BY <1>4, <3>2
    <3>12. QED
      BY <1>3, <1>4, <1>5, <2>1, <3>4, <3>7, <3>8, <3>9, <3>10, <3>11 DEF ScanFits
  <2>5. QED
    BY <2>2, <2>3, <2>4
<1>9. CASE ScanEdge \/ BuildEdge
  <2> DEFINE n == Min(Top.todo)
             child == Top.inputs[<<n>>].url
  <2>1. /\ walkCall = NoCall /\ walks # <<>> /\ Top.todo # {} /\ Descend(n)
        /\ UNCHANGED <<phase, definitions, walked, problems>>
    BY <1>9 DEF ScanEdge, BuildEdge, Scan
  <2>2. n \in Top.todo /\ child \in Repos
    BY <2>1, TopFacts, MinOfTodo
  <2>3. /\ Takes(walks, v, n) /\ walkCall' # NoCall
        /\ walkCall' = Call(child, Nested(Top.inputs, n), Append(Top.prefix, n))
    <3> HIDE DEF n
    <3>1. QED
      BY <1>5, <2>1, <2>2, DescendFacts
  <2>4. Key(walkCall') = ChildOf(Top.inputs, n)
    BY <2>3, KeyFacts DEF ChildOf
  <2> HIDE DEF n
  <2>5. FramesSeen(live, walked, v)
    BY <1>3, <1>4, <2>3, FramesTaken
  <2>6. PICK c : c = walkCall'
    OBVIOUS
  <2>7. Reached(live, walked, c)
    <3>1. ASSUME NEW S, ClosedUnder(live, S) PROVE walked \subseteq S /\ Key(c) \in S
      <4>1. walked \subseteq S
        BY <1>6, <3>1 DEF Reached
      <4>2. QED
        BY <1>4, <2>1, <2>2, <2>4, <2>6, <3>1, <4>1, ChildSeen
    <3>2. QED
      BY <3>1 DEF Reached
  <2>8. phase = "preflight" /\ problems = {} => AllAwaited(live, walked, v, c)
    <3>1. Key(c) = ChildOf(walks[Len(walks)].inputs, n) /\ c # NoCall
      BY <2>3, <2>4, <2>6 DEF Top
    <3>2. QED
      BY <1>3, <1>4, <2>1, <2>3, <3>1, AwaitedTaken
  <2>9. CASE ScanEdge
    <3>1. phase = "preflight" /\ sources' = sources
      BY <2>9 DEF ScanEdge, Graph
    <3>2. QED
      BY <1>3, <1>4, <1>5, <2>1, <2>5, <2>6, <2>7, <2>8, <3>1 DEF ScanFits
  <2>10. CASE BuildEdge
    <3>1. phase = "build" /\ Capture(child)
      BY <2>10 DEF BuildEdge, n
    <3>2. Key(c) \in walked
      BY <1>4, <2>1, <2>2, <2>4, <2>6, <3>1, ChildSeen DEF AllSeen
    <3>3. child \in DOMAIN definitions
      <4>1. Key(c)[1] = child
        BY <2>3, <2>6, KeyFacts
      <4>2. QED
        BY <1>4, <3>2, <4>1 DEF Seen
    <3> HIDE DEF child
    <3>4. /\ DOMAIN sources' = DOMAIN sources \cup {child}
          /\ \A s \in DOMAIN sources' : sources'[s].inputs = live.inputs[s]
      BY <1>4, <2>2, <3>1, CaptureFacts
    <3>5. AllSeen'
      BY <1>3, <1>4, <2>1, <2>6, <3>1, <3>2, <3>3, <3>4 DEF AllSeen
    <3>6. QED
      BY <1>3, <1>4, <1>5, <2>1, <2>5, <2>6, <2>7, <3>1, <3>4, <3>5 DEF ScanFits
  <2>11. QED
    BY <1>9, <2>9, <2>10
<1>10. CASE ScanEnds
  <2>1. /\ phase = "preflight" /\ walkCall = NoCall /\ walks = <<>>
        /\ UNCHANGED <<walks, definitions, walked, problems, sources, overrides>>
    BY <1>10 DEF ScanEnds, Scan, Graph
  <2>2. CASE problems = {}
    <3>1. phase' = "build" /\ walkCall' = Call(Root, NoInputs, <<>>)
      BY <1>10, <2>2 DEF ScanEnds
    <3>2. walkCall' # NoCall /\ Key(walkCall') = RootKey
      BY <3>1, RootCall, KeyFacts
    <3>3. ClosedUnder(live, walked)
      BY <1>4, <2>1, <2>2, AwaitedEnds
    <3>4. PICK c : c = walkCall'
      OBVIOUS
    <3>5. Reached(live, walked, c)
      BY <1>6, <3>2, <3>4 DEF Reached, ClosedUnder
    <3>6. DOMAIN sources = {}
      BY <2>1 DEF GraphTypes
    <3>7. AllSeen'
      BY <1>3, <2>1, <2>2, <3>2, <3>3, <3>6 DEF AllSeen, ClosedUnder
    <3>8. QED
      BY <1>3, <1>4, <2>1, <3>1, <3>4, <3>5, <3>7 DEF ScanFits
  <2>3. CASE problems # {}
    <3>1. phase' = "refused" /\ walkCall' = walkCall
      BY <1>10, <2>3 DEF ScanEnds
    <3>2. QED
      BY <1>3, <1>4, <2>1, <3>1 DEF ScanFits
  <2>4. QED
    BY <2>2, <2>3
<1>11. CASE BuildWalk
  <2> DEFINE c == walkCall
             key == Key(c)
             s == c.source
  <2>1. /\ phase = "build" /\ c # NoCall /\ s \in Repos
        /\ Capture(s) /\ Push(Merge(sources'[s].inputs, c.overlay))
        /\ UNCHANGED <<phase, definitions, walked, problems, overrides>>
    BY <1>11 DEF BuildWalk, Scan, GraphTypes, IsCall
  <2>2. key \in walked /\ key[1] = s /\ key[2] = c.overlay
    BY <1>4, <2>1, KeyFacts DEF AllSeen
  <2>3. s \in DOMAIN definitions
    BY <1>4, <2>2 DEF Seen
  <2>4. /\ DOMAIN sources' = DOMAIN sources \cup {s}
        /\ \A x \in DOMAIN sources' : sources'[x].inputs = live.inputs[x]
    BY <1>4, <2>1, CaptureFacts
  <2>5. Merge(sources'[s].inputs, c.overlay) = AllOf(live, key)
    BY <2>2, <2>4 DEF AllOf
  <2>6. Push(AllOf(live, key))
    BY <2>1, <2>5
  <2>7. PICK inputs : inputs = AllOf(live, key)
    OBVIOUS
  <2>8. Pushed(walks, v, c, inputs) /\ walkCall' = NoCall
    BY <1>5, <2>6, <2>7 DEF Push, Pushed
  <2> HIDE DEF key, c
  <2>9. FramesSeen(live, walked, v)
    BY <1>3, <1>4, <2>2, <2>7, <2>8, FramesPushed
  <2>10. AllSeen'
    BY <1>3, <1>4, <2>1, <2>3, <2>4, <2>8 DEF AllSeen
  <2>11. QED
    BY <1>3, <1>4, <1>5, <1>6, <2>1, <2>4, <2>8, <2>9, <2>10 DEF ScanFits
<1>12. CASE BuildFails
  <2>1. /\ phase = "build" /\ Stuck
        /\ phase' = IF walkCall # NoCall /\ walkCall.source \in Ancestors THEN "cycle" ELSE "untracked"
        /\ UNCHANGED <<walkCall, walks, definitions, walked, problems, sources, overrides>>
    BY <1>12 DEF BuildFails, Scan, Graph
  <2>2. AllSeen
    BY <1>4, <2>1
  <2>3. \A key \in walked : key[1] \notin live.untracked
    BY <1>4, <2>2 DEF AllSeen, Seen
  <2>4. walkCall # NoCall => walkCall.source \notin live.untracked
    BY <2>2, <2>3, KeyFacts DEF AllSeen
  <2>5. ASSUME walks # <<>>, Top.todo # {}
        PROVE  Top.inputs[<<Min(Top.todo)>>].url \notin live.untracked
    <3>1. Min(Top.todo) \in Top.todo
      BY <2>5, TopFacts, MinOfTodo
    <3>2. ChildOf(Top.inputs, Min(Top.todo)) \in walked
      BY <1>4, <2>2, <2>5, <3>1, ChildSeen DEF AllSeen
    <3>3. QED
      BY <2>3, <3>2 DEF ChildOf
  <2>6. phase' = "cycle"
    BY <2>1, <2>4, <2>5 DEF Stuck
  <2>7. QED
    BY <1>3, <1>4, <2>1, <2>6 DEF ScanFits, AllSeen
<1>13. CASE LockBuild
  BY <1>3, <1>4, <1>13 DEF LockBuild, Scan, Graph, ScanFits, AllSeen
<1>14. CASE UNCHANGED graphVars
  BY <1>3, <1>4, <1>14 DEF graphVars, Scan, Graph, ScanFits, AllSeen
<1>15. QED
  BY <1>2, <1>7, <1>8, <1>9, <1>10, <1>11, <1>12, <1>13, <1>14 DEF GraphNext

\* An edge that is due leads to a place.
LEMMA DueIsPlace ==
  ASSUME GraphConstants, phase = "locked", Built(sources, overrides, <<>>, NoCall),
         NEW p \in PlacesOf(overrides), NEW n \in Nat, NEW s \in Repos,
         LeadsTo(Saying(AtOf(sources, overrides), p, <<n>>), s)
  PROVE  Append(p, n) \in PlacesOf(overrides) /\ SourceIn(overrides, Append(p, n)) = s
<1> DEFINE o == [edge |-> Append(p, n), source |-> s, version |-> sources[s].version]
           e == <<p, n, s>>
<1>1. OverridesFit(sources, overrides) /\ EveryEdgeIsCaptured
  BY BuiltIsExact DEF Built
<1>2. e \in EdgesDue /\ e[1] = p /\ e[2] = n /\ e[3] = s
  <2>1. n \in CapturedNames
    BY <1>1, DueNames
  <2>2. e \in Places \X CapturedNames \X Repos /\ e[1] = p /\ e[2] = n /\ e[3] = s
    BY <2>1, PlacesAre
  <2>3. LeadsTo(Saying(InputsAt, e[1], <<e[2]>>), e[3])
    BY <2>2, PlacesAre
  <2>4. QED
    BY <2>2, <2>3 DEF EdgesDue
<1> HIDE DEF e
<1>3. o \in overrides
  BY <1>1, <1>2 DEF EveryEdgeIsCaptured
<1>4. o.edge = Append(p, n) /\ o.source = s
  OBVIOUS
<1> HIDE DEF o
<1>5. p \in Seq(Nat)
  BY <1>1, PlaceFacts
<1>6. o.edge # <<>>
  BY <1>4, <1>5, EdgeFacts DEF NonEmpty
<1>7. SourceIn(overrides, o.edge) = o.source
  BY <1>1, <1>3, <1>6, SourceInFacts DEF OverridesFit
<1>8. QED
  BY <1>3, <1>4, <1>7 DEF PlacesOf

\* The walks that have a place.
Placed == {key \in walked : \E p \in PlacesOf(overrides) :
             /\ SourceIn(overrides, p) = key[1]
             /\ Stands(AtOf(sources, overrides), p, key[2], Len(p) - 1)}

\* What has a place leads only to what has one.
LEMMA PlacedIsClosed ==
  ASSUME GraphConstants, phase = "locked", Built(sources, overrides, <<>>, NoCall),
         ClosedUnder(live, walked), \A key \in walked : IsKey(key),
         \A s \in DOMAIN sources : sources[s].inputs = live.inputs[s]
  PROVE  ClosedUnder(live, Placed)
<1> DEFINE at == AtOf(sources, overrides)
<1>1. OverridesFit(sources, overrides)
  BY DEF Built
<1>2. RootKey \in Placed
  <2>1. Stands(at, <<>>, NoInputs, Len(<<>>) - 1)
    <3>1. Len(<<>>) - 1 = 0 - 1
      OBVIOUS
    <3> HIDE DEF at
    <3>2. Stands(at, <<>>, NoInputs, 0 - 1)
      BY StandsEmpty
    <3>3. QED
      BY <3>1, <3>2
  <2>2. <<>> \in PlacesOf(overrides) /\ SourceIn(overrides, <<>>) = Root
    BY DEF PlacesOf, SourceIn
  <2>3. RootKey \in walked /\ RootKey[1] = Root /\ RootKey[2] = NoInputs
    BY DEF ClosedUnder, RootKey
  <2>4. QED
    BY <2>1, <2>2, <2>3 DEF Placed
<1>3. ASSUME NEW key \in Placed, NEW n \in DirectInputs(AllOf(live, key))
      PROVE  ChildOf(AllOf(live, key), n) \in Placed
  <2> DEFINE inputs == AllOf(live, key)
             s == inputs[<<n>>].url
  <2>1. key \in walked /\ IsInputs(key[2])
    BY DEF Placed, IsKey
  <2>2. PICK p \in PlacesOf(overrides) :
          SourceIn(overrides, p) = key[1] /\ Stands(at, p, key[2], Len(p) - 1)
    BY DEF Placed
  <2>3. /\ p \in Seq(Nat) /\ key[1] \in DOMAIN sources /\ at[p] = live.inputs[key[1]]
        /\ IsInputs(at[p])
    BY <1>1, <2>2, PlaceFacts
  <2>4. inputs = Merge(at[p], key[2])
    BY <2>3 DEF AllOf
  <2>5. Stands(at, p, Merge(at[p], key[2]), Len(p))
    <3> HIDE DEF at
    <3>1. QED
      BY <2>1, <2>2, <2>3, StandsMerge
  <2>6. IsInputs(Merge(at[p], key[2]))
    <3>1. PICK t : t = at[p]
      OBVIOUS
    <3>2. IsInputs(Merge(t, key[2]))
      BY <2>1, <2>3, <3>1, MergeFacts
    <3>3. QED
      BY <3>1, <3>2
  <2>7. ChildOf(inputs, n) \in walked
    BY <2>1 DEF ClosedUnder
  <2>8. n \in DirectInputs(inputs) /\ IsInputs(inputs) /\ Stands(at, p, inputs, Len(p))
    BY <2>4, <2>5, <2>6
  <2>9. ChildOf(inputs, n)[1] = s /\ ChildOf(inputs, n)[2] = Nested(inputs, n)
    BY DEF ChildOf
  <2> HIDE DEF inputs, at
  <2>10. n \in Nat /\ s \in Repos
    BY <2>8, DirectFacts
  <2>11. LeadsTo(Saying(at, p, <<n>>), s)
    BY <2>3, <2>8, <2>10, StandsLeads
  <2>12. Append(p, n) \in PlacesOf(overrides) /\ SourceIn(overrides, Append(p, n)) = s
    <3> HIDE DEF s
    <3>1. QED
      BY <2>2, <2>10, <2>11, DueIsPlace DEF at
  <2>13. Stands(at, Append(p, n), Nested(inputs, n), Len(p))
    BY <2>3, <2>8, <2>10, StandsNested
  <2>14. Len(Append(p, n)) - 1 = Len(p)
    <3>1. Len(Append(p, n)) = Len(p) + 1 /\ Len(p) \in Nat
      BY <2>3, <2>10, EdgeFacts, PathFacts
    <3>2. QED
      BY <3>1
  <2>15. Stands(at, Append(p, n), Nested(inputs, n), Len(Append(p, n)) - 1)
    BY <2>13, <2>14
  <2>16. ChildOf(inputs, n) \in Placed
    BY <2>7, <2>9, <2>12, <2>15 DEF Placed, at
  <2>17. QED
    BY <2>16 DEF inputs
<1>4. QED
  BY <1>2, <1>3 DEF ClosedUnder

\* Preflight has listed what is captured: all it walked has a place.
LEMMA PreflightIsExact ==
  ASSUME GraphConstants, GraphTypes, BuildFits, ScanFits
  PROVE  PreflightSeesAll
<1> SUFFICES ASSUME edits = 0
             PROVE  /\ phase # "untracked" /\ DOMAIN sources \subseteq DOMAIN definitions
                    /\ phase = "locked" => DOMAIN sources = DOMAIN definitions
  BY DEF PreflightSeesAll
<1>1. phase # "untracked"
  BY DEF ScanFits
<1>2. DOMAIN sources \subseteq DOMAIN definitions
  BY DEF ScanFits, AllSeen, GraphTypes
<1>3. ASSUME phase = "locked", NEW s \in DOMAIN definitions PROVE s \in DOMAIN sources
  <2>1. Built(sources, overrides, <<>>, NoCall)
    BY <1>3 DEF BuildFits
  <2>2. /\ ClosedUnder(live, walked) /\ Seen(live, walked, definitions)
        /\ Reached(live, walked, walkCall)
        /\ \A x \in DOMAIN sources : sources[x].inputs = live.inputs[x]
    BY <1>3 DEF ScanFits, AllSeen
  <2>3. ClosedUnder(live, Placed)
    BY <1>3, <2>1, <2>2, PlacedIsClosed DEF Seen
  <2>4. PICK key \in walked : key[1] = s
    BY <1>3, <2>2 DEF Seen
  <2>5. key \in Placed
    BY <2>2, <2>3, <2>4 DEF Reached
  <2>6. PICK p \in PlacesOf(overrides) : SourceIn(overrides, p) = s
    BY <2>4, <2>5 DEF Placed
  <2>7. QED
    BY <2>1, <2>6, PlaceFacts DEF Built
<1>4. QED
  BY <1>1, <1>2, <1>3

\* What a build locks has an override for every local edge and none but these, each
\* repository in one version; and without edits it captures exactly the repositories
\* preflight listed, and meets no untracked file.
THEOREM GraphTheorem == GraphSpec => []GraphIsExact
<1> DEFINE Inv == GraphTypes /\ BuildFits /\ ScanFits
<1>1. GraphInit => Inv
  BY GraphConstants, TypesInitially, BuildFitsInitially, ScanFitsInitially
<1>2. Inv /\ [GraphNext]_graphVars => Inv'
  BY GraphConstants, TypesNext, BuildFitsNext, ScanFitsNext
<1>3. Inv => GraphIsExact
  <2>1. CASE phase = "locked"
    BY <2>1, GraphConstants, BuiltIsExact, PreflightIsExact DEF BuildFits, GraphIsExact
  <2>2. CASE phase # "locked"
    BY <2>2, GraphConstants, PreflightIsExact DEF GraphIsExact, EveryEdgeIsCaptured
  <2>3. QED
    BY <2>1, <2>2
<1>4. QED
  BY <1>1, <1>2, <1>3, PTL DEF GraphSpec
=============================================================================
