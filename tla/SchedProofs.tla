----------------------------- MODULE SchedProofs -----------------------------
(***************************************************************************)
(* Proofs about the scheduler: its list never closes to a cycle, and it is *)
(* a round robin until the current process is removed.  The inductive      *)
(* invariant SInv says what the links look like in memory: the list is     *)
(* some sequence s of processes, each linked to the next one, and every    *)
(* link, those of removed processes too, leads to a process of a higher    *)
(* rank.  Follow, which the properties are stated with, is defined by      *)
(* recursion; what it answers is proved once, for any links.               *)
(***************************************************************************)
EXTENDS Sched, FiniteSetTheorems, SequenceTheorems,
        WellFoundedInduction, TLAPS

(* The body of Follow, for links and a first process that are given.       *)
Walk(nx, x) ==
    LET next(q) == IF q = NULL THEN NULL ELSE nx[q]
        at[k \in Nat] == IF k = 0 THEN x ELSE next(at[k - 1])
        met == {k \in 0 .. Cardinality(Procs) - 1 : at[k] # NULL}
    IN  [k \in 1 .. Cardinality(met) |-> at[k - 1]]

(* The links nx, from x on, run through s and end there.                   *)
Links(nx, x, s) ==
    /\ \A i, j \in 1 .. Len(s) : s[i] = s[j] => i = j
    /\ x = IF Len(s) = 0 THEN NULL ELSE s[1]
    /\ \A i \in 1 .. Len(s) : nx[s[i]] = IF i = Len(s) THEN NULL ELSE s[i + 1]

(* The current process is one of s unless s is empty.                      *)
Serves(c, s) ==
    IF Len(s) = 0 THEN c = NULL ELSE \E i \in 1 .. Len(s) : c = s[i]

(* Every link leads upwards in rank.                                       *)
Rises(nx, rank) == \A p \in Procs : nx[p] # NULL => rank[p] < rank[nx[p]]

Types ==
    /\ p_process_list \in Pointers
    /\ p_curt_process \in Pointers
    /\ p_next \in [Procs -> Pointers]
    /\ fresh \in SUBSET Procs
    /\ strayed \in BOOLEAN

(* A process that was not added yet has no links to it or from it.         *)
Untouched ==
    /\ \A p \in fresh : p_next[p] = NULL
    /\ \A p \in Procs : p_next[p] \notin fresh

Queued ==
    \E s \in Seq(Procs \ fresh) :
       /\ Links(p_next, p_process_list, s)
       /\ strayed \/ Serves(p_curt_process, s)

Ranked == \E rank \in [Procs -> Nat] : Rises(p_next, rank)

SInv == Types /\ Untouched /\ Queued /\ Ranked

-----------------------------------------------------------------------------
(* A set of numbers that is not empty has a least one.                     *)
LEMMA LeastNumber ==
    ASSUME NEW S \in SUBSET Nat, S # {}
    PROVE  \E n \in S : \A m \in S : n <= m
<1>1. IsWellFoundedOn(OpToRel(<, Nat), Nat)
  BY NatLessThanWellFounded
<1>2. PICK n \in S : \A m \in Nat : <<m, n>> \in OpToRel(<, Nat) => m \notin S
  BY <1>1, WFMin
<1>3. \A m \in S : ~ (m < n)
  BY <1>2 DEF OpToRel
<1>4. \A m \in S : n <= m
  BY <1>3
<1> QED BY <1>4

(* f is step applied over and over to x.                                   *)
Iterated(S, step, x, f) ==
    /\ f \in [Nat -> S]
    /\ f[0] = x
    /\ \A k \in Nat \ {0} : f[k] = step[f[k - 1]]

(* A function can be applied over and over: the recursion of Follow has a  *)
(* solution.                                                               *)
LEMMA Iterates ==
    ASSUME NEW S, NEW step \in [S -> S], NEW x \in S
    PROVE  \E f : Iterated(S, step, x, f)
<1> DEFINE Good(n, h) == /\ h \in [0 .. n -> S]
                         /\ h[0] = x
                         /\ \A k \in 1 .. n : h[k] = step[h[k - 1]]
<1>1. \A n \in Nat : \E h : Good(n, h)
  <2> DEFINE Bad == {n \in Nat : ~ \E h : Good(n, h)}
  <2> SUFFICES ASSUME Bad # {} PROVE FALSE
    OBVIOUS
  <2>1. PICK n \in Bad : \A m \in Bad : n <= m
    BY LeastNumber
  <2>2. Good(0, [k \in 0 .. 0 |-> x])
    OBVIOUS
  <2>3. n # 0
    BY <2>1, <2>2
  <2>4. n - 1 \in Nat /\ n - 1 \notin Bad
    <3> HIDE DEF Good
    <3>1. n \in Nat /\ n - 1 \in Nat /\ ~ (n <= n - 1)
      BY <2>1, <2>3
    <3> QED BY <2>1, <3>1
  <2>5. PICK h : Good(n - 1, h)
    BY <2>4
  <2> DEFINE e == [k \in 0 .. n |-> IF k = n THEN step[h[n - 1]] ELSE h[k]]
  <2>6. e \in [0 .. n -> S]
    BY <2>1, <2>4, <2>5
  <2>7. e[0] = x
    BY <2>3, <2>4, <2>5
  <2>8. \A k \in 1 .. n : e[k] = step[e[k - 1]]
    BY <2>4, <2>5
  <2> QED BY <2>1, <2>6, <2>7, <2>8
<1>2. \A n, m \in Nat : \A g, h : Good(n, g) /\ Good(m, h) =>
         \A k \in Nat : k <= n /\ k <= m => g[k] = h[k]
  <2> HIDE DEF Good
  <2> SUFFICES ASSUME NEW n \in Nat, NEW m \in Nat, NEW g, NEW h, Good(n, g), Good(m, h)
               PROVE  \A k \in Nat : k <= n /\ k <= m => g[k] = h[k]
    OBVIOUS
  <2> USE DEF Good
  <2> DEFINE Bad == {k \in Nat : k <= n /\ k <= m /\ g[k] # h[k]}
  <2> SUFFICES ASSUME Bad # {} PROVE FALSE
    OBVIOUS
  <2>1. PICK k \in Bad : \A j \in Bad : k <= j
    BY LeastNumber
  <2>2. k # 0
    BY <2>1
  <2>3. k - 1 \in Nat /\ k - 1 \notin Bad
    BY <2>1, <2>2
  <2>4. g[k - 1] = h[k - 1]
    BY <2>1, <2>3
  <2>5. k \in 1 .. n /\ k \in 1 .. m
    BY <2>1, <2>2
  <2>6. g[k] = step[g[k - 1]] /\ h[k] = step[h[k - 1]]
    BY <2>5
  <2> QED BY <2>1, <2>4, <2>6
<1> DEFINE best(n) == CHOOSE h : Good(n, h)
           f == [n \in Nat |-> best(n)[n]]
<1>3. \A n \in Nat : Good(n, best(n))
  BY <1>1
<1> HIDE DEF best
<1>4. f \in [Nat -> S] /\ f[0] = x
  BY <1>3
<1>5. \A k \in Nat \ {0} : f[k] = step[f[k - 1]]
  <2> SUFFICES ASSUME NEW k \in Nat \ {0} PROVE f[k] = step[f[k - 1]]
    OBVIOUS
  <2>1. k - 1 \in Nat /\ k \in 1 .. k
    OBVIOUS
  <2>2. Good(k, best(k)) /\ Good(k - 1, best(k - 1))
    BY <1>3, <2>1
  <2>3. best(k)[k] = step[best(k)[k - 1]]
    BY <2>1, <2>2
  <2>4. best(k)[k - 1] = best(k - 1)[k - 1]
    <3> HIDE DEF Good
    <3>1. k - 1 <= k /\ k - 1 <= k - 1
      OBVIOUS
    <3> QED BY <1>2, <2>1, <2>2, <3>1
  <2> QED BY <2>1, <2>3, <2>4
<1> QED BY <1>4, <1>5 DEF Iterated

(* Follow is Walk through the links in memory, before and after a step.    *)
LEMMA FollowWalks ==
    /\ List = Walk(p_next, p_process_list)
    /\ List' = Walk(p_next', p_process_list')
    /\ \A p : Follow(p) = Walk(p_next, p)
BY DEF List, Follow, Walk

(* A sequence of different processes is no longer than there are processes.*)
LEMMA NoLonger ==
    ASSUME NEW s \in Seq(Procs), \A i, j \in 1 .. Len(s) : s[i] = s[j] => i = j
    PROVE  /\ Len(s) \in Nat
           /\ Cardinality(Procs) \in Nat
           /\ Len(s) <= Cardinality(Procs)
<1>1. Len(s) \in Nat /\ DOMAIN s = 1 .. Len(s) /\ s \in [1 .. Len(s) -> Procs]
  OBVIOUS
<1>2. s \in Injection(1 .. Len(s), Procs)
  BY <1>1 DEF Injection, IsInjective
<1>3. IsFiniteSet(1 .. Len(s)) /\ Cardinality(1 .. Len(s)) = Len(s)
  BY <1>1, FS_Interval
<1>4. IsFiniteSet(Procs)
  BY SchedAssumption
<1>5. Cardinality(Procs) \in Nat
  BY <1>4, FS_CardinalityType
<1>6. Cardinality(1 .. Len(s)) <= Cardinality(Procs)
  BY <1>2, <1>4, FS_Injection
<1> QED BY <1>1, <1>3, <1>5, <1>6

(* The processes met are those the links run through.                      *)
LEMMA WalkIs ==
    ASSUME NEW nx, NEW x, NEW s \in Seq(Procs), Links(nx, x, s)
    PROVE  Walk(nx, x) = s
<1> DEFINE n == Len(s)
           next(q) == IF q = NULL THEN NULL ELSE nx[q]
           Follows(f) == f = [k \in Nat |-> IF k = 0 THEN x ELSE next(f[k - 1])]
           g == [k \in Nat |-> IF k < n THEN s[k + 1] ELSE NULL]
           at == CHOOSE f : Follows(f)
           met == {k \in 0 .. Cardinality(Procs) - 1 : at[k] # NULL}
<1>1. Walk(nx, x) = [k \in 1 .. Cardinality(met) |-> at[k - 1]]
  BY DEF Walk
<1>2. /\ n \in Nat
      /\ DOMAIN s = 1 .. n
      /\ s = [i \in 1 .. n |-> s[i]]
      /\ \A i \in 1 .. n : s[i] \in Procs
  OBVIOUS
<1>3. Cardinality(Procs) \in Nat /\ n <= Cardinality(Procs)
  BY NoLonger DEF Links
<1>4. /\ x = IF n = 0 THEN NULL ELSE s[1]
      /\ \A i \in 1 .. n : next(s[i]) = IF i = n THEN NULL ELSE s[i + 1]
      /\ next(NULL) = NULL
  BY <1>2, SchedAssumption DEF Links
<1> HIDE DEF n, next
<1>5. g[0] = x
  BY <1>2, <1>4
<1>6. \A k \in Nat \ {0} : g[k] = next(g[k - 1])
  <2> SUFFICES ASSUME NEW k \in Nat \ {0} PROVE g[k] = next(g[k - 1])
    OBVIOUS
  <2>1. k - 1 \in Nat
    OBVIOUS
  <2>2. CASE k - 1 < n
    <3>1. g[k - 1] = s[k] /\ k \in 1 .. n
      BY <1>2, <2>1, <2>2
    <3>2. next(s[k]) = IF k = n THEN NULL ELSE s[k + 1]
      BY <1>4, <3>1
    <3>3. g[k] = IF k < n THEN s[k + 1] ELSE NULL
      OBVIOUS
    <3>4. k < n <=> k # n
      BY <1>2, <3>1
    <3> QED BY <3>1, <3>2, <3>3, <3>4
  <2>3. CASE ~ (k - 1 < n)
    <3>1. g[k - 1] = NULL /\ g[k] = NULL
      BY <1>2, <2>1, <2>3
    <3> QED BY <1>4, <3>1
  <2> QED BY <2>2, <2>3
<1>7. Follows(g)
  BY <1>5, <1>6
<1>8. Follows(at)
  BY <1>7
<1>9. \A k \in Nat : at[k] = g[k]
  <2> DEFINE Bad == {k \in Nat : at[k] # g[k]}
  <2> SUFFICES ASSUME Bad # {} PROVE FALSE
    OBVIOUS
  <2> HIDE DEF at, g
  <2>1. PICK k \in Bad : \A m \in Bad : k <= m
    BY LeastNumber
  <2>2. /\ at[0] = x
        /\ \A m \in Nat \ {0} : at[m] = next(at[m - 1])
    BY <1>8
  <2>3. k # 0
    BY <1>5, <2>1, <2>2
  <2>4. k - 1 \in Nat /\ k - 1 \notin Bad
    BY <2>1, <2>3
  <2>5. at[k - 1] = g[k - 1]
    BY <2>4
  <2>6. k \in Nat \ {0}
    BY <2>1, <2>3
  <2> QED BY <1>6, <2>1, <2>2, <2>5, <2>6
<1> HIDE DEF at
<1>10. met = 0 .. n - 1
  <2>1. \A k \in Nat : at[k] # NULL <=> k < n
    <3> SUFFICES ASSUME NEW k \in Nat PROVE at[k] # NULL <=> k < n
      OBVIOUS
    <3>1. k < n => k + 1 \in 1 .. n
      BY <1>2
    <3> QED BY <1>2, <1>9, <3>1, SchedAssumption
  <2> QED BY <1>2, <1>3, <2>1
<1> HIDE DEF met
<1>11. Cardinality(met) = n
  <2>1. Cardinality(0 .. n - 1) = n
    BY <1>2, FS_Interval
  <2> QED BY <1>10, <2>1
<1>12. \A k \in 1 .. n : at[k - 1] = s[k]
  <2> SUFFICES ASSUME NEW k \in 1 .. n PROVE at[k - 1] = s[k]
    OBVIOUS
  <2>1. k - 1 \in Nat /\ k - 1 < n /\ (k - 1) + 1 = k
    BY <1>2
  <2>2. at[k - 1] = g[k - 1] /\ g[k - 1] = s[(k - 1) + 1]
    BY <1>9, <2>1
  <2> QED BY <2>1, <2>2
<1>13. [k \in 1 .. n |-> at[k - 1]] = [k \in 1 .. n |-> s[k]]
  BY <1>12
<1> QED BY <1>1, <1>2, <1>11, <1>13

(* Where every link leads upwards, nothing met behind p is p.              *)
LEMMA WalkRises ==
    ASSUME NEW nx \in [Procs -> Pointers], NEW rank \in [Procs -> Nat],
           Rises(nx, rank), NEW p \in Procs
    PROVE  p \notin ToSet(Walk(nx, nx[p]))
<1> DEFINE next(q) == IF q = NULL THEN NULL ELSE nx[q]
           step == [q \in Pointers |-> next(q)]
           Follows(f) == f = [k \in Nat |-> IF k = 0 THEN nx[p] ELSE next(f[k - 1])]
           at == CHOOSE f : Follows(f)
           met == {k \in 0 .. Cardinality(Procs) - 1 : at[k] # NULL}
<1>1. Walk(nx, nx[p]) = [k \in 1 .. Cardinality(met) |-> at[k - 1]]
  BY DEF Walk
<1>2. step \in [Pointers -> Pointers] /\ nx[p] \in Pointers
  BY DEF Pointers
<1>3. \E f : Follows(f)
  <2> HIDE DEF step
  <2> DEFINE x == nx[p]
  <2>1. step \in [Pointers -> Pointers] /\ x \in Pointers
    BY <1>2
  <2> HIDE DEF x
  <2>2. PICK f : Iterated(Pointers, step, x, f)
    BY <2>1, Iterates
  <2> USE DEF step, x, Iterated
  <2>3. f = [k \in Nat |-> f[k]]
    BY <2>2
  <2>4. \A k \in Nat \ {0} : step[f[k - 1]] = next(f[k - 1])
    BY <2>2
  <2>5. \A k \in Nat : f[k] = IF k = 0 THEN nx[p] ELSE next(f[k - 1])
    BY <2>2, <2>4
  <2> HIDE DEF next
  <2>6. Follows(f)
    BY <2>3, <2>5
  <2> QED BY <2>6
<1>4. Follows(at)
  BY <1>3
<1> HIDE DEF at
<1>5. at[0] = nx[p] /\ \A k \in Nat \ {0} : at[k] = next(at[k - 1])
  BY <1>4
<1> DEFINE Above(q) == q = NULL \/ (q \in Procs /\ rank[p] < rank[q])
<1>6. Above(nx[p])
  BY DEF Rises, Pointers
<1>7. \A q : Above(q) => Above(next(q))
  <2> SUFFICES ASSUME NEW q, Above(q), next(q) # NULL PROVE Above(next(q))
    OBVIOUS
  <2>1. q \in Procs /\ next(q) = nx[q] /\ nx[q] \in Procs
    BY DEF Pointers
  <2>2. rank[p] < rank[q] /\ rank[q] < rank[nx[q]]
    BY <2>1 DEF Rises
  <2>3. rank[p] \in Nat /\ rank[q] \in Nat /\ rank[nx[q]] \in Nat
    BY <2>1
  <2> QED BY <2>1, <2>2, <2>3
<1> HIDE DEF next, Above
<1>8. \A k \in Nat : Above(at[k])
  <2> DEFINE Bad == {k \in Nat : ~ Above(at[k])}
  <2> SUFFICES ASSUME Bad # {} PROVE FALSE
    OBVIOUS
  <2>1. PICK k \in Bad : \A m \in Bad : k <= m
    BY LeastNumber
  <2>2. k # 0
    BY <1>5, <1>6, <2>1
  <2>3. k - 1 \in Nat /\ k - 1 \notin Bad /\ k \in Nat \ {0}
    BY <2>1, <2>2
  <2> QED BY <1>5, <1>7, <2>1, <2>3
<1>9. \A k \in Nat : at[k] # p
  BY <1>8, SchedAssumption DEF Above
<1>10. Cardinality(met) \in Nat
  <2>1. IsFiniteSet(Procs)
    BY SchedAssumption
  <2>2. Cardinality(Procs) \in Nat
    BY <2>1, FS_CardinalityType
  <2>3. IsFiniteSet(0 .. Cardinality(Procs) - 1)
    BY <2>2, FS_Interval
  <2>4. IsFiniteSet(met)
    BY <2>3, FS_Subset
  <2> QED BY <2>4, FS_CardinalityType
<1> HIDE DEF met
<1>11. \A k \in 1 .. Cardinality(met) : k - 1 \in Nat
  BY <1>10
<1> QED BY <1>1, <1>9, <1>11 DEF ToSet

-----------------------------------------------------------------------------
LEMMA SeqWiden ==
    ASSUME NEW S, NEW T, S \subseteq T, NEW s \in Seq(S)
    PROVE  s \in Seq(T)
OBVIOUS

(* The three ways in which the list changes.                               *)

(* A new process behind the last one.                                      *)
LEMMA LinksAppend ==
    ASSUME NEW nx \in [Procs -> Pointers], NEW x, NEW old \in SUBSET Procs,
           NEW s \in Seq(old), Links(nx, x, s),
           NEW p \in Procs \ old, nx[p] = NULL
    PROVE  /\ Append(s, p) \in Seq(old \cup {p})
           /\ Len(s) = 0 => Links(nx, p, Append(s, p))
           /\ Len(s) # 0 => Links([nx EXCEPT ![Last(s)] = p], x, Append(s, p))
<1> DEFINE n == Len(s)
           t == Append(s, p)
           ny == [nx EXCEPT ![s[n]] = p]
<1>1. /\ n \in Nat
      /\ \A i \in 1 .. n : s[i] \in old /\ s[i] \in Procs
  OBVIOUS
<1>2. t \in Seq(old \cup {p})
  <2>1. s \in Seq(old \cup {p})
    BY SeqWiden
  <2>2. p \in old \cup {p}
    OBVIOUS
  <2> DEFINE S == old \cup {p}
  <2> HIDE DEF S
  <2>3. s \in Seq(S) /\ p \in S
    BY <2>1, <2>2 DEF S
  <2>4. Append(s, p) \in Seq(S)
    BY <2>3
  <2> QED BY <2>4 DEF S
<1>3. Len(t) = n + 1 /\ t[n + 1] = p /\ \A i \in 1 .. n : t[i] = s[i]
  BY <1>1
<1>4. \A i, j \in 1 .. n : s[i] = s[j] => i = j
  BY DEF Links
<1>5. \A i, j \in 1 .. Len(t) : t[i] = t[j] => i = j
  <2> HIDE DEF n, t
  <2>1. \A i \in 1 .. n + 1 : i = n + 1 \/ i \in 1 .. n
    BY <1>1
  <2> QED BY <1>1, <1>3, <1>4, <2>1
<1>6. \A i \in 1 .. n : nx[s[i]] = IF i = n THEN NULL ELSE s[i + 1]
  BY DEF Links
<1>7. x = IF n = 0 THEN NULL ELSE s[1]
  BY DEF Links
<1>8. Last(s) = s[n]
  BY DEF Last
<1> HIDE DEF n, t
<1>9. ASSUME n = 0 PROVE Links(nx, p, t)
  BY <1>3, <1>5, <1>9 DEF Links
<1>10. ASSUME n # 0 PROVE Links(ny, x, t)
  <2>1. n \in 1 .. n /\ s[n] \in Procs /\ 1 \in 1 .. n /\ n + 1 # 0
    BY <1>1, <1>10
  <2>2. x = t[1]
    BY <1>3, <1>7, <1>10, <2>1
  <2>3. ASSUME NEW i \in 1 .. n + 1
        PROVE  ny[t[i]] = IF i = n + 1 THEN NULL ELSE t[i + 1]
    <3>1. CASE i = n + 1
      BY <1>1, <1>3, <2>1, <3>1
    <3>2. CASE i = n
      BY <1>1, <1>3, <2>1, <3>2
    <3>3. CASE i \in 1 .. n - 1
      <4>1. i \in 1 .. n /\ i + 1 \in 1 .. n /\ i # n /\ i # n + 1
        BY <1>1, <3>3
      <4>2. t[i] = s[i] /\ t[i + 1] = s[i + 1] /\ s[i] # s[n]
        BY <1>3, <1>4, <2>1, <4>1
      <4>3. ny[s[i]] = nx[s[i]]
        BY <1>1, <4>1, <4>2
      <4> QED BY <1>6, <4>1, <4>2, <4>3
    <3> QED BY <1>1, <3>1, <3>2, <3>3
  <2> HIDE DEF ny
  <2> QED BY <1>3, <1>5, <2>1, <2>2, <2>3 DEF Links
<1> QED BY <1>2, <1>8, <1>9, <1>10 DEF n, t

(* The list without its head.                                              *)
LEMMA LinksTail ==
    ASSUME NEW nx, NEW x, NEW old \in SUBSET Procs, NEW s \in Seq(old),
           Links(nx, x, s), Len(s) # 0
    PROVE  Tail(s) \in Seq(old) /\ Links(nx, nx[x], Tail(s))
<1> DEFINE n == Len(s)
           t == Tail(s)
<1>1. s # <<>> /\ n \in Nat /\ n # 0
  OBVIOUS
<1>2. t \in Seq(old) /\ Len(t) = n - 1 /\ \A i \in 1 .. n - 1 : t[i] = s[i + 1]
  BY <1>1
<1>3. /\ \A i, j \in 1 .. n : s[i] = s[j] => i = j
      /\ x = s[1]
      /\ \A i \in 1 .. n : nx[s[i]] = IF i = n THEN NULL ELSE s[i + 1]
  BY DEF Links
<1> HIDE DEF n, t
<1>4. \A i \in 1 .. n - 1 : i \in 1 .. n /\ i + 1 \in 1 .. n /\ (i = n - 1 <=> i + 1 = n)
  BY <1>1
<1>5. \A i, j \in 1 .. n - 1 : t[i] = t[j] => i = j
  <2> SUFFICES ASSUME NEW i \in 1 .. n - 1, NEW j \in 1 .. n - 1, t[i] = t[j] PROVE i = j
    OBVIOUS
  <2>1. i + 1 = j + 1
    BY <1>2, <1>3, <1>4
  <2> QED BY <2>1
<1>6. nx[x] = IF n - 1 = 0 THEN NULL ELSE t[1]
  <2>1. 1 \in 1 .. n /\ (n - 1 = 0 <=> 1 = n) /\ (n # 1 => 1 \in 1 .. n - 1)
    BY <1>1
  <2>2. nx[s[1]] = IF 1 = n THEN NULL ELSE s[1 + 1]
    BY <1>3, <2>1
  <2> QED BY <1>2, <1>3, <2>1, <2>2
<1>7. ASSUME NEW i \in 1 .. n - 1
      PROVE  nx[t[i]] = IF i = n - 1 THEN NULL ELSE t[i + 1]
  <2>1. nx[s[i + 1]] = IF i + 1 = n THEN NULL ELSE s[(i + 1) + 1]
    BY <1>3, <1>4
  <2>2. i # n - 1 => i + 1 \in 1 .. n - 1
    BY <1>1
  <2> QED BY <1>2, <1>4, <2>1, <2>2
<1> QED BY <1>2, <1>5, <1>6, <1>7 DEF Links, t

(* The list without a later one.                                           *)
LEMMA LinksRemove ==
    ASSUME NEW nx \in [Procs -> Pointers], NEW x, NEW old \in SUBSET Procs,
           NEW s \in Seq(old), Links(nx, x, s), NEW j \in 2 .. Len(s)
    PROVE  /\ RemoveAt(s, j) \in Seq(old)
           /\ Len(RemoveAt(s, j)) = Len(s) - 1
           /\ \A i \in 1 .. Len(s) - 1 :
                 RemoveAt(s, j)[i] = IF i < j THEN s[i] ELSE s[i + 1]
           /\ Links([nx EXCEPT ![s[j - 1]] = nx[s[j]]], x, RemoveAt(s, j))
<1> DEFINE n == Len(s)
           t == RemoveAt(s, j)
           ny == [nx EXCEPT ![s[j - 1]] = nx[s[j]]]
           u == SubSeq(s, 1, j - 1)
           v == SubSeq(s, j + 1, n)
<1>1. n \in Nat /\ j \in Nat /\ 2 <= j /\ j <= n
  OBVIOUS
<1>2. u \in Seq(old) /\ Len(u) = j - 1 /\ \A i \in 1 .. j - 1 : u[i] = s[i]
  BY <1>1
<1>3. v \in Seq(old) /\ Len(v) = n - j /\ \A i \in 1 .. n - j : v[i] = s[j + i]
  BY <1>1
<1>4. t = u \o v
  BY DEF RemoveAt
<1>5. \A i \in 1 .. n : s[i] \in old /\ s[i] \in Procs
  OBVIOUS
<1>6. /\ \A i, k \in 1 .. n : s[i] = s[k] => i = k
      /\ x = s[1]
      /\ \A i \in 1 .. n : nx[s[i]] = IF i = n THEN NULL ELSE s[i + 1]
  BY <1>1 DEF Links
<1> HIDE DEF n, t, u, v
<1>7. /\ t \in Seq(old)
      /\ Len(t) = n - 1
      /\ \A i \in 1 .. n - 1 : t[i] = IF i < j THEN s[i] ELSE s[i + 1]
  <2>1. t \in Seq(old) /\ Len(t) = (j - 1) + (n - j)
    <3>1. u \o v \in Seq(old) /\ Len(u \o v) = Len(u) + Len(v)
      <4>1. u \in Seq(old) /\ v \in Seq(old)
        BY <1>2, <1>3
      <4> HIDE DEF ny
      <4> QED BY ONLY <4>1, ConcatProperties
    <3>2. t \in Seq(old) /\ Len(t) = Len(u) + Len(v)
      BY <1>4, <3>1, Zenon
    <3>3. Len(u) = j - 1 /\ Len(v) = n - j
      BY <1>2, <1>3
    <3> QED BY <3>2, <3>3, Zenon
  <2>2. ASSUME NEW i \in 1 .. n - 1 PROVE t[i] = IF i < j THEN s[i] ELSE s[i + 1]
    <3>1. CASE i < j
      <4>1. i \in 1 .. j - 1
        BY <1>1, <3>1
      <4>2. t[i] = u[i]
        BY <1>2, <1>3, <1>4, <4>1
      <4> QED BY <1>2, <3>1, <4>1, <4>2
    <3>2. CASE ~ (i < j)
      <4>1. i - (j - 1) \in 1 .. n - j /\ j + (i - (j - 1)) = i + 1
        BY <1>1, <3>2
      <4>2. i \in 1 .. (j - 1) + (n - j) /\ i > j - 1
        BY <1>1, <3>2
      <4>3. t[i] = v[i - (j - 1)]
        BY <1>1, <1>2, <1>3, <1>4, <4>1, <4>2
      <4> QED BY <1>3, <3>2, <4>1, <4>3
    <3> QED BY <3>1, <3>2
  <2> QED BY <1>1, <2>1, <2>2
<1>8. \A i, k \in 1 .. n - 1 : t[i] = t[k] => i = k
  <2> SUFFICES ASSUME NEW i \in 1 .. n - 1, NEW k \in 1 .. n - 1, t[i] = t[k] PROVE i = k
    OBVIOUS
  <2> DEFINE a == IF i < j THEN i ELSE i + 1
             b == IF k < j THEN k ELSE k + 1
  <2>1. a \in 1 .. n /\ b \in 1 .. n /\ (a = b => i = k)
    BY <1>1
  <2>2. t[i] = s[a] /\ t[k] = s[b]
    BY <1>7
  <2> HIDE DEF a, b
  <2> QED BY <1>6, <2>1, <2>2
<1>9. n - 1 # 0 /\ x = t[1]
  <2>1. 1 \in 1 .. n - 1 /\ 1 < j
    BY <1>1
  <2> QED BY <1>1, <1>6, <1>7, <2>1
<1>10. ASSUME NEW i \in 1 .. n - 1
       PROVE  ny[t[i]] = IF i = n - 1 THEN NULL ELSE t[i + 1]
  <2>1. i \in 1 .. n /\ i + 1 \in 1 .. n /\ i # n /\ j \in 1 .. n /\ j - 1 \in 1 .. n
    BY <1>1
  <2>2. s[j - 1] \in Procs /\ s[i] \in Procs /\ s[i + 1] \in Procs
    BY <1>5, <2>1
  <2>3. i # n - 1 => i + 1 \in 1 .. n - 1
    BY <1>1
  <2>4. CASE i < j - 1
    <3>1. i + 1 < j /\ i < j /\ i # n - 1 /\ i # j - 1
      BY <1>1, <2>4
    <3>2. t[i] = s[i] /\ t[i + 1] = s[i + 1]
      BY <1>7, <2>3, <3>1
    <3>3. s[i] # s[j - 1]
      BY <1>6, <2>1, <3>1
    <3>4. ny[s[i]] = nx[s[i]]
      BY <2>2, <3>3
    <3> QED BY <1>6, <2>1, <3>1, <3>2, <3>4
  <2>5. CASE i = j - 1
    <3>1. t[i] = s[j - 1]
      BY <1>1, <1>7, <2>5
    <3>2. ny[s[j - 1]] = nx[s[j]]
      BY <2>2
    <3>3. nx[s[j]] = IF j = n THEN NULL ELSE s[j + 1]
      BY <1>6, <2>1
    <3>4. i = n - 1 <=> j = n
      BY <1>1, <2>5
    <3>5. i # n - 1 => t[i + 1] = s[j + 1]
      <4>1. i + 1 = j /\ ~ (j < j)
        BY <1>1, <2>5
      <4> QED BY <1>7, <2>3, <4>1
    <3> QED BY <3>1, <3>2, <3>3, <3>4, <3>5
  <2>6. CASE i > j - 1
    <3>1. ~ (i < j) /\ ~ (i + 1 < j) /\ i + 1 # j - 1
      BY <1>1, <2>6
    <3>2. t[i] = s[i + 1] /\ (i # n - 1 => t[i + 1] = s[(i + 1) + 1])
      BY <1>7, <2>3, <3>1
    <3>3. s[i + 1] # s[j - 1]
      BY <1>6, <2>1, <3>1
    <3>4. ny[s[i + 1]] = nx[s[i + 1]]
      BY <2>2, <3>3
    <3>5. nx[s[i + 1]] = IF i + 1 = n THEN NULL ELSE s[(i + 1) + 1]
      BY <1>6, <2>1
    <3>6. i + 1 = n <=> i = n - 1
      BY <1>1
    <3> QED BY <3>2, <3>4, <3>5, <3>6
  <2> QED BY <1>1, <2>4, <2>5, <2>6
<1>11. Links(ny, x, t)
  <2> HIDE DEF ny
  <2> QED BY <1>7, <1>8, <1>9, <1>10 DEF Links
<1> QED BY <1>7, <1>11 DEF n, t

-----------------------------------------------------------------------------
(* The steps.                                                              *)

(* The list is what the links run through, before and after a step.        *)
LEMMA ListIs ==
    ASSUME NEW s \in Seq(Procs)
    PROVE  /\ Links(p_next, p_process_list, s) => List = s
           /\ Links(p_next', p_process_list', s) => List' = s
BY FollowWalks, WalkIs

LEMMA InitSInv == Init => SInv /\ RR!Init
<1> SUFFICES ASSUME Init PROVE SInv /\ RR!Init
  OBVIOUS
<1> USE DEF Init, sched_init
<1>1. Types /\ Untouched
  BY SchedAssumption DEF Types, Untouched, Pointers
<1>2. /\ <<>> \in Seq(Procs \ fresh)
      /\ <<>> \in Seq(Procs)
      /\ Links(p_next, p_process_list, <<>>)
      /\ Serves(p_curt_process, <<>>)
  BY DEF Links, Serves
<1>3. Queued
  BY <1>2 DEF Queued
<1>4. Ranked
  <2> DEFINE rank == [p \in Procs |-> 0]
  <2>1. rank \in [Procs -> Nat] /\ Rises(p_next, rank)
    BY DEF Rises
  <2> QED BY <2>1 DEF Ranked
<1>5. List = <<>>
  BY <1>2, ListIs
<1> QED BY <1>1, <1>3, <1>4, <1>5 DEF SInv, RR!Init

LEMMA AddSteps ==
    ASSUME SInv, NEW p \in Procs, add_process(p)
    PROVE  SInv' /\ (strayed' \/ RR!Enter(p))
<1> DEFINE old == Procs \ fresh
<1>1. /\ p \in fresh
      /\ fresh' = fresh \ {p}
      /\ strayed' = strayed
      /\ p_next[p] = NULL
      /\ Types
      /\ Untouched
      /\ p \in Procs \ old
      /\ Procs \ fresh' = old \cup {p}
  BY DEF add_process, SInv, Untouched, Types
<1>2. PICK s \in Seq(old) :
         Links(p_next, p_process_list, s) /\ (strayed \/ Serves(p_curt_process, s))
  BY DEF SInv, Queued
<1>3. PICK rank \in [Procs -> Nat] : Rises(p_next, rank)
  BY DEF SInv, Ranked
<1>4. s \in Seq(Procs) /\ List = s
  <2>1. s \in Seq(Procs)
    BY <1>2, SeqWiden
  <2> QED BY <1>2, <2>1, ListIs
<1>5. /\ Len(s) \in Nat
      /\ (Len(s) = 0 <=> s = <<>>)
      /\ \A i \in 1 .. Len(s) : s[i] \in Procs /\ s[i] # p
      /\ Last(s) = s[Len(s)]
      /\ ToSet(s) = {s[i] : i \in 1 .. Len(s)}
  <2>1. p \notin old
    BY <1>1
  <2>2. \A i \in 1 .. Len(s) : s[i] \in old
    <3> HIDE DEF old
    <3> QED BY <1>2
  <2> QED BY <1>4, <2>1, <2>2 DEF Last, ToSet
<1>6. /\ Append(s, p) \in Seq(old \cup {p})
      /\ Len(s) = 0 => Links(p_next, p, Append(s, p))
      /\ Len(s) # 0 => Links([p_next EXCEPT ![Last(s)] = p], p_process_list, Append(s, p))
  <2>1. p_next \in [Procs -> Pointers]
    BY <1>1 DEF Types
  <2>2. old \in SUBSET Procs
    OBVIOUS
  <2>3. s \in Seq(old) /\ p \in Procs \ old
    BY <1>1, <1>2
  <2> HIDE DEF old
  <2> QED BY <1>1, <1>2, <2>1, <2>2, <2>3, LinksAppend
<1> HIDE DEF old
<1>7. Append(s, p) \in Seq(Procs \ fresh') /\ Append(s, p) \in Seq(Procs)
  BY <1>1, <1>4, <1>6
<1>8. Len(s) = 0 <=> p_process_list = NULL
  <2>1. p_process_list = IF Len(s) = 0 THEN NULL ELSE s[1]
    BY <1>2 DEF Links
  <2>2. Len(s) # 0 => s[1] # NULL
    BY <1>5, SchedAssumption
  <2> QED BY <2>1, <2>2
<1>9. CASE Len(s) = 0
  <2>1. p_process_list' = p /\ p_curt_process' = p /\ p_next' = p_next
    BY <1>8, <1>9, SchedAssumption DEF add_process
  <2>2. Links(p_next', p_process_list', Append(s, p))
    BY <1>6, <1>9, <2>1
  <2>3. Serves(p_curt_process', Append(s, p))
    BY <1>9, <1>5, <2>1 DEF Serves
  <2>4. Types' /\ Untouched'
    BY <1>1, <2>1 DEF Types, Untouched, Pointers
  <2>5. Queued'
    BY <1>7, <2>2, <2>3 DEF Queued
  <2>6. Ranked'
    BY <1>3, <2>1 DEF Ranked
  <2>7. List' = Append(s, p)
    BY <1>7, <2>2, ListIs
  <2>8. p \notin RR!ToSet(List)
    BY <1>4, <1>5 DEF ToSet, RR!ToSet
  <2>9. RR!Enter(p)
    BY <1>4, <1>5, <1>9, <2>1, <2>7, <2>8 DEF RR!Enter
  <2> QED BY <2>4, <2>5, <2>6, <2>9 DEF SInv
<1>10. CASE Len(s) # 0
  <2> DEFINE q == s[Len(s)]
  <2>1. q \in Procs /\ q # p
    BY <1>5, <1>10
  <2>2. /\ p_process_list' = p_process_list
        /\ p_curt_process' = p_curt_process
        /\ p_next' = [p_next EXCEPT ![q] = p]
    BY <1>4, <1>5, <1>8, <1>10 DEF add_process, LinkLast
  <2>3. Links(p_next', p_process_list', Append(s, p))
    BY <1>5, <1>6, <1>10, <2>2
  <2>4. Serves(p_curt_process, s) => Serves(p_curt_process', Append(s, p))
    <3>1. Len(Append(s, p)) = Len(s) + 1 /\ \A i \in 1 .. Len(s) : Append(s, p)[i] = s[i]
      BY <1>4
    <3> QED BY <1>5, <1>10, <2>2, <3>1 DEF Serves
  <2> HIDE DEF q
  <2>5. Types' /\ Untouched'
    <3>1. p_next \in [Procs -> Pointers] /\ p \in Pointers
      BY <1>1 DEF Types, Pointers
    <3>2. q \notin fresh
      <4>1. s[Len(s)] \in old
        BY <1>2, <1>5, <1>10
      <4> QED BY <4>1 DEF q, old
    <3>3. p_next' \in [Procs -> Pointers] /\ p_next'[q] = p
          /\ \A r \in Procs : r # q => p_next'[r] = p_next[r]
      BY <2>1, <2>2, <3>1
    <3>4. Untouched'
      BY <1>1, <3>2, <3>3 DEF Untouched, Types
    <3> QED BY <1>1, <2>2, <3>3, <3>4 DEF Types
  <2>6. Queued'
    BY <1>1, <1>2, <1>7, <2>3, <2>4 DEF Queued
  <2>7. Ranked'
    <3> DEFINE up == [rank EXCEPT ![p] = rank[q] + 1]
    <3>1. up \in [Procs -> Nat] /\ up[p] = rank[q] + 1
          /\ \A r \in Procs : r # p => up[r] = rank[r]
      BY <2>1
    <3>2. /\ p_next'[q] = p
          /\ \A r \in Procs : r # q => p_next'[r] = p_next[r]
          /\ \A r \in Procs : p_next[r] # p /\ p_next[r] \in Pointers
      BY <1>1, <2>1, <2>2 DEF Types, Untouched
    <3> HIDE DEF up
    <3>3. ASSUME NEW r \in Procs, p_next'[r] # NULL
          PROVE  up[r] < up[p_next'[r]]
      <4>1. CASE r = q
        BY <2>1, <3>1, <3>2, <4>1
      <4>2. CASE r # q
        <5>1. r # p /\ p_next'[r] = p_next[r] /\ p_next[r] \in Procs /\ p_next[r] # p
          BY <1>1, <3>2, <3>3, <4>2 DEF Pointers
        <5>2. rank[r] < rank[p_next[r]]
          BY <1>3, <3>3, <5>1 DEF Rises
        <5> QED BY <3>1, <5>1, <5>2
      <4> QED BY <4>1, <4>2
    <3> QED BY <3>1, <3>3 DEF Ranked, Rises
  <2>8. List' = Append(s, p)
    BY <1>7, <2>3, ListIs
  <2>9. p \notin RR!ToSet(List)
    BY <1>4, <1>5 DEF ToSet, RR!ToSet
  <2>10. RR!Enter(p)
    BY <1>4, <1>5, <1>10, <2>2, <2>8, <2>9 DEF RR!Enter
  <2> QED BY <2>5, <2>6, <2>7, <2>10 DEF SInv
<1> QED BY <1>9, <1>10

LEMMA RemoveHeadSteps ==
    ASSUME SInv, NEW p \in Procs, remove_process(p), RemoveHead(p)
    PROVE  SInv' /\ (strayed' \/ RR!Leave(p))
<1> DEFINE old == Procs \ fresh
<1>1. /\ p_process_list = p
      /\ p_process_list' = p_next[p]
      /\ p_curt_process' = p_curt_process
      /\ p_next' = p_next
      /\ fresh' = fresh
      /\ strayed' = (strayed \/ p = p_curt_process)
      /\ Types
      /\ Untouched
  BY DEF remove_process, RemoveHead, SInv
<1>2. PICK s \in Seq(old) :
         Links(p_next, p_process_list, s) /\ (strayed \/ Serves(p_curt_process, s))
  BY DEF SInv, Queued
<1>3. s \in Seq(Procs) /\ List = s
  <2>1. s \in Seq(Procs)
    BY <1>2, SeqWiden
  <2> QED BY <1>2, <2>1, ListIs
<1>4. Len(s) # 0 /\ s[1] = p /\ Len(s) \in Nat /\ DOMAIN s = 1 .. Len(s)
  BY <1>1, <1>2, <1>3, SchedAssumption DEF Links
<1>5. Tail(s) \in Seq(old) /\ Links(p_next', p_process_list', Tail(s))
  <2>1. old \in SUBSET Procs
    OBVIOUS
  <2> HIDE DEF old
  <2> QED BY <1>1, <1>2, <1>4, <2>1, LinksTail
<1>6. Tail(s) \in Seq(Procs) /\ List' = Tail(s)
  <2>1. Tail(s) \in Seq(Procs)
    BY <1>3, <1>4
  <2> QED BY <1>5, <2>1, ListIs
<1>7. Len(Tail(s)) = Len(s) - 1 /\ \A i \in 1 .. Len(s) - 1 : Tail(s)[i] = s[i + 1]
  BY <1>3, <1>4
<1>8. ASSUME p # p_curt_process, Serves(p_curt_process, s)
      PROVE  Serves(p_curt_process, Tail(s))
  <2>1. PICK i \in 1 .. Len(s) : p_curt_process = s[i]
    BY <1>4, <1>8 DEF Serves
  <2>2. i # 1
    BY <1>4, <1>8, <2>1
  <2>3. i - 1 \in 1 .. Len(s) - 1 /\ (i - 1) + 1 = i
    BY <1>4, <2>1, <2>2
  <2>4. Tail(s)[i - 1] = p_curt_process
    BY <1>7, <2>1, <2>3
  <2> QED BY <1>7, <2>3, <2>4 DEF Serves
<1>9. Types' /\ Untouched'
  BY <1>1 DEF Types, Untouched
<1>10. Queued'
  <2>1. strayed' \/ Serves(p_curt_process', Tail(s))
    BY <1>1, <1>2, <1>8
  <2>2. Tail(s) \in Seq(Procs \ fresh')
    BY <1>1, <1>5
  <2> QED BY <1>5, <2>1, <2>2 DEF Queued
<1>11. Ranked'
  BY <1>1 DEF SInv, Ranked
<1>12. ASSUME ~ strayed' PROVE RR!Leave(p)
  <2>1. p # p_curt_process
    BY <1>1, <1>12
  <2>2. RR!RemoveAt(s, 1) = Tail(s)
    BY <1>3, <1>4, <1>7 DEF RR!RemoveAt
  <2>3. 1 \in DOMAIN s
    BY <1>4
  <2> QED BY <1>1, <1>3, <1>4, <1>6, <2>1, <2>2, <2>3 DEF RR!Leave
<1> QED BY <1>9, <1>10, <1>11, <1>12 DEF SInv

(* Of the positions of a sequence of length n.                             *)
LEMMA Positions ==
    ASSUME NEW n \in Nat, NEW i \in 1 .. n
    PROVE  /\ 1 \in 1 .. n
           /\ i # n => i + 1 \in 2 .. n /\ i + 1 \in 1 .. n
           /\ (i + 1) - 1 = i
           /\ (i % n) + 1 = IF i = n THEN 1 ELSE i + 1
OBVIOUS

LEMMA RemoveInnerSteps ==
    ASSUME SInv, NEW p \in Procs, remove_process(p), RemoveInner(p)
    PROVE  SInv' /\ (strayed' \/ RR!Leave(p))
<1> DEFINE old == Procs \ fresh
<1>1. /\ p_process_list' = p_process_list
      /\ p \in Listed \ {p_process_list}
      /\ \/ p_curt_process \in {p, NULL} /\ p_curt_process' = p_next[p]
         \/ p_curt_process # p /\ p_curt_process' = p_curt_process
      /\ fresh' = fresh
      /\ strayed' = (strayed \/ p = p_curt_process)
      /\ Types
      /\ Untouched
  BY DEF remove_process, RemoveInner, SInv
<1>2. PICK s \in Seq(old) :
         Links(p_next, p_process_list, s) /\ (strayed \/ Serves(p_curt_process, s))
  BY DEF SInv, Queued
<1>3. s \in Seq(Procs) /\ List = s
  <2>1. s \in Seq(Procs)
    BY <1>2, SeqWiden
  <2> QED BY <1>2, <2>1, ListIs
<1>4. /\ Len(s) \in Nat
      /\ DOMAIN s = 1 .. Len(s)
      /\ ToSet(s) = {s[i] : i \in 1 .. Len(s)}
      /\ \A i \in 1 .. Len(s) : s[i] \in Procs
  BY <1>3 DEF ToSet
<1>5. PICK q \in Listed : p_next[q] = p /\ p_next' = [p_next EXCEPT ![q] = p_next[p]]
  BY DEF RemoveInner
<1>6. PICK j \in 2 .. Len(s) : s[j] = p /\ s[j - 1] = q
  <2>1. PICK i \in 1 .. Len(s) : s[i] = q
    BY <1>3, <1>4, <1>5 DEF Listed
  <2>2. p_next[s[i]] = IF i = Len(s) THEN NULL ELSE s[i + 1]
    BY <1>2, <2>1 DEF Links
  <2>3. i # Len(s) /\ s[i + 1] = p
    BY <1>5, <2>1, <2>2, SchedAssumption
  <2>4. i + 1 \in 2 .. Len(s) /\ (i + 1) - 1 = i
    BY <1>4, <2>3, Positions
  <2> QED BY <2>1, <2>3, <2>4
<1>7. /\ RemoveAt(s, j) \in Seq(old)
      /\ Len(RemoveAt(s, j)) = Len(s) - 1
      /\ \A i \in 1 .. Len(s) - 1 :
            RemoveAt(s, j)[i] = IF i < j THEN s[i] ELSE s[i + 1]
      /\ Links(p_next', p_process_list', RemoveAt(s, j))
  <2>1. old \in SUBSET Procs /\ p_next \in [Procs -> Pointers]
    BY <1>1 DEF Types
  <2>2. p_next' = [p_next EXCEPT ![s[j - 1]] = p_next[s[j]]]
    BY <1>5, <1>6
  <2> HIDE DEF old
  <2>3. /\ RemoveAt(s, j) \in Seq(old)
        /\ Len(RemoveAt(s, j)) = Len(s) - 1
        /\ \A i \in 1 .. Len(s) - 1 :
              RemoveAt(s, j)[i] = IF i < j THEN s[i] ELSE s[i + 1]
        /\ Links([p_next EXCEPT ![s[j - 1]] = p_next[s[j]]], p_process_list, RemoveAt(s, j))
    BY <1>2, <1>6, <2>1, LinksRemove
  <2> QED BY <1>1, <2>2, <2>3
<1> DEFINE t == RemoveAt(s, j)
<1> HIDE DEF t
<1>8. t \in Seq(Procs) /\ List' = t
  <2>1. t \in Seq(old) /\ Links(p_next', p_process_list', t)
    BY <1>7 DEF t
  <2>2. t \in Seq(Procs)
    BY <2>1, SeqWiden
  <2> QED BY <2>1, <2>2, ListIs
<1>9. ASSUME p # p_curt_process, Serves(p_curt_process, s)
      PROVE  p_curt_process' = p_curt_process /\ Serves(p_curt_process, t)
  <2>1. PICK i \in 1 .. Len(s) : p_curt_process = s[i]
    BY <1>4, <1>6, <1>9 DEF Serves
  <2>2. p_curt_process # NULL /\ i # j
    BY <1>4, <1>6, <1>9, <2>1, SchedAssumption
  <2> DEFINE k == IF i < j THEN i ELSE i - 1
  <2>3. /\ k \in 1 .. Len(s) - 1
        /\ (IF k < j THEN k ELSE k + 1) = i
    BY <1>4, <1>6, <2>1, <2>2
  <2>4. t[k] = IF k < j THEN s[k] ELSE s[k + 1]
    BY <1>7, <2>3 DEF t
  <2> HIDE DEF k
  <2>5. t[k] = s[i]
    BY <2>3, <2>4
  <2>6. Len(t) = Len(s) - 1 /\ Len(s) - 1 # 0
    BY <1>4, <1>6, <1>7 DEF t
  <2>7. Serves(p_curt_process, t)
    BY <2>1, <2>3, <2>5, <2>6 DEF Serves
  <2> QED BY <1>1, <1>9, <2>2, <2>7
<1>10. Types' /\ Untouched'
  <2>1. p_next \in [Procs -> Pointers] /\ p_next[p] \in Pointers /\ q \in Procs
    BY <1>1, <1>4, <1>6 DEF Types
  <2>2. p_next' \in [Procs -> Pointers] /\ p_next'[q] = p_next[p]
        /\ \A r \in Procs : r # q => p_next'[r] = p_next[r]
    BY <1>5, <2>1
  <2>3. Types'
    BY <1>1, <2>1, <2>2 DEF Types
  <2>4. q \notin fresh
    <3>1. p_next[q] # NULL
      BY <1>5, SchedAssumption
    <3> QED BY <1>1, <3>1 DEF Untouched
  <2>5. Untouched'
    BY <1>1, <2>1, <2>2, <2>4 DEF Untouched, Types
  <2> QED BY <2>3, <2>5
<1>11. Queued'
  <2>1. strayed' \/ Serves(p_curt_process', t)
    BY <1>1, <1>2, <1>9
  <2>2. t \in Seq(Procs \ fresh') /\ Links(p_next', p_process_list', t)
    BY <1>1, <1>7 DEF t
  <2> QED BY <2>1, <2>2 DEF Queued
<1>12. Ranked'
  <2>1. PICK rank \in [Procs -> Nat] : Rises(p_next, rank)
    BY DEF SInv, Ranked
  <2>2. q \in Procs /\ p_next \in [Procs -> Pointers]
    BY <1>1, <1>4, <1>6 DEF Types
  <2>3. p_next'[q] = p_next[p] /\ \A r \in Procs : r # q => p_next'[r] = p_next[r]
    BY <1>5, <2>2
  <2>4. ASSUME NEW r \in Procs, p_next'[r] # NULL
        PROVE  rank[r] < rank[p_next'[r]]
    <3>1. CASE r = q
      <4>1. p_next[p] # NULL /\ p_next[p] \in Procs
        BY <2>2, <2>3, <2>4, <3>1 DEF Pointers
      <4>2. p_next[q] # NULL
        BY <1>5, SchedAssumption
      <4>3. rank[q] < rank[p] /\ rank[p] < rank[p_next[p]]
        BY <1>5, <2>1, <2>2, <4>1, <4>2 DEF Rises
      <4>4. rank[q] \in Nat /\ rank[p] \in Nat /\ rank[p_next[p]] \in Nat
        BY <2>1, <2>2, <4>1
      <4>5. rank[q] < rank[p_next[p]]
        BY <4>3, <4>4
      <4> QED BY <2>3, <3>1, <4>5
    <3>2. CASE r # q
      BY <2>1, <2>3, <2>4, <3>2 DEF Rises
    <3> QED BY <3>1, <3>2
  <2> QED BY <2>1, <2>4 DEF Ranked, Rises
<1>13. ASSUME ~ strayed' PROVE RR!Leave(p)
  <2>1. p # p_curt_process /\ p_curt_process' = p_curt_process
    BY <1>1, <1>2, <1>9, <1>13
  <2>2. RR!RemoveAt(s, j) = t
    BY DEF RR!RemoveAt, RemoveAt, t
  <2>3. j \in DOMAIN s
    BY <1>4, <1>6
  <2> QED BY <1>3, <1>6, <1>8, <2>1, <2>2, <2>3 DEF RR!Leave
<1> QED BY <1>10, <1>11, <1>12, <1>13 DEF SInv

LEMMA ScheduleSteps ==
    ASSUME SInv, schedule
    PROVE  SInv' /\ (strayed' \/ RR!Turn \/ UNCHANGED RR!vars)
<1>1. /\ p_process_list' = p_process_list
      /\ p_curt_process' = NextProcess
      /\ p_next' = p_next
      /\ fresh' = fresh
      /\ strayed' = strayed
      /\ Types
      /\ Untouched
  BY DEF schedule, SInv
<1>2. PICK s \in Seq(Procs \ fresh) :
         Links(p_next, p_process_list, s) /\ (strayed \/ Serves(p_curt_process, s))
  BY DEF SInv, Queued
<1>3. s \in Seq(Procs) /\ List = s /\ List' = s
  <2>1. s \in Seq(Procs)
    BY <1>2, SeqWiden
  <2> QED BY <1>1, <1>2, <2>1, ListIs
<1>4. /\ Len(s) \in Nat
      /\ DOMAIN s = 1 .. Len(s)
      /\ (Len(s) = 0 <=> s = <<>>)
      /\ \A i \in 1 .. Len(s) : s[i] \in Procs
  BY <1>3
<1>5. /\ \A i \in 1 .. Len(s) : p_next[s[i]] = IF i = Len(s) THEN NULL ELSE s[i + 1]
      /\ p_process_list = IF Len(s) = 0 THEN NULL ELSE s[1]
  BY <1>2 DEF Links
<1>6. Types' /\ Untouched' /\ Ranked'
  <2>1. NextProcess \in Pointers
    BY <1>1, SchedAssumption DEF NextProcess, Types, Pointers
  <2>2. Types' /\ Untouched'
    BY <1>1, <2>1 DEF Types, Untouched
  <2> QED BY <1>1, <2>2 DEF SInv, Ranked
<1>7. ASSUME Serves(p_curt_process, s)
      PROVE  Serves(p_curt_process', s) /\ (RR!Turn \/ UNCHANGED RR!vars)
  <2>1. CASE Len(s) = 0
    <3>1. p_curt_process = NULL /\ p_curt_process' = NULL
      BY <1>1, <1>7, <2>1 DEF Serves, NextProcess
    <3> QED BY <1>3, <1>7, <3>1, <2>1 DEF Serves, RR!vars
  <2>2. CASE Len(s) # 0
    <3>1. PICK i \in 1 .. Len(s) : p_curt_process = s[i]
      BY <1>7, <2>2 DEF Serves
    <3>2. 1 \in 1 .. Len(s) /\ (i # Len(s) => i + 1 \in 1 .. Len(s))
      BY <1>4, Positions
    <3>3. p_curt_process # NULL /\ p_process_list # NULL /\ p_process_list = s[1]
      BY <1>4, <1>5, <2>2, <3>1, <3>2, SchedAssumption
    <3>4. p_curt_process' = IF i = Len(s) THEN s[1] ELSE s[i + 1]
      <4>1. p_next[s[i]] = IF i = Len(s) THEN NULL ELSE s[i + 1]
        BY <1>5
      <4>2. i # Len(s) => s[i + 1] # NULL
        BY <1>4, <3>2, SchedAssumption
      <4> QED BY <1>1, <3>1, <3>3, <4>1, <4>2 DEF NextProcess
    <3>5. (i % Len(s)) + 1 = IF i = Len(s) THEN 1 ELSE i + 1
      BY <1>4, Positions
    <3>6. RR!Turn
      BY <1>3, <1>4, <2>2, <3>1, <3>4, <3>5 DEF RR!Turn
    <3>7. Serves(p_curt_process', s)
      BY <2>2, <3>2, <3>4 DEF Serves
    <3> QED BY <3>6, <3>7
  <2> QED BY <2>1, <2>2
<1>8. Queued'
  BY <1>1, <1>2, <1>7 DEF Queued
<1> QED BY <1>1, <1>2, <1>6, <1>7, <1>8 DEF SInv

-----------------------------------------------------------------------------
LEMMA StepSInv ==
    SInv /\ [Next]_vars => SInv' /\ [strayed' \/ RR!Next]_RR!vars
<1> SUFFICES ASSUME SInv, [Next]_vars
             PROVE  SInv' /\ (strayed' \/ RR!Next \/ UNCHANGED RR!vars)
  OBVIOUS
<1>1. CASE schedule
  BY <1>1, ScheduleSteps DEF RR!Next
<1>2. ASSUME NEW p \in Procs, add_process(p)
      PROVE  SInv' /\ (strayed' \/ RR!Next)
  BY <1>2, AddSteps DEF RR!Next
<1>3. ASSUME NEW p \in Procs, remove_process(p)
      PROVE  SInv' /\ (strayed' \/ RR!Next)
  <2>1. CASE RemoveHead(p)
    BY <1>3, <2>1, RemoveHeadSteps DEF RR!Next
  <2>2. CASE RemoveInner(p)
    BY <1>3, <2>2, RemoveInnerSteps DEF RR!Next
  <2> QED BY <1>3, <2>1, <2>2 DEF remove_process
<1>4. CASE UNCHANGED vars
  <2>1. SInv'
    BY <1>4 DEF vars, SInv, Types, Untouched, Queued, Ranked
  <2>2. List' = List
    <3>1. p_next' = p_next /\ p_process_list' = p_process_list
      BY <1>4 DEF vars
    <3> QED BY <3>1, FollowWalks
  <2> QED BY <1>4, <2>1, <2>2 DEF vars, RR!vars
<1> QED BY <1>1, <1>2, <1>3, <1>4 DEF Next

THEOREM SchedInvariant == Spec => []SInv
<1>1. Init => SInv
  BY InitSInv
<1>2. SInv /\ [Next]_vars => SInv'
  BY StepSInv
<1> QED BY <1>1, <1>2, PTL DEF Spec

(* Spec implies that the links never close to a cycle, behind a removed    *)
(* process neither, and that no two listed processes share a successor:    *)
(* the loops of add_process and remove_process end, whatever the order of  *)
(* the calls.                                                              *)
THEOREM LinksEnd == Spec => []NoCycle
<1>1. SInv => NoCycle
  <2> SUFFICES ASSUME SInv PROVE NoCycle
    OBVIOUS
  <2>1. ASSUME NEW p \in Procs PROVE p \notin ToSet(Follow(p_next[p]))
    <3>1. PICK rank \in [Procs -> Nat] : Rises(p_next, rank)
      BY DEF SInv, Ranked
    <3>2. p_next \in [Procs -> Pointers]
      BY DEF SInv, Types
    <3>3. p \notin ToSet(Walk(p_next, p_next[p]))
      BY <3>1, <3>2, WalkRises
    <3> QED BY <3>3, FollowWalks
  <2>2. ASSUME NEW p \in Listed, NEW q \in Listed, p # q, p_next[p] # NULL
        PROVE  p_next[p] # p_next[q]
    <3>1. PICK s \in Seq(Procs \ fresh) : Links(p_next, p_process_list, s)
      BY DEF SInv, Queued
    <3>2. s \in Seq(Procs) /\ List = s
      <4>1. s \in Seq(Procs)
        BY <3>1, SeqWiden
      <4> QED BY <3>1, <4>1, ListIs
    <3>3. Len(s) \in Nat /\ ToSet(s) = {s[i] : i \in 1 .. Len(s)}
      BY <3>2 DEF ToSet
    <3>4. PICK i \in 1 .. Len(s), j \in 1 .. Len(s) : p = s[i] /\ q = s[j]
      BY <3>2, <3>3 DEF Listed
    <3>5. /\ p_next[s[i]] = IF i = Len(s) THEN NULL ELSE s[i + 1]
          /\ p_next[s[j]] = IF j = Len(s) THEN NULL ELSE s[j + 1]
      BY <3>1 DEF Links
    <3>6. i # Len(s) /\ p_next[p] = s[i + 1]
      BY <2>2, <3>4, <3>5
    <3>7. CASE j = Len(s)
      BY <2>2, <3>4, <3>5, <3>7
    <3>8. CASE j # Len(s)
      <4>1. i + 1 \in 1 .. Len(s) /\ j + 1 \in 1 .. Len(s)
        BY <3>3, <3>6, <3>8, Positions
      <4>2. i + 1 # j + 1
        BY <2>2, <3>4
      <4>3. s[i + 1] # s[j + 1]
        BY <3>1, <4>1, <4>2 DEF Links
      <4> QED BY <3>4, <3>5, <3>6, <3>8, <4>3
    <3> QED BY <3>7, <3>8
  <2> QED BY <2>1, <2>2 DEF NoCycle
<1> QED BY <1>1, SchedInvariant, PTL

(* Spec implements RoundRobin up to the removal of the current process:    *)
(* the list is a queue in the order of add_process, and schedule passes    *)
(* the turn to the next one, from the last to the first.                   *)
THEOREM TakesTurns == Spec => RoundRobinUntilStrayed
<1>1. Init => RR!Init
  BY InitSInv
<1>2. SInv /\ [Next]_vars => [strayed' \/ RR!Next]_RR!vars
  BY StepSInv
<1> QED BY <1>1, <1>2, SchedInvariant, PTL DEF Spec, RoundRobinUntilStrayed

=============================================================================
