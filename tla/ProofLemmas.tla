----------------------------- MODULE ProofLemmas -----------------------------
(***************************************************************************)
(* Facts about naturals and sequences that the proofs of several           *)
(* components cite.                                                        *)
(***************************************************************************)
EXTENDS Integers, Sequences, TLAPS, WellFoundedInduction

\* A non-empty set of naturals has a least element: the least-number principle, which
\* takes the place of induction over the naturals in the proofs of this project.
THEOREM NatMinimum ==
  ASSUME NEW T \in SUBSET Nat, T # {}
  PROVE  \E m \in T : \A n \in T : m <= n
<1> DEFINE R == OpToRel(<, Nat)
<1>1. IsWellFoundedOn(R, Nat)
  BY NatLessThanWellFounded
<1>2. T \subseteq Nat
  OBVIOUS
<1>3. \A x, y \in Nat : y < x => <<y, x>> \in R
  BY DEF OpToRel
<1> HIDE DEF R
<1>4. \E x \in T : \A y \in T : ~(<<y, x>> \in R)
  BY <1>1, <1>2, WFMin, Zenon
<1>5. PICK x \in T : \A y \in T : ~(<<y, x>> \in R)
  BY <1>4
<1>6. \A n \in T : x <= n
  <2> TAKE n \in T
  <2>1. x \in Nat /\ n \in Nat
    BY <1>2
  <2>2. ~(n < x)
    BY <1>3, <1>5, <2>1, Zenon
  <2> QED BY <2>1, <2>2
<1> QED BY <1>6

\* Two functions start alike, and agree at each number when they agree before it.
Follows(N, f, g) == f[0] = g[0] /\ \A i \in 1..N : f[i-1] = g[i-1] => f[i] = g[i]

AgreeUpTo(N, f, g) == \A i \in 0..N : f[i] = g[i]

\* Then they agree everywhere: how a closed form is the value of a recursion.
LEMMA SameRecursion == \A N \in Nat : \A f, g : Follows(N, f, g) => AgreeUpTo(N, f, g)
<1> SUFFICES ASSUME NEW N \in Nat, NEW f, NEW g, f[0] = g[0],
                    \A i \in 1..N : f[i-1] = g[i-1] => f[i] = g[i]
             PROVE  \A i \in 0..N : f[i] = g[i]
  BY DEF Follows, AgreeUpTo
<1> DEFINE Differ == {i \in 0..N : f[i] # g[i]}
<1> SUFFICES ASSUME Differ # {} PROVE FALSE
  OBVIOUS
<1>1. PICK m \in Differ : \A n \in Differ : m <= n
  <2>1. Differ \in SUBSET Nat
    OBVIOUS
  <2> HIDE DEF Differ
  <2> QED BY <2>1, NatMinimum
<1>2. m \in 1..N /\ m - 1 \in 0..N /\ m - 1 \notin Differ
  BY <1>1
<1> QED BY <1>1, <1>2

\* What Append adds to a sequence, and what it keeps.
LEMMA AppendFacts ==
  ASSUME NEW S, NEW q \in Seq(S), NEW x \in S
  PROVE  /\ Len(Append(q, x)) = Len(q) + 1 /\ Append(q, x)[Len(q) + 1] = x
         /\ \A i \in DOMAIN q : Append(q, x)[i] = q[i]
         /\ DOMAIN Append(q, x) = DOMAIN q \cup {Len(q) + 1}
<1>1. Len(q) \in Nat /\ DOMAIN q = 1..Len(q)
  OBVIOUS
<1>2. Len(Append(q, x)) = Len(q) + 1 /\ Append(q, x)[Len(q) + 1] = x
  OBVIOUS
<1>3. \A i \in DOMAIN q : Append(q, x)[i] = q[i]
  OBVIOUS
<1>4. DOMAIN Append(q, x) = 1..(Len(q) + 1)
  OBVIOUS
<1> QED BY <1>1, <1>2, <1>3, <1>4
=============================================================================
