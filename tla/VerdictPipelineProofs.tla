------------------------ MODULE VerdictPipelineProofs ------------------------
(* Theorems about VerdictSelection, HostVerify and VerdictPipeline, for entries, lists   *)
(* and keyrings of any size: what the loop of handleGetVerdicts keeps, what the host's     *)
(* parsers and its decision make of what gpg prints, and what is left to be shown.          *)
(* A fold is a function on the sets of positions of the list; its values on the prefixes     *)
(* 1..n are the loop's after n turns, and induction over n is the well-foundedness of the      *)
(* natural numbers.                                                                             *)
EXTENDS VerdictPipeline, FiniteSetTheorems, WellFoundedInduction, TLAPS

-----------------------------------------------------------------------------
\* Every set of natural numbers that is not empty has a least element.
LEMMA NatMin ==
    ASSUME NEW U, U \subseteq Nat, U # {}
    PROVE  \E n \in U : \A m \in U : n <= m
<1> DEFINE R == OpToRel(<, Nat)
<1>1. IsWellFoundedOn(R, Nat)
  BY NatLessThanWellFounded
<1>2. \A m, n \in U : <<m, n>> \in R <=> m < n
  BY DEF OpToRel
<1> HIDE DEF R
<1>3. PICK n \in U : \A m \in U : ~(<<m, n>> \in R)
  BY <1>1, WFMin
<1>4. \A m \in U : m \in Nat /\ n \in Nat /\ ~(m < n)
  BY <1>2, <1>3
<1>5. \A m \in U : n <= m
  BY <1>4
<1> QED
  BY <1>5

\* Induction over the turns of a loop.
LEMMA TurnByTurn ==
    ASSUME NEW N \in Nat, NEW U, 0 \in U, \A n \in 1..N : n - 1 \in U => n \in U
    PROVE  0..N \subseteq U
<1> DEFINE Rest == {n \in 0..N : n \notin U}
<1> SUFFICES ASSUME Rest # {} PROVE FALSE
  OBVIOUS
<1>1. PICK n \in Rest : \A m \in Rest : n <= m
  <2>1. Rest \subseteq Nat
    OBVIOUS
  <2> HIDE DEF Rest
  <2> QED
    BY <2>1, NatMin
<1>2. n \in 1..N /\ n - 1 \in 0..N /\ ~(n <= n - 1)
  BY <1>1
<1>3. n - 1 \in U
  BY <1>1, <1>2
<1> QED
  BY <1>1, <1>2, <1>3

\* The last of the first n positions, and those before it.
LEMMA LastOfPrefix ==
    ASSUME NEW n \in Nat \ {0} PROVE Max(1..n) = n /\ (1..n) \ {n} = 1..(n - 1)
<1>1. n \in 1..n /\ \A y \in 1..n : n >= y
  OBVIOUS
<1>2. \A x \in 1..n : (\A y \in 1..n : x >= y) => x = n
  OBVIOUS
<1>3. Max(1..n) = n
  BY <1>1, <1>2 DEF Max
<1> QED
  BY <1>3

\* A set of positions that is not empty has a last one.
LEMMA HasLast ==
    ASSUME NEW N \in Nat, NEW s \in SUBSET (1..N), s # {}
    PROVE  Max(s) \in s /\ \A i \in s : i <= Max(s)
<1> DEFINE U == {N - i : i \in s}
<1>1. U \subseteq Nat /\ U # {}
  <2>1. \A i \in s : N - i \in Nat
    OBVIOUS
  <2> QED
    BY <2>1
<1>2. PICK u \in U : \A v \in U : u <= v
  <2> HIDE DEF U
  <2> QED
    BY <1>1, NatMin
<1>3. PICK x \in s : u = N - x
  BY <1>2
<1>4. \A i \in s : x >= i
  <2> TAKE i \in s
  <2>1. u <= N - i /\ i \in Nat /\ x \in Nat
    BY <1>2
  <2> QED
    BY <2>1, <1>3
<1>5. Max(s) \in s /\ \A i \in s : Max(s) >= i
  BY <1>4 DEF Max
<1> QED
  BY <1>5

\* f folds step over every set of positions up to n, from the first to the last of the set.
FoldsUpTo(f, n, base, step) ==
    \A s \in SUBSET (1..n) :
        f[s] = IF s = {} THEN base ELSE step[<<f[s \ {Max(s)}], Max(s)>>]

Foldable(n, A, base, step) == \E f \in [SUBSET (1..n) -> A] : FoldsUpTo(f, n, base, step)

\* Whatever is folded, there is such a function: each position extends it.
LEMMA FoldExists ==
    ASSUME NEW N \in Nat, NEW A, NEW base \in A, NEW step \in [A \X (1..N) -> A]
    PROVE  Foldable(N, A, base, step)
<1> DEFINE U == {n \in 0..N : Foldable(n, A, base, step)}
<1>1. 0 \in U
  <2> DEFINE f == [s \in SUBSET (1..0) |-> base]
  <2>1. f \in [SUBSET (1..0) -> A]
    OBVIOUS
  <2>2. \A s \in SUBSET (1..0) : s = {} /\ f[s] = base
    OBVIOUS
  <2> HIDE DEF f
  <2>3. FoldsUpTo(f, 0, base, step)
    BY <2>2 DEF FoldsUpTo
  <2>4. Foldable(0, A, base, step)
    BY <2>1, <2>3 DEF Foldable
  <2> QED
    BY <2>4
<1>2. ASSUME NEW n \in 1..N, n - 1 \in U PROVE n \in U
  <2>1. PICK f \in [SUBSET (1..(n - 1)) -> A] : FoldsUpTo(f, n - 1, base, step)
    BY <1>2 DEF Foldable
  <2> DEFINE g == [s \in SUBSET (1..n) |-> IF n \in s THEN step[<<f[s \ {n}], n>>] ELSE f[s]]
  <2>2. \A s \in SUBSET (1..n) : s \ {n} \in SUBSET (1..(n - 1))
    OBVIOUS
  <2>3. \A s \in SUBSET (1..n) : n \notin s => s \in SUBSET (1..(n - 1))
    BY <2>2
  <2>4. g \in [SUBSET (1..n) -> A]
    BY <2>2, <2>3
  <2>5. \A s \in SUBSET (1..n) : g[s] = IF n \in s THEN step[<<f[s \ {n}], n>>] ELSE f[s]
    OBVIOUS
  <2> HIDE DEF g
  <2>6. ASSUME NEW s \in SUBSET (1..n)
        PROVE  g[s] = IF s = {} THEN base ELSE step[<<g[s \ {Max(s)}], Max(s)>>]
    <3>1. CASE n \in s
      <4>0. s # {} /\ n \in Nat
        BY <3>1
      <4>1. Max(s) \in s /\ n <= Max(s) /\ Max(s) \in 1..n
        BY <3>1, <4>0, HasLast
      <4>2. Max(s) = n
        BY <4>1
      <4>3. g[s \ {n}] = f[s \ {n}]
        BY <2>5
      <4> QED
        BY <2>5, <3>1, <4>2, <4>3
    <3>2. CASE n \notin s
      <4>1. s \in SUBSET (1..(n - 1)) /\ g[s] = f[s]
        BY <2>3, <2>5, <3>2
      <4>2. f[s] = IF s = {} THEN base ELSE step[<<f[s \ {Max(s)}], Max(s)>>]
        BY <2>1, <4>1 DEF FoldsUpTo
      <4>3. g[s \ {Max(s)}] = f[s \ {Max(s)}]
        BY <2>5, <3>2
      <4> QED
        BY <4>1, <4>2, <4>3
    <3> QED
      BY <3>1, <3>2
  <2>7. FoldsUpTo(g, n, base, step)
    BY <2>6 DEF FoldsUpTo
  <2> QED
    BY <2>4, <2>7 DEF Foldable
<1>3. 0..N \subseteq U
  <2> HIDE DEF U
  <2> QED
    BY <1>1, <1>2, TurnByTurn
<1>4. N \in U
  BY <1>3
<1> QED
  BY <1>4


-----------------------------------------------------------------------------
\* Entries that handleGetVerdicts looks at.
Eligible(trusted, x) == x.category # "" /\ x.signer_keyid \in trusted

\* The entry of x's signer and category is replaced if it is older.
Replaces(latest, x, result) ==
    \E at \in 1..Len(latest) :
        /\ Key(latest[at]) = Key(x)
        /\ result = IF x.server_timestamp > latest[at].server_timestamp
                    THEN [latest EXCEPT ![at] = x] ELSE latest

\* One turn of the loop, without the search for the place in the map.
LEMMA ConsiderIs ==
    ASSUME NEW S, NEW latest \in Seq(S), NEW x, NEW trusted
    PROVE  /\ ~Eligible(trusted, x) => Consider(trusted, latest, x) = latest
           /\ Eligible(trusted, x) =>
                 IF \A i \in 1..Len(latest) : Key(latest[i]) # Key(x)
                 THEN Consider(trusted, latest, x) = Append(latest, x)
                 ELSE Replaces(latest, x, Consider(trusted, latest, x))
<1> DEFINE I  == {i \in 1..Len(latest) : Key(latest[i]) = Key(x)}
           at == IF I # {} THEN Min(I) ELSE 0
<1>1. Consider(trusted, latest, x) =
          IF x.category = "" \/ x.signer_keyid \notin trusted
          THEN latest
          ELSE IF at = 0 THEN Append(latest, x)
          ELSE IF x.server_timestamp > latest[at].server_timestamp
          THEN [latest EXCEPT ![at] = x]
          ELSE latest
  BY DEF Consider, SelectInSeq, ReplaceAt
<1>2. I \subseteq Nat /\ Len(latest) \in Nat
  OBVIOUS
<1>3. I # {} => at \in I
  <2> SUFFICES ASSUME I # {} PROVE Min(I) \in I
    OBVIOUS
  <2> HIDE DEF I
  <2>1. \E n \in I : \A m \in I : n <= m
    BY <1>2, NatMin
  <2> QED
    BY <2>1 DEF Min
<1>4. I = {} => at = 0
  OBVIOUS
<1>5. \A i \in I : i \in 1..Len(latest) /\ Key(latest[i]) = Key(x) /\ i # 0
  BY <1>2
<1>6. (\A i \in 1..Len(latest) : Key(latest[i]) # Key(x)) <=> I = {}
  OBVIOUS
<1> HIDE DEF I, at
<1>7. CASE ~Eligible(trusted, x)
  BY <1>1, <1>7 DEF Eligible
<1>8. CASE Eligible(trusted, x) /\ I = {}
  BY <1>1, <1>4, <1>6, <1>8 DEF Eligible
<1>9. CASE Eligible(trusted, x) /\ I # {}
  <2>1. at \in 1..Len(latest) /\ Key(latest[at]) = Key(x) /\ at # 0
    BY <1>3, <1>5, <1>9
  <2>2. Consider(trusted, latest, x) =
            IF x.server_timestamp > latest[at].server_timestamp
            THEN [latest EXCEPT ![at] = x] ELSE latest
    BY <1>1, <1>9, <2>1 DEF Eligible
  <2>3. Replaces(latest, x, Consider(trusted, latest, x))
    BY <2>1, <2>2 DEF Replaces
  <2> QED
    BY <1>6, <1>9, <2>3
<1> QED
  BY <1>7, <1>8, <1>9

\* A turn of the loop keeps a map of entries one.
LEMMA ConsiderType ==
    ASSUME NEW S, NEW latest \in Seq(S), NEW x \in S, NEW trusted
    PROVE  Consider(trusted, latest, x) \in Seq(S)
<1>1. CASE ~Eligible(trusted, x)
  BY <1>1, ConsiderIs
<1>2. CASE Eligible(trusted, x) /\ \A i \in 1..Len(latest) : Key(latest[i]) # Key(x)
  BY <1>2, ConsiderIs
<1>3. CASE Eligible(trusted, x) /\ ~(\A i \in 1..Len(latest) : Key(latest[i]) # Key(x))
  <2>1. Replaces(latest, x, Consider(trusted, latest, x))
    BY <1>3, ConsiderIs
  <2> QED
    BY <2>1 DEF Replaces
<1> QED
  BY <1>1, <1>2, <1>3

\* What the loop has after each turn.
IsLoop(list, trusted, after) ==
    /\ after[0] = <<>>
    /\ \A n \in 1..Len(list) : after[n] = Consider(trusted, after[n - 1], list[n])
    /\ after[Len(list)] = KeepLatest(list, trusted)

\* The fold of KeepLatest is such a loop.
LEMMA KeepLatestIsLoop ==
    ASSUME NEW S, NEW list \in Seq(S), NEW trusted
    PROVE  \E after : IsLoop(list, trusted, after)
<1> DEFINE N == Len(list)
           A == Seq(S)
           step == [an \in A \X (1..N) |-> Consider(trusted, an[1], list[an[2]])]
           Is(f) == f = [s \in SUBSET DOMAIN list |->
                           IF s = {} THEN <<>>
                           ELSE Consider(trusted, f[s \ {Max(s)}], list[Max(s)])]
<1>1. N \in Nat /\ DOMAIN list = 1..N /\ <<>> \in A /\ \A n \in 1..N : list[n] \in S
  OBVIOUS
<1>2. step \in [A \X (1..N) -> A]
  <2>1. \A an \in A \X (1..N) : an[1] \in Seq(S) /\ list[an[2]] \in S
    BY <1>1
  <2>2. \A an \in A \X (1..N) : Consider(trusted, an[1], list[an[2]]) \in A
    BY <2>1, ConsiderType
  <2> QED
    BY <2>2
<1>3. \A a \in A, n \in 1..N : step[<<a, n>>] = Consider(trusted, a, list[n])
  OBVIOUS
<1>4. \E f : Is(f)
  <2>1. PICK f \in [SUBSET (1..N) -> A] : FoldsUpTo(f, N, <<>>, step)
    <3> HIDE DEF step, A, N
    <3>1. Foldable(N, A, <<>>, step)
      BY <1>1, <1>2, FoldExists
    <3> QED
      BY <3>1 DEF Foldable
  <2>2. ASSUME NEW s \in SUBSET (1..N), s # {}
        PROVE  f[s] = Consider(trusted, f[s \ {Max(s)}], list[Max(s)])
    <3>1. Max(s) \in 1..N /\ f[s \ {Max(s)}] \in A
      BY <1>1, <2>2, HasLast
    <3> QED
      BY <1>3, <2>1, <2>2, <3>1 DEF FoldsUpTo
  <2>3. f[{}] = <<>>
    BY <2>1 DEF FoldsUpTo
  <2>4. f = [s \in SUBSET (1..N) |-> f[s]]
    OBVIOUS
  <2>5. [s \in SUBSET (1..N) |-> f[s]]
        = [s \in SUBSET (1..N) |-> IF s = {} THEN <<>>
                                   ELSE Consider(trusted, f[s \ {Max(s)}], list[Max(s)])]
    BY <2>2, <2>3
  <2> QED
    BY <1>1, <2>4, <2>5
<1> DEFINE f == CHOOSE f : Is(f)
<1>5. KeepLatest(list, trusted) = f[1..N]
  BY <1>1 DEF KeepLatest, FoldLeft, MapThenFoldSet
<1>6. Is(f)
  BY <1>4
<1>7. \A s \in SUBSET (1..N) :
          f[s] = IF s = {} THEN <<>> ELSE Consider(trusted, f[s \ {Max(s)}], list[Max(s)])
  <2> HIDE DEF f
  <2> QED
    BY <1>1, <1>6
<1> HIDE DEF f, Is
<1> DEFINE after == [n \in 0..N |-> f[1..n]]
<1>8. after[0] = <<>> /\ after[N] = f[1..N]
  <2>1. 1..0 = {} /\ {} \in SUBSET (1..N) /\ 0 \in 0..N /\ N \in 0..N
    BY <1>1
  <2>2. after[0] = f[1..0] /\ after[N] = f[1..N]
    BY <2>1
  <2>3. f[{}] = <<>>
    BY <1>7, <2>1
  <2> QED
    BY <2>1, <2>2, <2>3
<1>9. ASSUME NEW n \in 1..N
      PROVE  after[n] = Consider(trusted, after[n - 1], list[n])
  <2>1. 1..n \in SUBSET (1..N) /\ n \in 1..n /\ n \in Nat \ {0} /\ n - 1 \in 0..N /\ n \in 0..N
    BY <1>1
  <2>2. Max(1..n) = n /\ (1..n) \ {n} = 1..(n - 1)
    BY <2>1, LastOfPrefix
  <2>3. after[n] = f[1..n] /\ after[n - 1] = f[1..(n - 1)]
    BY <2>1
  <2>4. 1..n # {}
    BY <2>1
  <2>5. f[1..n] = Consider(trusted, f[(1..n) \ {Max(1..n)}], list[Max(1..n)])
    BY <1>7, <2>1, <2>4
  <2> QED
    BY <2>2, <2>3, <2>5
<1> HIDE DEF after
<1> QED
  BY <1>5, <1>8, <1>9 DEF IsLoop

\* What the loop keeps are entries of the list.
LEMMA KeepLatestType ==
    ASSUME NEW S, NEW list \in Seq(S), NEW trusted PROVE KeepLatest(list, trusted) \in Seq(S)
<1>1. PICK after : IsLoop(list, trusted, after)
  BY KeepLatestIsLoop
<1> DEFINE U == {n \in 0..Len(list) : after[n] \in Seq(S)}
<1>2. 0 \in U
  <2>1. after[0] = <<>>
    BY <1>1 DEF IsLoop
  <2>2. after[0] \in Seq(S)
    BY <2>1
  <2>3. 0 \in 0..Len(list)
    OBVIOUS
  <2> QED
    BY <2>2, <2>3
<1>3. ASSUME NEW n \in 1..Len(list), n - 1 \in U PROVE n \in U
  <2>1. after[n] = Consider(trusted, after[n - 1], list[n])
    BY <1>1 DEF IsLoop
  <2> QED
    BY <1>3, <2>1, ConsiderType
<1>4. Len(list) \in U
  <2>1. Len(list) \in Nat
    OBVIOUS
  <2> HIDE DEF U
  <2>2. 0..Len(list) \subseteq U
    BY <1>2, <1>3, <2>1, TurnByTurn
  <2> QED
    BY <2>1, <2>2
<1> QED
  BY <1>1, <1>4 DEF IsLoop

-----------------------------------------------------------------------------
\* Of the first n entries of the list, none of the same signer and category is newer than
\* that at position m: none has a later timestamp, nor the same one and an earlier place.
NoneNewer(list, n, m) ==
    \A k \in 1..n : Key(list[k]) = Key(list[m]) =>
        \/ list[k].server_timestamp < list[m].server_timestamp
        \/ list[k].server_timestamp = list[m].server_timestamp /\ m <= k

\* What the map holds after n turns: for each trusted signer and category that occurs, its
\* newest entry, and nothing else.
NewestKept(list, trusted, n, latest) ==
    /\ latest \in Seq(Range(list))
    /\ \A i \in 1..Len(latest) : \E m \in 1..n :
          latest[i] = list[m] /\ Eligible(trusted, list[m]) /\ NoneNewer(list, n, m)
    /\ \A k \in 1..n : Eligible(trusted, list[k]) =>
          \E i \in 1..Len(latest) : Key(latest[i]) = Key(list[k])
    /\ \A i, j \in 1..Len(latest) : Key(latest[i]) = Key(latest[j]) => i = j

\* A turn of the loop, given what the ones before it have left.
LEMMA NewestTurn ==
    ASSUME NEW S, NEW list \in Seq(S), \A x \in S : x.server_timestamp \in Int,
           NEW trusted, NEW n \in 1..Len(list), NEW latest,
           NewestKept(list, trusted, n - 1, latest)
    PROVE  NewestKept(list, trusted, n, Consider(trusted, latest, list[n]))
<1> DEFINE x == list[n]
           next == Consider(trusted, latest, x)
<1>1. /\ n \in 1..Len(list) /\ n - 1 \in Nat /\ n \in Nat /\ 1..n = (1..(n - 1)) \union {n}
      /\ n \notin 1..(n - 1) /\ x \in Range(list) /\ Range(list) \subseteq S
  BY DEF Range
<1>2. \A k \in 1..n : list[k] \in S /\ list[k].server_timestamp \in Int
  BY <1>1
<1>3. latest \in Seq(Range(list)) /\ Len(latest) \in Nat
  BY DEF NewestKept
<1>4. next \in Seq(Range(list))
  BY <1>1, <1>3, ConsiderType
<1>5. ASSUME NEW i \in 1..Len(latest)
      PROVE  \E m \in 1..(n - 1) :
                /\ latest[i] = list[m] /\ Eligible(trusted, list[m])
                /\ NoneNewer(list, n - 1, m)
  BY <1>5 DEF NewestKept
<1>6. \A m \in 1..(n - 1) : NoneNewer(list, n - 1, m) /\ Key(x) # Key(list[m])
                               => NoneNewer(list, n, m)
  BY <1>1 DEF NoneNewer
<1>7. CASE ~Eligible(trusted, x)
  <2>1. next = latest
    BY <1>3, <1>7, ConsiderIs
  <2>2. \A m \in 1..(n - 1) : Eligible(trusted, list[m]) => Key(x) # Key(list[m])
    BY <1>7 DEF Eligible, Key
  <2> QED
    BY <1>1, <1>4, <1>5, <1>6, <1>7, <2>1, <2>2 DEF NewestKept
<1>8. CASE Eligible(trusted, x) /\ \A i \in 1..Len(latest) : Key(latest[i]) # Key(x)
  <2>1. next = Append(latest, x)
    BY <1>3, <1>8, ConsiderIs
  <2>2. /\ Len(next) = Len(latest) + 1 /\ next[Len(latest) + 1] = x
        /\ \A i \in 1..Len(latest) : next[i] = latest[i]
        /\ 1..Len(next) = (1..Len(latest)) \union {Len(latest) + 1}
    BY <1>3, <2>1
  <2>3. \A k \in 1..(n - 1) : Key(list[k]) # Key(x)
    <3>1. \A k \in 1..(n - 1) : Eligible(trusted, list[k]) => Key(list[k]) # Key(x)
      BY <1>8 DEF NewestKept
    <3>2. \A k \in 1..(n - 1) : Key(list[k]) = Key(x) => Eligible(trusted, list[k])
      BY <1>8 DEF Eligible, Key
    <3> QED
      BY <3>1, <3>2
  <2>4. NoneNewer(list, n, n)
    BY <1>1, <1>2, <2>3 DEF NoneNewer
  <2>5. ASSUME NEW i \in 1..Len(next)
        PROVE  \E m \in 1..n : next[i] = list[m] /\ Eligible(trusted, list[m]) /\ NoneNewer(list, n, m)
    <3>1. CASE i \in 1..Len(latest)
      <4>1. PICK m \in 1..(n - 1) : /\ latest[i] = list[m] /\ Eligible(trusted, list[m])
                                    /\ NoneNewer(list, n - 1, m)
        BY <1>5, <3>1
      <4>2. NoneNewer(list, n, m)
        BY <1>6, <2>3, <4>1
      <4> QED
        BY <1>1, <2>2, <3>1, <4>1, <4>2
    <3>2. CASE i = Len(latest) + 1
      BY <1>1, <1>8, <2>2, <2>4, <3>2
    <3> QED
      BY <2>2, <3>1, <3>2
  <2>6. ASSUME NEW k \in 1..n, Eligible(trusted, list[k])
        PROVE  \E i \in 1..Len(next) : Key(next[i]) = Key(list[k])
    <3>1. CASE k \in 1..(n - 1)
      <4>1. PICK i \in 1..Len(latest) : Key(latest[i]) = Key(list[k])
        BY <2>6, <3>1 DEF NewestKept
      <4> QED
        BY <2>2, <4>1
    <3>2. CASE k = n
      BY <2>2, <3>2
    <3> QED
      BY <1>1, <3>1, <3>2
  <2>7. ASSUME NEW i \in 1..Len(next), NEW j \in 1..Len(next), Key(next[i]) = Key(next[j])
        PROVE  i = j
    BY <1>8, <2>2, <2>7 DEF NewestKept
  <2> QED
    BY <1>4, <2>5, <2>6, <2>7 DEF NewestKept
<1>9. CASE Eligible(trusted, x) /\ ~(\A i \in 1..Len(latest) : Key(latest[i]) # Key(x))
  <2>1. Replaces(latest, x, next)
    BY <1>3, <1>9, ConsiderIs
  <2>2. PICK at \in 1..Len(latest) :
            /\ Key(latest[at]) = Key(x)
            /\ next = IF x.server_timestamp > latest[at].server_timestamp
                      THEN [latest EXCEPT ![at] = x] ELSE latest
    BY <2>1 DEF Replaces
  <2>3. PICK a \in 1..(n - 1) : /\ latest[at] = list[a] /\ Eligible(trusted, list[a])
                                /\ NoneNewer(list, n - 1, a)
    BY <1>5
  <2>4. /\ Len(next) = Len(latest) /\ \A i \in 1..Len(latest) : i # at => next[i] = latest[i]
        /\ Key(next[at]) = Key(x)
    BY <1>3, <2>2
  <2>5. \A i \in 1..Len(latest) : Key(next[i]) = Key(latest[i])
    BY <2>2, <2>4
  <2>6. ASSUME NEW i \in 1..Len(next)
        PROVE  \E m \in 1..n : next[i] = list[m] /\ Eligible(trusted, list[m]) /\ NoneNewer(list, n, m)
    <3>1. CASE i # at
      <4>1. PICK m \in 1..(n - 1) : /\ latest[i] = list[m] /\ Eligible(trusted, list[m])
                                    /\ NoneNewer(list, n - 1, m)
        BY <1>5, <2>4
      <4>2. Key(x) # Key(list[m])
        BY <2>2, <2>4, <3>1, <4>1 DEF NewestKept
      <4> QED
        BY <1>1, <1>6, <2>4, <3>1, <4>1, <4>2
    <3>2. CASE i = at /\ x.server_timestamp > latest[at].server_timestamp
      <4>1. next[at] = x
        BY <1>3, <2>2, <3>2
      <4>2. \A k \in 1..(n - 1) : Key(list[k]) = Key(x) =>
                list[k].server_timestamp < x.server_timestamp
        <5> TAKE k \in 1..(n - 1)
        <5> HAVE Key(list[k]) = Key(x)
        <5>1. list[k].server_timestamp \in Int /\ x.server_timestamp \in Int
              /\ list[a].server_timestamp \in Int
          BY <1>1, <1>2
        <5>2. \/ list[k].server_timestamp < list[a].server_timestamp
              \/ list[k].server_timestamp = list[a].server_timestamp
          BY <2>2, <2>3 DEF NoneNewer
        <5> QED
          BY <2>3, <3>2, <5>1, <5>2
      <4>3. NoneNewer(list, n, n)
        <5> SUFFICES ASSUME NEW k \in 1..n, Key(list[k]) = Key(list[n])
                     PROVE  \/ list[k].server_timestamp < list[n].server_timestamp
                            \/ list[k].server_timestamp = list[n].server_timestamp /\ n <= k
          BY DEF NoneNewer
        <5>1. CASE k = n
          BY <1>1, <5>1
        <5>2. CASE k \in 1..(n - 1)
          BY <4>2, <5>2
        <5> QED
          BY <1>1, <5>1, <5>2
      <4>4. next[i] = list[n] /\ Eligible(trusted, list[n]) /\ n \in 1..n
        BY <1>1, <1>9, <3>2, <4>1
      <4> QED
        BY <4>3, <4>4
    <3>3. CASE i = at /\ ~(x.server_timestamp > latest[at].server_timestamp)
      <4>1. x.server_timestamp \in Int /\ list[a].server_timestamp \in Int /\ a <= n
        BY <1>1, <1>2
      <4>2. \/ x.server_timestamp < list[a].server_timestamp
            \/ x.server_timestamp = list[a].server_timestamp /\ a <= n
        BY <2>3, <3>3, <4>1
      <4>3. NoneNewer(list, n, a)
        BY <1>1, <2>3, <4>2 DEF NoneNewer
      <4> QED
        BY <1>1, <2>2, <2>3, <3>3, <4>3
    <3> QED
      BY <3>1, <3>2, <3>3
  <2>7. ASSUME NEW k \in 1..n, Eligible(trusted, list[k])
        PROVE  \E i \in 1..Len(next) : Key(next[i]) = Key(list[k])
    <3>1. CASE k \in 1..(n - 1)
      <4>1. PICK i \in 1..Len(latest) : Key(latest[i]) = Key(list[k])
        BY <2>7, <3>1 DEF NewestKept
      <4> QED
        BY <2>4, <2>5, <4>1
    <3>2. CASE k = n
      BY <2>4, <3>2
    <3> QED
      BY <1>1, <3>1, <3>2
  <2>8. ASSUME NEW i \in 1..Len(next), NEW j \in 1..Len(next), Key(next[i]) = Key(next[j])
        PROVE  i = j
    BY <2>4, <2>5, <2>8 DEF NewestKept
  <2> QED
    BY <1>4, <2>6, <2>7, <2>8 DEF NewestKept
<1> QED
  BY <1>7, <1>8, <1>9

\* The loop keeps exactly the newest entry of every trusted signer in every category, for
\* lists of any length (service-worker.js:238, "keep latest entry per (signer, category)").
THEOREM KeepLatestKeepsNewest ==
    ASSUME NEW S, NEW list \in Seq(S), \A x \in S : x.server_timestamp \in Int, NEW trusted
    PROVE  NewestKept(list, trusted, Len(list), KeepLatest(list, trusted))
<1>1. PICK after : IsLoop(list, trusted, after)
  BY KeepLatestIsLoop
<1> DEFINE U == {n \in 0..Len(list) : NewestKept(list, trusted, n, after[n])}
<1>2. 0 \in U
  <2>1. NewestKept(list, trusted, 0, <<>>)
    BY DEF NewestKept
  <2> QED
    BY <1>1, <2>1 DEF IsLoop
<1>3. ASSUME NEW n \in 1..Len(list), n - 1 \in U PROVE n \in U
  <2>1. NewestKept(list, trusted, n - 1, after[n - 1])
    BY <1>3
  <2>2. NewestKept(list, trusted, n, Consider(trusted, after[n - 1], list[n]))
    BY <2>1, NewestTurn
  <2> QED
    BY <1>1, <2>2 DEF IsLoop
<1>4. 0..Len(list) \subseteq U
  <2>1. Len(list) \in Nat
    OBVIOUS
  <2> HIDE DEF U
  <2> QED
    BY <1>2, <1>3, <2>1, TurnByTurn
<1>5. Len(list) \in U
  BY <1>4
<1> QED
  BY <1>1, <1>5 DEF IsLoop


-----------------------------------------------------------------------------
\* result holds the elements at positions I of list, in their order: at[j] is the
\* position that the element j comes from.
Places(list, I, result, at) ==
    /\ at \in [1..Len(result) -> I]
    /\ \A j \in 1..Len(result) : result[j] = list[at[j]]
    /\ \A j, k \in 1..Len(result) : j < k => at[j] < at[k]
    /\ \A i \in I : \E j \in 1..Len(result) : at[j] = i

Picks(list, I, result) ==
    /\ I \subseteq 1..Len(list)
    /\ result \in Seq(Range(list))
    /\ \E at : Places(list, I, result, at)

\* Before the first turn of a loop that picks, nothing has been picked.
LEMMA PicksNone ==
    ASSUME NEW S, NEW list \in Seq(S) PROVE Picks(list, {}, <<>>)
<1> DEFINE none == [j \in 1..0 |-> j]
<1>1. 1..0 = {} /\ Len(<<>>) = 0
  OBVIOUS
<1>2. none \in [1..Len(<<>>) -> {}]
  BY <1>1
<1>3. Places(list, {}, <<>>, none)
  BY <1>1, <1>2 DEF Places
<1> QED
  BY <1>3 DEF Picks

\* A turn adds one position behind all others, or none.
LEMMA PicksTurn ==
    ASSUME NEW S, NEW list \in Seq(S), NEW I, NEW n \in 1..Len(list), NEW result,
           I \subseteq 1..(n - 1), Picks(list, I, result)
    PROVE  Picks(list, I \union {n}, Append(result, list[n]))
<1> DEFINE more == Append(result, list[n])
           L == Len(result)
<1>1. result \in Seq(Range(list)) /\ L \in Nat /\ list[n] \in Range(list) /\ n \in Nat
  BY DEF Picks, Range
<1>2. more \in Seq(Range(list)) /\ Len(more) = L + 1 /\ more[L + 1] = list[n]
      /\ \A j \in 1..L : more[j] = result[j]
  BY <1>1
<1>3. PICK at : Places(list, I, result, at)
  BY DEF Picks
<1> DEFINE next == [j \in 1..(L + 1) |-> IF j = L + 1 THEN n ELSE at[j]]
<1>4. \A j \in 1..L : at[j] \in I /\ at[j] < n /\ at[j] \in Nat
  <2>1. \A j \in 1..L : at[j] \in I
    BY <1>3 DEF Places
  <2>2. \A i \in I : i < n /\ i \in Nat
    BY <1>1
  <2> QED
    BY <2>1, <2>2
<1>5. \A j \in 1..(L + 1) : j = L + 1 \/ j \in 1..L
  BY <1>1
<1>6. next[L + 1] = n /\ \A j \in 1..L : next[j] = at[j]
  BY <1>1
<1>7. next \in [1..(L + 1) -> I \union {n}]
  BY <1>4, <1>5
<1> HIDE DEF next, more, L
<1>8. \A j \in 1..(L + 1) : more[j] = list[next[j]]
  BY <1>2, <1>3, <1>5, <1>6 DEF Places, L
<1>9. ASSUME NEW j \in 1..(L + 1), NEW k \in 1..(L + 1), j < k PROVE next[j] < next[k]
  <2>1. j \in 1..L
    BY <1>1, <1>9
  <2>2. CASE k = L + 1
    BY <1>4, <1>6, <2>1, <2>2
  <2>3. CASE k \in 1..L
    BY <1>3, <1>6, <1>9, <2>1, <2>3 DEF Places, L
  <2> QED
    BY <1>5, <2>2, <2>3
<1>10. ASSUME NEW i \in I \union {n} PROVE \E j \in 1..(L + 1) : next[j] = i
  <2>1. CASE i = n
    BY <1>1, <1>6, <2>1
  <2>2. CASE i \in I
    <3>1. PICK j \in 1..L : at[j] = i
      BY <1>3, <2>2 DEF Places, L
    <3>2. j \in 1..(L + 1)
      BY <1>1
    <3> QED
      BY <1>6, <3>1, <3>2
  <2> QED
    BY <2>1, <2>2
<1>11. Places(list, I \union {n}, more, next)
  BY <1>2, <1>7, <1>8, <1>9, <1>10 DEF Places
<1>12. I \union {n} \subseteq 1..Len(list)
  BY <1>1
<1>13. Picks(list, I \union {n}, more)
  BY <1>2, <1>11, <1>12 DEF Picks
<1> QED
  BY <1>13 DEF more

Agree(r, q, at, to) == \A j \in 1..Len(r) : j <= Len(q) /\ at[j] = to[j]

\* Positions determine what is picked: the first place at which two results would differ
\* has no position to come from.
LEMMA PlacesAgree ==
    ASSUME NEW list, NEW I, I \subseteq Nat, NEW r, NEW q, NEW at, NEW to,
           Len(r) \in Nat, Len(q) \in Nat,
           Places(list, I, r, at), Places(list, I, q, to)
    PROVE  Agree(r, q, at, to)
<1> DEFINE Bad == {j \in 1..Len(r) : ~(j <= Len(q) /\ at[j] = to[j])}
<1> SUFFICES ASSUME Bad # {} PROVE FALSE
  BY DEF Agree
<1>0. (\A j \in 1..Len(r) : at[j] \in Nat) /\ (\A j \in 1..Len(q) : to[j] \in Nat)
  <2>1. (\A j \in 1..Len(r) : at[j] \in I) /\ (\A j \in 1..Len(q) : to[j] \in I)
    BY DEF Places
  <2> QED
    BY <2>1
<1>1. PICK j \in Bad : \A k \in Bad : j <= k
  <2>1. Bad \subseteq Nat
    OBVIOUS
  <2> HIDE DEF Bad
  <2> QED
    BY <2>1, NatMin
<1>2. j \in 1..Len(r) /\ j \in Nat /\ at[j] \in I /\ at[j] \in Nat
  <2>1. j \in 1..Len(r)
    OBVIOUS
  <2>2. at[j] \in I
    BY <2>1 DEF Places
  <2> QED
    BY <1>0, <2>1, <2>2
<1>3. \A k \in 1..Len(r) : k < j => k <= Len(q) /\ at[k] = to[k]
  BY <1>1, <1>2
<1>4. PICK k \in 1..Len(q) : to[k] = at[j]
  BY <1>2 DEF Places
<1>5. ~(k < j)
  <2> SUFFICES ASSUME k < j PROVE FALSE
    OBVIOUS
  <2>1. k \in 1..Len(r) /\ at[k] = to[k]
    BY <1>2, <1>3
  <2>2. at[k] < at[j]
    BY <1>2, <2>1 DEF Places
  <2> QED
    BY <1>2, <1>4, <2>1, <2>2
<1>6. k # j
  BY <1>1, <1>4
<1>7. j \in 1..Len(q) /\ j < k
  BY <1>2, <1>5, <1>6
<1>8. to[j] < at[j] /\ to[j] \in I /\ to[j] \in Nat
  BY <1>0, <1>4, <1>7 DEF Places
<1>9. PICK i \in 1..Len(r) : at[i] = to[j]
  BY <1>8 DEF Places
<1>10. i < j
  <2> SUFFICES ASSUME ~(i < j) PROVE FALSE
    OBVIOUS
  <2>1. i = j \/ j < i
    BY <1>2
  <2>2. at[j] < at[i] \/ at[j] = at[i]
    BY <1>2, <1>9, <2>1 DEF Places
  <2> QED
    BY <1>2, <1>8, <1>9, <2>2
<1>11. to[i] = to[j] /\ i \in 1..Len(q)
  BY <1>3, <1>7, <1>9, <1>10
<1>12. to[i] < to[j]
  BY <1>7, <1>10, <1>11 DEF Places
<1> QED
  BY <1>8, <1>11, <1>12

\* What is picked from a list at some positions is one sequence.
LEMMA PicksUnique ==
    ASSUME NEW list, Len(list) \in Nat, NEW I, NEW r, NEW q, Picks(list, I, r), Picks(list, I, q)
    PROVE  r = q
<1>1. PICK at : Places(list, I, r, at)
  BY DEF Picks
<1>2. PICK to : Places(list, I, q, to)
  BY DEF Picks
<1>3. r \in Seq(Range(list)) /\ q \in Seq(Range(list)) /\ I \subseteq Nat
  <2>1. 1..Len(list) \subseteq Nat
    OBVIOUS
  <2> QED
    BY <2>1 DEF Picks
<1>4. Len(r) \in Nat /\ Len(q) \in Nat
  BY <1>3
<1>5. Agree(r, q, at, to)
  BY <1>1, <1>2, <1>3, <1>4, PlacesAgree
<1>6. Agree(q, r, to, at)
  BY <1>1, <1>2, <1>3, <1>4, PlacesAgree
<1>7. Len(r) = Len(q)
  BY <1>4, <1>5, <1>6 DEF Agree
<1>8. \A j \in 1..Len(r) : r[j] = q[j]
  BY <1>1, <1>2, <1>5, <1>7 DEF Places, Agree
<1> QED
  BY <1>3, <1>7, <1>8

\* All positions make up the list, and one position one element.
LEMMA PicksAll ==
    ASSUME NEW S, NEW list \in Seq(S) PROVE Picks(list, 1..Len(list), list)
<1> DEFINE at == [j \in 1..Len(list) |-> j]
<1>1. Places(list, 1..Len(list), list, at)
  BY DEF Places
<1>2. list \in Seq(Range(list))
  BY DEF Range
<1> QED
  BY <1>1, <1>2 DEF Picks

\* A position alone picks its element.
LEMMA PicksOne ==
    ASSUME NEW S, NEW list \in Seq(S), NEW n \in 1..Len(list)
    PROVE  Picks(list, {n}, <<list[n]>>)
<1>1. Picks(list, {}, <<>>) /\ {} \subseteq 1..(n - 1)
  BY PicksNone
<1>2. Picks(list, {} \union {n}, Append(<<>>, list[n]))
  BY <1>1, PicksTurn
<1>3. {} \union {n} = {n} /\ Append(<<>>, list[n]) = <<list[n]>>
  OBVIOUS
<1> QED
  BY <1>2, <1>3

-----------------------------------------------------------------------------
\* What Filter has after each turn.
FilterTurn(passed, x, P) == IF x \in P THEN Append(passed, x) ELSE passed

IsFilter(list, P, after) ==
    /\ after[0] = <<>>
    /\ \A n \in 1..Len(list) : after[n] = FilterTurn(after[n - 1], list[n], P)
    /\ after[Len(list)] = Filter(list, P)

\* The fold of Filter is such a loop.
LEMMA FilterIsLoop ==
    ASSUME NEW S, NEW list \in Seq(S), NEW P
    PROVE  \E after : IsFilter(list, P, after)
<1> DEFINE N == Len(list)
           A == Seq(S)
           step == [an \in A \X (1..N) |-> FilterTurn(an[1], list[an[2]], P)]
           Is(f) == f = [s \in SUBSET DOMAIN list |->
                           IF s = {} THEN <<>>
                           ELSE FilterTurn(f[s \ {Max(s)}], list[Max(s)], P)]
<1>1. N \in Nat /\ DOMAIN list = 1..N /\ <<>> \in A /\ \A n \in 1..N : list[n] \in S
  OBVIOUS
<1>2. step \in [A \X (1..N) -> A]
  <2>1. \A an \in A \X (1..N) : an[1] \in Seq(S) /\ list[an[2]] \in S
    BY <1>1
  <2>2. \A an \in A \X (1..N) : FilterTurn(an[1], list[an[2]], P) \in A
    BY <2>1 DEF FilterTurn
  <2> QED
    BY <2>2
<1>3. \A a \in A, n \in 1..N : step[<<a, n>>] = FilterTurn(a, list[n], P)
  OBVIOUS
<1>4. \E f : Is(f)
  <2>1. PICK f \in [SUBSET (1..N) -> A] : FoldsUpTo(f, N, <<>>, step)
    <3> HIDE DEF step, A, N
    <3>1. Foldable(N, A, <<>>, step)
      BY <1>1, <1>2, FoldExists
    <3> QED
      BY <3>1 DEF Foldable
  <2>2. ASSUME NEW s \in SUBSET (1..N), s # {}
        PROVE  f[s] = FilterTurn(f[s \ {Max(s)}], list[Max(s)], P)
    <3>1. Max(s) \in 1..N /\ f[s \ {Max(s)}] \in A
      BY <1>1, <2>2, HasLast
    <3> QED
      BY <1>3, <2>1, <2>2, <3>1 DEF FoldsUpTo
  <2>3. f[{}] = <<>>
    BY <2>1 DEF FoldsUpTo
  <2>4. f = [s \in SUBSET (1..N) |-> f[s]]
    OBVIOUS
  <2>5. [s \in SUBSET (1..N) |-> f[s]]
        = [s \in SUBSET (1..N) |-> IF s = {} THEN <<>>
                                   ELSE FilterTurn(f[s \ {Max(s)}], list[Max(s)], P)]
    BY <2>2, <2>3
  <2> QED
    BY <1>1, <2>4, <2>5
<1> DEFINE f == CHOOSE f : Is(f)
<1>5. Filter(list, P) = f[1..N]
  BY <1>1 DEF Filter, FoldLeft, MapThenFoldSet, FilterTurn
<1>6. Is(f)
  BY <1>4
<1>7. \A s \in SUBSET (1..N) :
          f[s] = IF s = {} THEN <<>> ELSE FilterTurn(f[s \ {Max(s)}], list[Max(s)], P)
  <2> HIDE DEF f
  <2> QED
    BY <1>1, <1>6
<1> HIDE DEF f, Is
<1> DEFINE after == [n \in 0..N |-> f[1..n]]
<1>8. after[0] = <<>> /\ after[N] = f[1..N]
  <2>1. 1..0 = {} /\ {} \in SUBSET (1..N) /\ 0 \in 0..N /\ N \in 0..N
    BY <1>1
  <2>2. after[0] = f[1..0] /\ after[N] = f[1..N]
    BY <2>1
  <2>3. f[{}] = <<>>
    BY <1>7, <2>1
  <2> QED
    BY <2>1, <2>2, <2>3
<1>9. ASSUME NEW n \in 1..N
      PROVE  after[n] = FilterTurn(after[n - 1], list[n], P)
  <2>1. 1..n \in SUBSET (1..N) /\ n \in 1..n /\ n \in Nat \ {0} /\ n - 1 \in 0..N /\ n \in 0..N
    BY <1>1
  <2>2. Max(1..n) = n /\ (1..n) \ {n} = 1..(n - 1)
    BY <2>1, LastOfPrefix
  <2>3. after[n] = f[1..n] /\ after[n - 1] = f[1..(n - 1)]
    BY <2>1
  <2>4. 1..n # {}
    BY <2>1
  <2>5. f[1..n] = FilterTurn(f[(1..n) \ {Max(1..n)}], list[Max(1..n)], P)
    BY <1>7, <2>1, <2>4
  <2> QED
    BY <2>2, <2>3, <2>5
<1> HIDE DEF after
<1> QED
  BY <1>5, <1>8, <1>9 DEF IsFilter

\* Filter picks the positions of what passes.
Passing(list, P) == {i \in 1..Len(list) : list[i] \in P}

\* It does, for lists of any length.
LEMMA FilterPicks ==
    ASSUME NEW S, NEW list \in Seq(S), NEW P
    PROVE  Picks(list, Passing(list, P), Filter(list, P))
<1>1. PICK after : IsFilter(list, P, after)
  BY FilterIsLoop
<1> DEFINE I == Passing(list, P)
           U == {n \in 0..Len(list) : Picks(list, I \intersect (1..n), after[n])}
<1>2. 0 \in U
  <2>1. I \intersect (1..0) = {} /\ after[0] = <<>> /\ 0 \in 0..Len(list)
    BY <1>1 DEF IsFilter
  <2>2. Picks(list, {}, <<>>)
    BY PicksNone
  <2> HIDE DEF I
  <2> QED
    BY <2>1, <2>2
<1>3. ASSUME NEW n \in 1..Len(list), n - 1 \in U PROVE n \in U
  <2> DEFINE J == I \intersect (1..(n - 1))
  <2>1. Picks(list, J, after[n - 1])
    BY <1>3
  <2>2. J \subseteq 1..(n - 1) /\ n \in 0..Len(list)
    OBVIOUS
  <2>3. after[n] = FilterTurn(after[n - 1], list[n], P)
    BY <1>1 DEF IsFilter
  <2>4. CASE list[n] \in P
    <3>1. I \intersect (1..n) = J \union {n}
      BY <2>4 DEF Passing
    <3>2. after[n] = Append(after[n - 1], list[n])
      BY <2>3, <2>4 DEF FilterTurn
    <3> HIDE DEF J
    <3>3. Picks(list, J \union {n}, Append(after[n - 1], list[n]))
      BY <2>1, <2>2, PicksTurn
    <3> HIDE DEF I
    <3> QED
      BY <2>2, <3>1, <3>2, <3>3
  <2>5. CASE list[n] \notin P
    <3>1. I \intersect (1..n) = J
      BY <2>5 DEF Passing
    <3>2. after[n] = after[n - 1]
      BY <2>3, <2>5 DEF FilterTurn
    <3> HIDE DEF I, J
    <3> QED
      BY <2>1, <2>2, <3>1, <3>2
  <2> QED
    BY <2>4, <2>5
<1>4. 0..Len(list) \subseteq U
  <2>1. Len(list) \in Nat
    OBVIOUS
  <2> HIDE DEF U
  <2> QED
    BY <1>2, <1>3, <2>1, TurnByTurn
<1>5. Len(list) \in U /\ I \intersect (1..Len(list)) = I
  BY <1>4 DEF Passing
<1> HIDE DEF I
<1>6. Picks(list, I, after[Len(list)])
  BY <1>5
<1> QED
  BY <1>1, <1>6 DEF IsFilter, I

\* What passes is what is left, and if everything passes everything is left.
LEMMA FilterLeaves ==
    ASSUME NEW S, NEW list \in Seq(S), NEW P
    PROVE  /\ Filter(list, P) \in Seq(S)
           /\ Range(Filter(list, P)) = Range(list) \intersect P
           /\ Range(list) \subseteq P => Filter(list, P) = list
<1> DEFINE I == Passing(list, P)
           r == Filter(list, P)
<1>1. Picks(list, I, r)
  BY FilterPicks
<1> HIDE DEF r
<1>2. PICK at : Places(list, I, r, at)
  BY <1>1 DEF Picks
<1>3. r \in Seq(Range(list)) /\ r \in Seq(S)
  <2>1. Range(list) \subseteq S
    BY DEF Range
  <2> QED
    BY <1>1, <2>1 DEF Picks
<1>4. Range(r) \subseteq Range(list) \intersect P
  <2> SUFFICES ASSUME NEW j \in 1..Len(r) PROVE r[j] \in Range(list) \intersect P
    BY <1>3 DEF Range
  <2>1. r[j] = list[at[j]] /\ at[j] \in I
    BY <1>2 DEF Places
  <2>2. at[j] \in DOMAIN list /\ list[at[j]] \in P
    BY <2>1 DEF Passing
  <2> QED
    BY <2>1, <2>2 DEF Range
<1>5. Range(list) \intersect P \subseteq Range(r)
  <2> SUFFICES ASSUME NEW i \in 1..Len(list), list[i] \in P PROVE list[i] \in Range(r)
    BY DEF Range
  <2>1. PICK j \in 1..Len(r) : at[j] = i
    BY <1>2 DEF Places, Passing
  <2>2. r[j] = list[i]
    BY <1>2, <2>1 DEF Places
  <2> QED
    BY <1>3, <2>2 DEF Range
<1>6. ASSUME Range(list) \subseteq P PROVE r = list
  <2>1. I = 1..Len(list)
    BY <1>6 DEF Passing, Range
  <2>2. Picks(list, I, list) /\ Len(list) \in Nat
    BY <2>1, PicksAll
  <2> HIDE DEF I
  <2> QED
    BY <1>1, <2>2, PicksUnique
<1> QED
  BY <1>3, <1>4, <1>5, <1>6 DEF r


-----------------------------------------------------------------------------
\* What leads after each turn of the loop over the verdicts.
TopTurn(list, top, v) ==
    IF top = NoVerdict \/ Votes(list, v) > Votes(list, top) THEN v ELSE top

IsTop(list, after) ==
    /\ after[0] = NoVerdict
    /\ \A n \in 1..Len(list) : after[n] = TopTurn(list, after[n - 1], list[n].verdict)
    /\ after[Len(list)] = TopVerdict(list)

\* The fold of TopVerdict is such a loop.
LEMMA TopIsLoop ==
    ASSUME NEW S, NEW list \in Seq(S)
    PROVE  \E after : IsTop(list, after)
<1> DEFINE N == Len(list)
           A == {NoVerdict} \union {list[n].verdict : n \in 1..Len(list)}
           step == [an \in A \X (1..N) |-> TopTurn(list, an[1], list[an[2]].verdict)]
           Is(f) == f = [s \in SUBSET DOMAIN list |->
                           IF s = {} THEN NoVerdict
                           ELSE TopTurn(list, f[s \ {Max(s)}], list[Max(s)].verdict)]
<1>1. N \in Nat /\ DOMAIN list = 1..N /\ NoVerdict \in A
  OBVIOUS
<1>2. step \in [A \X (1..N) -> A]
  <2>1. \A a \in A, n \in 1..N : TopTurn(list, a, list[n].verdict) \in A
    BY DEF TopTurn
  <2> HIDE DEF A
  <2> QED
    BY <2>1
<1>3. \A a \in A, n \in 1..N : step[<<a, n>>] = TopTurn(list, a, list[n].verdict)
  OBVIOUS
<1>4. \E f : Is(f)
  <2>1. PICK f \in [SUBSET (1..N) -> A] : FoldsUpTo(f, N, NoVerdict, step)
    <3> HIDE DEF step, A, N
    <3>1. Foldable(N, A, NoVerdict, step)
      BY <1>1, <1>2, FoldExists
    <3> QED
      BY <3>1 DEF Foldable
  <2> HIDE DEF step, A
  <2>2. ASSUME NEW s \in SUBSET (1..N), s # {}
        PROVE  f[s] = TopTurn(list, f[s \ {Max(s)}], list[Max(s)].verdict)
    <3>1. Max(s) \in 1..N /\ f[s \ {Max(s)}] \in A
      BY <1>1, <2>2, HasLast
    <3> QED
      BY <1>3, <2>1, <2>2, <3>1 DEF FoldsUpTo
  <2>3. f[{}] = NoVerdict
    BY <2>1 DEF FoldsUpTo
  <2>4. f = [s \in SUBSET (1..N) |-> f[s]]
    OBVIOUS
  <2>5. [s \in SUBSET (1..N) |-> f[s]]
        = [s \in SUBSET (1..N) |-> IF s = {} THEN NoVerdict
                                   ELSE TopTurn(list, f[s \ {Max(s)}], list[Max(s)].verdict)]
    BY <2>2, <2>3
  <2> QED
    BY <1>1, <2>4, <2>5
<1> DEFINE f == CHOOSE f : Is(f)
<1>5. TopVerdict(list) = f[1..N]
  BY <1>1 DEF TopVerdict, TopTurn, FoldLeft, MapThenFoldSet
<1>6. Is(f)
  BY <1>4
<1>7. \A s \in SUBSET (1..N) :
          f[s] = IF s = {} THEN NoVerdict ELSE TopTurn(list, f[s \ {Max(s)}], list[Max(s)].verdict)
  <2> HIDE DEF f
  <2> QED
    BY <1>1, <1>6
<1> HIDE DEF f, Is
<1> DEFINE after == [n \in 0..N |-> f[1..n]]
<1>8. after[0] = NoVerdict /\ after[N] = f[1..N]
  <2>1. 1..0 = {} /\ {} \in SUBSET (1..N) /\ 0 \in 0..N /\ N \in 0..N
    BY <1>1
  <2>2. after[0] = f[1..0] /\ after[N] = f[1..N]
    BY <2>1
  <2>3. f[{}] = NoVerdict
    BY <1>7, <2>1
  <2> QED
    BY <2>1, <2>2, <2>3
<1>9. ASSUME NEW n \in 1..N
      PROVE  after[n] = TopTurn(list, after[n - 1], list[n].verdict)
  <2>1. 1..n \in SUBSET (1..N) /\ n \in 1..n /\ n \in Nat \ {0} /\ n - 1 \in 0..N /\ n \in 0..N
    BY <1>1
  <2>2. Max(1..n) = n /\ (1..n) \ {n} = 1..(n - 1)
    BY <2>1, LastOfPrefix
  <2>3. after[n] = f[1..n] /\ after[n - 1] = f[1..(n - 1)]
    BY <2>1
  <2>4. 1..n # {}
    BY <2>1
  <2>5. f[1..n] = TopTurn(list, f[(1..n) \ {Max(1..n)}], list[Max(1..n)].verdict)
    BY <1>7, <2>1, <2>4
  <2> QED
    BY <2>2, <2>3, <2>5
<1> HIDE DEF after
<1> QED
  BY <1>5, <1>8, <1>9 DEF IsTop

\* Votes are counted, so any two verdicts compare.
LEMMA VotesCount == ASSUME NEW S, NEW list \in Seq(S), NEW v PROVE Votes(list, v) \in Nat
<1> DEFINE P == {x \in ToSet(list) : x.verdict = v}
<1>1. Filter(list, P) \in Seq(S)
  <2> HIDE DEF P
  <2> QED
    BY FilterLeaves
<1> QED
  BY <1>1 DEF Votes

\* One entry is its category's verdict.
LEMMA TopOfOne ==
    ASSUME NEW S, NEW list \in Seq(S), Len(list) = 1
    PROVE  TopVerdict(list) = list[1].verdict
<1>1. PICK after : IsTop(list, after)
  BY TopIsLoop
<1>2. after[1] = TopTurn(list, after[0], list[1].verdict) /\ after[0] = NoVerdict
  BY <1>1 DEF IsTop
<1>3. after[1] = list[1].verdict
  BY <1>2 DEF TopTurn
<1> QED
  BY <1>1, <1>3 DEF IsTop

\* Of the verdicts of the first n entries, top is one, and each has fewer votes than it, or as
\* many and does not occur before it.
Leads(list, n, top) ==
    /\ \E m \in 1..n : list[m].verdict = top
    /\ \A k \in 1..n :
          \/ Votes(list, list[k].verdict) < Votes(list, top)
          \/ /\ Votes(list, list[k].verdict) = Votes(list, top)
             /\ \E m \in 1..k : list[m].verdict = top

\* The verdict that the loop ends with leads all.
LEMMA TopLeads ==
    ASSUME NEW S, NEW list \in Seq(S), list # <<>>,
           \A n \in 1..Len(list) : list[n].verdict # NoVerdict
    PROVE  Leads(list, Len(list), TopVerdict(list))
<1>1. PICK after : IsTop(list, after)
  BY TopIsLoop
<1>2. Len(list) \in Nat /\ Len(list) # 0
  OBVIOUS
<1>3. \A v : Votes(list, v) \in Nat
  BY VotesCount
<1> DEFINE U == {n \in 0..Len(list) : n # 0 => Leads(list, n, after[n])}
<1>4. 0 \in U
  BY <1>2
<1>5. ASSUME NEW n \in 1..Len(list), n - 1 \in U PROVE n \in U
  <2> DEFINE v == list[n].verdict
             top == after[n - 1]
  <2>1. after[n] = TopTurn(list, top, v) /\ n \in Nat /\ n # 0 /\ n \in 0..Len(list) /\ n - 1 \in Nat
    BY <1>1, <1>2 DEF IsTop
  <2>2. CASE n = 1
    <3>1. after[n] = v
      BY <1>1, <2>1, <2>2 DEF TopTurn, IsTop
    <3>2. \A k \in 1..n : k = n
      BY <2>2
    <3>3. Leads(list, n, v)
      BY <2>1, <3>2 DEF Leads
    <3> QED
      BY <2>1, <3>1, <3>3
  <2>3. CASE n # 1
    <3>1. Leads(list, n - 1, top)
      BY <1>5, <2>1, <2>3
    <3>2. PICK m \in 1..(n - 1) : list[m].verdict = top
      BY <3>1 DEF Leads
    <3>3. m \in 1..Len(list) /\ top # NoVerdict
      <4>1. m \in 1..Len(list)
        BY <1>2, <2>1
      <4> QED
        BY <3>2, <4>1
    <3>4. CASE Votes(list, v) > Votes(list, top)
      <4>1. after[n] = v
        BY <2>1, <3>4 DEF TopTurn
      <4>2. ASSUME NEW k \in 1..n, k # n PROVE Votes(list, list[k].verdict) < Votes(list, v)
        <5>1. k \in 1..(n - 1)
          BY <2>1, <4>2
        <5>2. Votes(list, list[k].verdict) < Votes(list, top) \/ Votes(list, list[k].verdict) = Votes(list, top)
          BY <3>1, <5>1 DEF Leads
        <5>3. Votes(list, list[k].verdict) \in Nat /\ Votes(list, top) \in Nat /\ Votes(list, v) \in Nat
          BY <1>3
        <5> QED
          BY <3>4, <5>2, <5>3
      <4>3. n \in 1..n
        BY <2>1
      <4>4. Leads(list, n, v)
        BY <4>2, <4>3 DEF Leads
      <4> QED
        BY <2>1, <4>1, <4>4
    <3>5. CASE ~(Votes(list, v) > Votes(list, top))
      <4>1. after[n] = top
        BY <2>1, <3>3, <3>5 DEF TopTurn
      <4>2. Votes(list, v) < Votes(list, top) \/ Votes(list, v) = Votes(list, top)
        <5>1. Votes(list, top) \in Nat /\ Votes(list, v) \in Nat
          BY <1>3
        <5> QED
          BY <3>5, <5>1
      <4>3. m \in 1..n
        BY <2>1
      <4>4. ASSUME NEW k \in 1..n
            PROVE  \/ Votes(list, list[k].verdict) < Votes(list, top)
                   \/ /\ Votes(list, list[k].verdict) = Votes(list, top)
                      /\ \E i \in 1..k : list[i].verdict = top
        <5>1. CASE k = n
          BY <3>2, <4>2, <4>3, <5>1
        <5>2. CASE k \in 1..(n - 1)
          BY <3>1, <5>2 DEF Leads
        <5> QED
          BY <2>1, <5>1, <5>2
      <4>5. Leads(list, n, top)
        BY <3>2, <4>3, <4>4 DEF Leads
      <4> QED
        BY <2>1, <4>1, <4>5
    <3> QED
      BY <3>4, <3>5
  <2> QED
    BY <2>2, <2>3
<1>6. 0..Len(list) \subseteq U
  <2> HIDE DEF U
  <2> QED
    BY <1>2, <1>4, <1>5, TurnByTurn
<1>7. Len(list) \in U
  BY <1>2, <1>6
<1>8. Leads(list, Len(list), after[Len(list)])
  BY <1>2, <1>7
<1> QED
  BY <1>1, <1>8 DEF IsTop

-----------------------------------------------------------------------------
\* What the dialog's loop has after each turn.
Preselect(mine) ==
    [c \in Categories |->
        IF c \in DOMAIN mine /\ mine[c].verdict # "revoke" THEN mine[c].verdict ELSE NoVerdict]

IsMine(list, key, after) ==
    /\ after[0] = <<>>
    /\ \A n \in 1..Len(list) : after[n] = ConsiderMine(key, after[n - 1], list[n])
    /\ MyVerdicts(list, key) = Preselect(after[Len(list)])

WithMine(mine, x) ==
    [c \in DOMAIN mine \union {x.category} |-> IF c = x.category THEN x ELSE mine[c]]


\* The fold of the dialog's own selection is such a loop.
LEMMA MineIsLoop ==
    ASSUME NEW S, NEW list \in Seq(S), NEW key
    PROVE  \E after : IsMine(list, key, after)
<1> DEFINE N == Len(list)
           A == UNION {[D -> Range(list)] : D \in SUBSET {x.category : x \in Range(list)}}
           step == [an \in A \X (1..N) |-> ConsiderMine(key, an[1], list[an[2]])]
           Is(f) == f = [s \in SUBSET DOMAIN list |->
                           IF s = {} THEN <<>>
                           ELSE ConsiderMine(key, f[s \ {Max(s)}], list[Max(s)])]
<1>1. N \in Nat /\ DOMAIN list = 1..N /\ <<>> \in A
  <2>1. <<>> \in [{} -> Range(list)]
    OBVIOUS
  <2>2. <<>> \in A
    BY <2>1
  <2> HIDE DEF A
  <2> QED
    BY <2>2
<1>2. step \in [A \X (1..N) -> A]
  <2>1. \A a \in A, n \in 1..N : ConsiderMine(key, a, list[n]) \in A
    <3> SUFFICES ASSUME NEW D \in SUBSET {x.category : x \in Range(list)},
                        NEW a \in [D -> Range(list)], NEW n \in 1..N
                 PROVE  ConsiderMine(key, a, list[n]) \in A
      OBVIOUS
    <3> DEFINE x == list[n]
               E == D \union {x.category}
    <3>1. x \in Range(list)
      BY <1>1 DEF Range
    <3>2. E \in SUBSET {y.category : y \in Range(list)}
      BY <3>1
    <3>3. WithMine(a, x) \in [E -> Range(list)]
      BY <3>1 DEF WithMine
    <3> HIDE DEF E, x
    <3>4. WithMine(a, x) \in A
      BY <3>2, <3>3
    <3>5. a \in A
      OBVIOUS
    <3> HIDE DEF A
    <3>6. ConsiderMine(key, a, x) = a \/ ConsiderMine(key, a, x) = WithMine(a, x)
      BY DEF ConsiderMine, WithMine
    <3> QED
      BY <3>4, <3>5, <3>6 DEF x
  <2> HIDE DEF A
  <2> QED
    BY <2>1
<1>3. \A a \in A, n \in 1..N : step[<<a, n>>] = ConsiderMine(key, a, list[n])
  OBVIOUS
<1>4. \E f : Is(f)
  <2>1. PICK f \in [SUBSET (1..N) -> A] : FoldsUpTo(f, N, <<>>, step)
    <3> HIDE DEF step, A, N
    <3>1. Foldable(N, A, <<>>, step)
      BY <1>1, <1>2, FoldExists
    <3> QED
      BY <3>1 DEF Foldable
  <2> HIDE DEF step, A
  <2>2. ASSUME NEW s \in SUBSET (1..N), s # {}
        PROVE  f[s] = ConsiderMine(key, f[s \ {Max(s)}], list[Max(s)])
    <3>1. Max(s) \in 1..N /\ f[s \ {Max(s)}] \in A
      BY <1>1, <2>2, HasLast
    <3> QED
      BY <1>3, <2>1, <2>2, <3>1 DEF FoldsUpTo
  <2>3. f[{}] = <<>>
    BY <2>1 DEF FoldsUpTo
  <2>4. f = [s \in SUBSET (1..N) |-> f[s]]
    OBVIOUS
  <2>5. [s \in SUBSET (1..N) |-> f[s]]
        = [s \in SUBSET (1..N) |-> IF s = {} THEN <<>>
                                   ELSE ConsiderMine(key, f[s \ {Max(s)}], list[Max(s)])]
    BY <2>2, <2>3
  <2> QED
    BY <1>1, <2>4, <2>5
<1> DEFINE f == CHOOSE f : Is(f)
<1>5. MyVerdicts(list, key) = Preselect(f[1..N])
  BY <1>1 DEF MyVerdicts, Preselect, FoldLeft, MapThenFoldSet
<1>6. Is(f)
  BY <1>4
<1>7. \A s \in SUBSET (1..N) :
          f[s] = IF s = {} THEN <<>> ELSE ConsiderMine(key, f[s \ {Max(s)}], list[Max(s)])
  <2> HIDE DEF f
  <2> QED
    BY <1>1, <1>6
<1> HIDE DEF f, Is
<1> DEFINE after == [n \in 0..N |-> f[1..n]]
<1>8. after[0] = <<>> /\ after[N] = f[1..N]
  <2>1. 1..0 = {} /\ {} \in SUBSET (1..N) /\ 0 \in 0..N /\ N \in 0..N
    BY <1>1
  <2>2. after[0] = f[1..0] /\ after[N] = f[1..N]
    BY <2>1
  <2>3. f[{}] = <<>>
    BY <1>7, <2>1
  <2> QED
    BY <2>1, <2>2, <2>3
<1>9. ASSUME NEW n \in 1..N
      PROVE  after[n] = ConsiderMine(key, after[n - 1], list[n])
  <2>1. 1..n \in SUBSET (1..N) /\ n \in 1..n /\ n \in Nat \ {0} /\ n - 1 \in 0..N /\ n \in 0..N
    BY <1>1
  <2>2. Max(1..n) = n /\ (1..n) \ {n} = 1..(n - 1)
    BY <2>1, LastOfPrefix
  <2>3. after[n] = f[1..n] /\ after[n - 1] = f[1..(n - 1)]
    BY <2>1
  <2>4. 1..n # {}
    BY <2>1
  <2>5. f[1..n] = ConsiderMine(key, f[(1..n) \ {Max(1..n)}], list[Max(1..n)])
    BY <1>7, <2>1, <2>4
  <2> QED
    BY <2>2, <2>3, <2>5
<1> HIDE DEF after
<1> QED
  BY <1>5, <1>8, <1>9 DEF IsMine

\* What the dialog's loop has after n turns: the newest entry of its key in each category that
\* occurs.
MineNewest(list, key, n, mine) ==
    /\ \A c \in DOMAIN mine : \E m \in 1..n :
          /\ mine[c] = list[m] /\ list[m].category = c
          /\ Eligible({key}, list[m]) /\ NoneNewer(list, n, m)
    /\ \A k \in 1..n : Eligible({key}, list[k]) => list[k].category \in DOMAIN mine

\* A turn of the dialog's loop, given what the ones before it have left.
LEMMA MineNewestTurn ==
    ASSUME NEW S, NEW list \in Seq(S), \A x \in S : x.server_timestamp \in Int,
           NEW key, NEW n \in 1..Len(list), NEW mine, MineNewest(list, key, n - 1, mine)
    PROVE  MineNewest(list, key, n, ConsiderMine(key, mine, list[n]))
<1> DEFINE x == list[n]
           next == ConsiderMine(key, mine, x)
<1> SUFFICES MineNewest(list, key, n, next)
  OBVIOUS
<1>1. /\ Len(list) \in Nat /\ n \in Nat /\ n \in 1..n /\ \A k \in 1..n : k = n \/ k \in 1..(n - 1)
      /\ \A k \in 1..(n - 1) : k \in 1..n /\ k < n /\ k \in 1..Len(list)
  OBVIOUS
<1>2. \A k \in 1..n : list[k].server_timestamp \in Int
  <2> TAKE k \in 1..n
  <2>1. k \in 1..Len(list)
    BY <1>1
  <2>2. list[k] \in S
    BY <2>1
  <2> QED
    BY <2>2
<1>3. \A c \in DOMAIN mine : \E m \in 1..(n - 1) :
          /\ mine[c] = list[m] /\ list[m].category = c
          /\ Eligible({key}, list[m]) /\ NoneNewer(list, n - 1, m)
  BY DEF MineNewest
<1>4. \A k \in 1..(n - 1) : Eligible({key}, list[k]) => list[k].category \in DOMAIN mine
  BY DEF MineNewest
\* An entry stays the newest when the next one is of another key, or is no newer.
<1>5. ASSUME NEW m \in 1..(n - 1), NoneNewer(list, n - 1, m),
             Key(x) = Key(list[m]) => x.server_timestamp <= list[m].server_timestamp
      PROVE  NoneNewer(list, n, m)
  <2> SUFFICES ASSUME NEW k \in 1..n, Key(list[k]) = Key(list[m])
               PROVE  \/ list[k].server_timestamp < list[m].server_timestamp
                      \/ list[k].server_timestamp = list[m].server_timestamp /\ m <= k
    BY DEF NoneNewer
  <2>1. CASE k \in 1..(n - 1)
    BY <1>5, <2>1 DEF NoneNewer
  <2>2. CASE k = n
    <3>1. /\ list[n].server_timestamp \in Int /\ list[m].server_timestamp \in Int
          /\ list[n].server_timestamp <= list[m].server_timestamp /\ m < n
      BY <1>1, <1>2, <1>5, <2>2
    <3> QED
      BY <2>2, <3>1
  <2> QED
    BY <1>1, <2>1, <2>2
<1>6. CASE ~Eligible({key}, x)
  <2>1. next = mine
    BY <1>6 DEF ConsiderMine, Eligible
  <2>2. ASSUME NEW c \in DOMAIN mine
        PROVE  \E m \in 1..n : /\ mine[c] = list[m] /\ list[m].category = c
                               /\ Eligible({key}, list[m]) /\ NoneNewer(list, n, m)
    <3>1. PICK m \in 1..(n - 1) : /\ mine[c] = list[m] /\ list[m].category = c
                                  /\ Eligible({key}, list[m]) /\ NoneNewer(list, n - 1, m)
      BY <1>3
    <3>2. Key(x) # Key(list[m])
      BY <1>6, <3>1 DEF Key, Eligible
    <3>3. NoneNewer(list, n, m)
      BY <1>5, <3>1, <3>2
    <3> QED
      BY <1>1, <3>1, <3>3
  <2>3. \A k \in 1..n : Eligible({key}, list[k]) => list[k].category \in DOMAIN mine
    BY <1>1, <1>4, <1>6
  <2>4. MineNewest(list, key, n, mine)
    BY <2>2, <2>3 DEF MineNewest
  <2> QED
    BY <2>1, <2>4
<1>7. CASE /\ Eligible({key}, x) /\ x.category \in DOMAIN mine
           /\ x.server_timestamp <= mine[x.category].server_timestamp
  <2>1. next = mine
    BY <1>7 DEF ConsiderMine, Eligible
  <2>2. ASSUME NEW c \in DOMAIN mine
        PROVE  \E m \in 1..n : /\ mine[c] = list[m] /\ list[m].category = c
                               /\ Eligible({key}, list[m]) /\ NoneNewer(list, n, m)
    <3>1. PICK m \in 1..(n - 1) : /\ mine[c] = list[m] /\ list[m].category = c
                                  /\ Eligible({key}, list[m]) /\ NoneNewer(list, n - 1, m)
      BY <1>3
    <3>2. Key(x) = Key(list[m]) => x.server_timestamp <= list[m].server_timestamp
      BY <1>7, <3>1 DEF Key
    <3>3. NoneNewer(list, n, m)
      BY <1>5, <3>1, <3>2
    <3> QED
      BY <1>1, <3>1, <3>3
  <2>3. \A k \in 1..n : Eligible({key}, list[k]) => list[k].category \in DOMAIN mine
    BY <1>1, <1>4, <1>7
  <2>4. MineNewest(list, key, n, mine)
    BY <2>2, <2>3 DEF MineNewest
  <2> QED
    BY <2>1, <2>4
<1>8. CASE /\ Eligible({key}, x)
           /\ ~(/\ x.category \in DOMAIN mine
                /\ x.server_timestamp <= mine[x.category].server_timestamp)
  <2>1. next = WithMine(mine, x)
    BY <1>8 DEF ConsiderMine, Eligible, WithMine
  <2>2. /\ DOMAIN next = DOMAIN mine \union {x.category} /\ next[x.category] = x
        /\ \A c \in DOMAIN mine : c # x.category => next[c] = mine[c]
    BY <2>1 DEF WithMine
  <2> HIDE DEF next
  <2>3. NoneNewer(list, n, n)
    <3> SUFFICES ASSUME NEW k \in 1..n, Key(list[k]) = Key(list[n])
                 PROVE  \/ list[k].server_timestamp < list[n].server_timestamp
                        \/ list[k].server_timestamp = list[n].server_timestamp /\ n <= k
      BY DEF NoneNewer
    <3>1. CASE k = n
      BY <1>1, <3>1
    <3>2. CASE k \in 1..(n - 1)
      <4>1. Eligible({key}, list[k]) /\ list[k].category = x.category
        BY <1>8 DEF Key, Eligible
      <4>2. x.category \in DOMAIN mine
        BY <1>4, <3>2, <4>1
      <4>3. PICK m \in 1..(n - 1) : /\ mine[x.category] = list[m] /\ list[m].category = x.category
                                    /\ Eligible({key}, list[m]) /\ NoneNewer(list, n - 1, m)
        BY <1>3, <4>2
      <4>4. Key(list[k]) = Key(list[m])
        BY <4>1, <4>3 DEF Key, Eligible
      <4>5. ~(list[n].server_timestamp <= list[m].server_timestamp)
        BY <1>8, <4>2, <4>3
      <4>6. list[k].server_timestamp < list[m].server_timestamp \/ list[k].server_timestamp = list[m].server_timestamp
        BY <3>2, <4>3, <4>4 DEF NoneNewer
      <4>7. /\ list[n].server_timestamp \in Int /\ list[m].server_timestamp \in Int
            /\ list[k].server_timestamp \in Int
        BY <1>1, <1>2
      <4> QED
        BY <4>5, <4>6, <4>7
    <3> QED
      BY <1>1, <3>1, <3>2
  <2>4. ASSUME NEW c \in DOMAIN next
        PROVE  \E m \in 1..n : /\ next[c] = list[m] /\ list[m].category = c
                               /\ Eligible({key}, list[m]) /\ NoneNewer(list, n, m)
    <3>1. CASE c = x.category
      BY <1>1, <1>8, <2>2, <2>3, <3>1
    <3>2. CASE c # x.category
      <4>1. c \in DOMAIN mine /\ next[c] = mine[c]
        BY <2>2, <3>2
      <4>2. PICK m \in 1..(n - 1) : /\ mine[c] = list[m] /\ list[m].category = c
                                    /\ Eligible({key}, list[m]) /\ NoneNewer(list, n - 1, m)
        BY <1>3, <4>1
      <4>3. Key(x) # Key(list[m])
        BY <3>2, <4>2 DEF Key
      <4>4. NoneNewer(list, n, m)
        BY <1>5, <4>2, <4>3
      <4> QED
        BY <1>1, <4>1, <4>2, <4>4
    <3> QED
      BY <3>1, <3>2
  <2>5. \A k \in 1..n : Eligible({key}, list[k]) => list[k].category \in DOMAIN next
    BY <1>1, <1>4, <2>2
  <2> QED
    BY <2>4, <2>5 DEF MineNewest
<1> QED
  BY <1>6, <1>7, <1>8

\* For lists of any length the dialog preselects the newest word of its key
\* (service-worker.js:407).
LEMMA MineKeepsNewest ==
    ASSUME NEW S, NEW list \in Seq(S), \A x \in S : x.server_timestamp \in Int, NEW key
    PROVE  \E mine : MyVerdicts(list, key) = Preselect(mine) /\ MineNewest(list, key, Len(list), mine)
<1>1. PICK after : IsMine(list, key, after)
  BY MineIsLoop
<1> DEFINE U == {n \in 0..Len(list) : MineNewest(list, key, n, after[n])}
<1>2. 0 \in U
  <2>1. MineNewest(list, key, 0, <<>>)
    BY DEF MineNewest
  <2> QED
    BY <1>1, <2>1 DEF IsMine
<1>3. ASSUME NEW n \in 1..Len(list), n - 1 \in U PROVE n \in U
  <2>1. MineNewest(list, key, n - 1, after[n - 1])
    BY <1>3
  <2>2. MineNewest(list, key, n, ConsiderMine(key, after[n - 1], list[n]))
    BY <2>1, MineNewestTurn
  <2> QED
    BY <1>1, <2>2 DEF IsMine
<1>4. 0..Len(list) \subseteq U
  <2>1. Len(list) \in Nat
    OBVIOUS
  <2> HIDE DEF U
  <2> QED
    BY <1>2, <1>3, <2>1, TurnByTurn
<1>5. Len(list) \in U
  BY <1>4
<1> QED
  BY <1>1, <1>5 DEF IsMine

-----------------------------------------------------------------------------
\* The positions of the claims of a category.
ClaimPlaces(list, c) == {i \in 1..Len(list) : list[i].category = c /\ list[i].verdict # "revoke"}

\* Claims picks them.
LEMMA ClaimsPick ==
    ASSUME NEW S, NEW list \in Seq(S), NEW c
    PROVE  Picks(list, ClaimPlaces(list, c), Claims(list, c))
<1> DEFINE P == {x \in ToSet(list) : x.category = c /\ x.verdict # "revoke"}
<1>1. Passing(list, P) = ClaimPlaces(list, c)
  BY DEF Passing, ClaimPlaces, ToSet
<1>2. Claims(list, c) = Filter(list, P)
  BY DEF Claims
<1> HIDE DEF P
<1>3. Picks(list, Passing(list, P), Filter(list, P))
  BY FilterPicks
<1> QED
  BY <1>1, <1>2, <1>3

\* Of two newest entries of a key, one is the other.
LEMMA NewestIsOne ==
    ASSUME NEW S, NEW list \in Seq(S), \A x \in S : x.server_timestamp \in Int,
           NEW m \in 1..Len(list), NEW k \in 1..Len(list), Key(list[m]) = Key(list[k]),
           NoneNewer(list, Len(list), m), NoneNewer(list, Len(list), k)
    PROVE  m = k
<1>1. /\ list[m].server_timestamp \in Int /\ list[k].server_timestamp \in Int
  OBVIOUS
<1>2. \/ list[m].server_timestamp < list[k].server_timestamp
      \/ list[m].server_timestamp = list[k].server_timestamp /\ k <= m
  BY DEF NoneNewer
<1>3. \/ list[k].server_timestamp < list[m].server_timestamp
      \/ list[k].server_timestamp = list[m].server_timestamp /\ m <= k
  BY DEF NoneNewer
<1> QED
  BY <1>1, <1>2, <1>3

\* Without claims there is no verdict; a single one is the verdict.
LEMMA BadgeOfNone ==
    ASSUME NEW S, NEW list \in Seq(S), NEW c, ClaimPlaces(list, c) = {}
    PROVE  c \notin DOMAIN Aggregate(list)
<1>1. Picks(list, {}, Claims(list, c)) /\ Picks(list, {}, <<>>) /\ Len(list) \in Nat
  <2>1. Picks(list, ClaimPlaces(list, c), Claims(list, c))
    BY ClaimsPick
  <2>2. Picks(list, {}, <<>>)
    BY PicksNone
  <2> QED
    BY <2>1, <2>2
<1>2. Claims(list, c) = <<>>
  BY <1>1, PicksUnique
<1> QED
  BY <1>2 DEF Aggregate

\* A category with one claim shows that claim.
LEMMA BadgeOfOne ==
    ASSUME NEW S, NEW list \in Seq(S), NEW c \in Categories,
           NEW i \in 1..Len(list), ClaimPlaces(list, c) = {i}
    PROVE  c \in DOMAIN Aggregate(list) /\ Aggregate(list)[c].verdict = list[i].verdict
<1>1. Picks(list, {i}, Claims(list, c)) /\ Picks(list, {i}, <<list[i]>>) /\ Len(list) \in Nat
  <2>1. Picks(list, ClaimPlaces(list, c), Claims(list, c))
    BY ClaimsPick
  <2>2. Picks(list, {i}, <<list[i]>>)
    BY PicksOne
  <2> QED
    BY <2>1, <2>2
<1>2. Claims(list, c) = <<list[i]>>
  BY <1>1, PicksUnique
<1>3. <<list[i]>> \in Seq(S) /\ Len(<<list[i]>>) = 1 /\ <<list[i]>>[1] = list[i] /\ <<list[i]>> # <<>>
  OBVIOUS
<1>4. TopVerdict(<<list[i]>>) = list[i].verdict
  BY <1>3, TopOfOne
<1>5. c \in {k \in Categories : Claims(list, k) # <<>>}
  BY <1>2, <1>3
<1>6. Aggregate(list)[c].verdict = TopVerdict(Claims(list, c))
  BY <1>5 DEF Aggregate
<1> QED
  BY <1>2, <1>4, <1>5, <1>6 DEF Aggregate

\* What a badge would show in category c if key alone were trusted.
BadgeVerdict(list, key, c) ==
    LET badge == Aggregate(KeepLatest(list, {key})) IN
    IF c \in DOMAIN badge THEN badge[c].verdict ELSE NoVerdict

\* For lists of any length, the dialog preselects for a key what a badge would show if that
\* key alone were trusted: the two loops of the service worker agree
\* (service-worker.js:238 and 407).
THEOREM DialogShowsOwnBadge ==
    ASSUME NEW S, NEW list \in Seq(S), \A x \in S : x.server_timestamp \in Int,
           NEW key, NEW c \in Categories
    PROVE  MyVerdicts(list, key)[c] = BadgeVerdict(list, key, c)
<1> DEFINE kept == KeepLatest(list, {key})
           N == Len(list)
<1>1. PICK mine : MyVerdicts(list, key) = Preselect(mine) /\ MineNewest(list, key, N, mine)
  BY MineKeepsNewest
<1>2. NewestKept(list, {key}, N, kept)
  BY KeepLatestKeepsNewest
<1>3. kept \in Seq(Range(list)) /\ kept \in Seq(S)
  <2>1. Range(list) \subseteq S
    BY DEF Range
  <2> HIDE DEF kept
  <2> QED
    BY <1>2, <2>1 DEF NewestKept
<1>4. MyVerdicts(list, key)[c]
      = IF c \in DOMAIN mine /\ mine[c].verdict # "revoke" THEN mine[c].verdict ELSE NoVerdict
  BY <1>1 DEF Preselect
<1>5. BadgeVerdict(list, key, c)
      = IF c \in DOMAIN Aggregate(kept) THEN Aggregate(kept)[c].verdict ELSE NoVerdict
  BY DEF BadgeVerdict
<1> HIDE DEF kept
<1>6. \A i \in 1..Len(kept) : \E m \in 1..N :
          kept[i] = list[m] /\ Eligible({key}, list[m]) /\ NoneNewer(list, N, m)
  BY <1>2 DEF NewestKept
<1>7. CASE c \notin DOMAIN mine
  <2>1. ClaimPlaces(kept, c) = {}
    <3> SUFFICES ASSUME NEW i \in 1..Len(kept), kept[i].category = c PROVE FALSE
      BY DEF ClaimPlaces
    <3>1. PICK m \in 1..N : kept[i] = list[m] /\ Eligible({key}, list[m])
      BY <1>6
    <3> QED
      BY <1>1, <1>7, <3>1 DEF MineNewest
  <2>2. c \notin DOMAIN Aggregate(kept)
    BY <1>3, <2>1, BadgeOfNone
  <2> QED
    BY <1>4, <1>5, <1>7, <2>2
<1>8. CASE c \in DOMAIN mine
  <2>1. PICK m \in 1..N : /\ mine[c] = list[m] /\ list[m].category = c
                          /\ Eligible({key}, list[m]) /\ NoneNewer(list, N, m)
    BY <1>1, <1>8 DEF MineNewest
  <2>2. PICK i \in 1..Len(kept) : Key(kept[i]) = Key(list[m])
    BY <1>2, <2>1 DEF NewestKept
  <2>3. kept[i] = mine[c]
    <3>1. PICK k \in 1..N : kept[i] = list[k] /\ NoneNewer(list, N, k)
      BY <1>6
    <3>2. Key(list[m]) = Key(list[k])
      BY <2>2, <3>1
    <3>3. m = k
      BY <2>1, <3>1, <3>2, NewestIsOne
    <3> QED
      BY <2>1, <3>1, <3>3
  <2>4. \A j \in 1..Len(kept) : kept[j].category = c => j = i
    <3> SUFFICES ASSUME NEW j \in 1..Len(kept), kept[j].category = c PROVE j = i
      OBVIOUS
    <3>1. kept[j].signer_keyid = key
      BY <1>6 DEF Eligible
    <3>2. Key(kept[j]) = Key(kept[i])
      BY <2>1, <2>3, <3>1 DEF Key, Eligible
    <3> QED
      BY <1>2, <3>2 DEF NewestKept
  <2>5. CASE mine[c].verdict = "revoke"
    <3>1. ClaimPlaces(kept, c) = {}
      BY <2>3, <2>4, <2>5 DEF ClaimPlaces
    <3>2. c \notin DOMAIN Aggregate(kept)
      BY <1>3, <3>1, BadgeOfNone
    <3> QED
      BY <1>4, <1>5, <2>5, <3>2
  <2>6. CASE mine[c].verdict # "revoke"
    <3>1. ClaimPlaces(kept, c) = {i}
      BY <2>1, <2>3, <2>4, <2>6 DEF ClaimPlaces
    <3>2. c \in DOMAIN Aggregate(kept) /\ Aggregate(kept)[c].verdict = kept[i].verdict
      BY <1>3, <3>1, BadgeOfOne
    <3> QED
      BY <1>4, <1>5, <1>8, <2>3, <2>6, <3>2
  <2> QED
    BY <2>5, <2>6
<1> QED
  BY <1>7, <1>8

-----------------------------------------------------------------------------
\* The first position with verdict v.
FirstOf(list, v) == SelectInSeq(list, LAMBDA x : x.verdict = v)

\* It is one, and no later than any.
LEMMA FirstIs ==
    ASSUME NEW S, NEW list \in Seq(S), NEW k \in 1..Len(list), NEW v, list[k].verdict = v
    PROVE  /\ FirstOf(list, v) \in 1..Len(list)
           /\ list[FirstOf(list, v)].verdict = v
           /\ \A j \in 1..Len(list) : list[j].verdict = v => FirstOf(list, v) <= j
<1> DEFINE I == {i \in 1..Len(list) : list[i].verdict = v}
<1>1. FirstOf(list, v) = IF I # {} THEN Min(I) ELSE 0
  BY DEF FirstOf, SelectInSeq
<1>2. I \subseteq Nat /\ I # {}
  OBVIOUS
<1>3. \A j \in 1..Len(list) : list[j].verdict = v <=> j \in I
  OBVIOUS
<1>4. I \subseteq 1..Len(list)
  OBVIOUS
<1> HIDE DEF I
<1>5. \E n \in I : \A m \in I : n <= m
  BY <1>2, NatMin
<1>6. Min(I) \in I /\ \A m \in I : Min(I) <= m
  BY <1>5 DEF Min
<1> QED
  BY <1>1, <1>2, <1>3, <1>4, <1>6

\* No claim has more votes than top, and none with as many comes before its first supporter.
Plurality(claims, top) ==
    /\ top \in {x.verdict : x \in ToSet(claims)}
    /\ \A x \in ToSet(claims) :
          \/ Votes(claims, x.verdict) < Votes(claims, top)
          \/ Votes(claims, x.verdict) = Votes(claims, top)
             /\ FirstOf(claims, top) <= FirstOf(claims, x.verdict)

\* Whatever the claims, the verdict of a category is that of most of them; of several, the one
\* that was there first (service-worker.js:292).
THEOREM TopVerdictWins ==
    ASSUME NEW S, NEW list \in Seq(S), list # <<>>,
           \A n \in 1..Len(list) : list[n].verdict # NoVerdict
    PROVE  Plurality(list, TopVerdict(list))
<1> DEFINE top == TopVerdict(list)
<1>1. Leads(list, Len(list), top)
  BY TopLeads
<1>2. Len(list) \in Nat /\ ToSet(list) = {list[n] : n \in 1..Len(list)}
  BY DEF ToSet
<1> HIDE DEF top
<1>3. PICK m \in 1..Len(list) : list[m].verdict = top
  BY <1>1 DEF Leads
<1>4. top \in {x.verdict : x \in ToSet(list)}
  BY <1>2, <1>3
<1>5. /\ FirstOf(list, top) \in 1..Len(list)
      /\ \A j \in 1..Len(list) : list[j].verdict = top => FirstOf(list, top) <= j
  BY <1>3, FirstIs
<1>6. ASSUME NEW x \in ToSet(list)
      PROVE  \/ Votes(list, x.verdict) < Votes(list, top)
             \/ Votes(list, x.verdict) = Votes(list, top)
                /\ FirstOf(list, top) <= FirstOf(list, x.verdict)
  <2>1. PICK k \in 1..Len(list) : list[k] = x
    BY <1>2
  <2> DEFINE f == FirstOf(list, x.verdict)
  <2>2. f \in 1..Len(list) /\ list[f].verdict = x.verdict
    BY <2>1, FirstIs
  <2> HIDE DEF f
  <2>3. \/ Votes(list, list[f].verdict) < Votes(list, top)
        \/ /\ Votes(list, list[f].verdict) = Votes(list, top)
           /\ \E j \in 1..f : list[j].verdict = top
    BY <1>1, <2>2 DEF Leads
  <2>4. ASSUME NEW j \in 1..f, list[j].verdict = top PROVE FirstOf(list, top) <= f
    <3>1. j \in 1..Len(list) /\ j <= f /\ j \in Nat /\ f \in Nat
      BY <1>2, <2>2
    <3>2. FirstOf(list, top) <= j /\ FirstOf(list, top) \in Nat
      BY <1>5, <2>4, <3>1
    <3> QED
      BY <3>1, <3>2
  <2> QED
    BY <2>2, <2>3, <2>4 DEF f
<1>7. Plurality(list, top)
  BY <1>4, <1>6 DEF Plurality
<1> QED
  BY <1>7 DEF top

-----------------------------------------------------------------------------
\* Each signer has at most one entry in a category.
Distinct(list) == \A i, j \in 1..Len(list) : Key(list[i]) = Key(list[j]) => i = j

\* What is picked from such a list is one.
LEMMA PicksDistinct ==
    ASSUME NEW list, Len(list) \in Nat, NEW I, NEW result, Picks(list, I, result), Distinct(list)
    PROVE  Distinct(result)
<1>1. PICK at : Places(list, I, result, at)
  BY DEF Picks
<1>2. result \in Seq(Range(list)) /\ I \subseteq 1..Len(list)
  BY DEF Picks
<1>3. Len(result) \in Nat
  BY <1>2
<1>4. \A i \in 1..Len(result) : at[i] \in I
  BY <1>1 DEF Places
<1>5. \A i \in 1..Len(result) : at[i] \in 1..Len(list)
  BY <1>2, <1>4
<1>6. ASSUME NEW i \in 1..Len(result), NEW j \in 1..Len(result), Key(result[i]) = Key(result[j])
      PROVE  i = j
  <2>1. result[i] = list[at[i]] /\ result[j] = list[at[j]]
    BY <1>1 DEF Places
  <2>2. at[i] = at[j]
    BY <1>5, <1>6, <2>1 DEF Distinct
  <2>3. ~(at[i] < at[j]) /\ ~(at[j] < at[i])
    BY <1>5, <2>2
  <2>4. ~(i < j) /\ ~(j < i)
    BY <1>1, <2>3 DEF Places
  <2> QED
    BY <1>3, <2>4
<1> QED
  BY <1>6 DEF Distinct

-----------------------------------------------------------------------------
\* The first n elements.
First(list, n) == [i \in 1..n |-> list[i]]

\* They are those before and one more.
LEMMA FirstIsOneMore ==
    ASSUME NEW S, NEW list \in Seq(S)
    PROVE  /\ First(list, 0) = <<>> /\ First(list, Len(list)) = list
           /\ \A n \in 0..Len(list) : First(list, n) \in Seq(S) /\ Len(First(list, n)) = n
           /\ \A n \in 1..Len(list) : First(list, n) = Append(First(list, n - 1), list[n])
<1>1. Len(list) \in Nat
  OBVIOUS
<1>2. First(list, 0) = <<>> /\ First(list, Len(list)) = list
  BY DEF First
<1>3. ASSUME NEW n \in 0..Len(list) PROVE First(list, n) \in Seq(S) /\ Len(First(list, n)) = n
  BY <1>1 DEF First
<1>4. ASSUME NEW n \in 1..Len(list) PROVE First(list, n) = Append(First(list, n - 1), list[n])
  <2> DEFINE few == First(list, n - 1)
             more == First(list, n)
             next == Append(few, list[n])
  <2>1. n - 1 \in 0..Len(list) /\ n \in 0..Len(list) /\ n \in Nat
    BY <1>1
  <2>2. /\ few \in Seq(S) /\ Len(few) = n - 1 /\ more \in Seq(S) /\ Len(more) = n
    BY <1>3, <2>1
  <2>3. (\A i \in 1..(n - 1) : few[i] = list[i]) /\ \A i \in 1..n : more[i] = list[i]
    BY DEF First
  <2> HIDE DEF few, more
  <2>4. list[n] \in S
    OBVIOUS
  <2>5. next \in Seq(S) /\ Len(next) = n /\ \A i \in 1..n : next[i] = list[i]
    BY <2>1, <2>2, <2>3, <2>4
  <2> HIDE DEF next
  <2>6. more = [i \in 1..n |-> more[i]] /\ next = [i \in 1..n |-> next[i]]
    BY <2>2, <2>5
  <2>7. more = next
    BY <2>3, <2>5, <2>6
  <2> QED
    BY <2>7 DEF few, more, next
<1> QED
  BY <1>2, <1>3, <1>4

\* An element more is a turn more.
LEMMA FilterOneMore ==
    ASSUME NEW S, NEW list \in Seq(S), NEW x \in S, NEW P
    PROVE  /\ Filter(<<>>, P) = <<>>
           /\ Filter(Append(list, x), P) = FilterTurn(Filter(list, P), x, P)
<1> DEFINE more == Append(list, x)
           N == Len(list)
<1>1. /\ more \in Seq(S) /\ N \in Nat /\ Len(more) = N + 1 /\ more[N + 1] = x
      /\ \A n \in 1..N : more[n] = list[n] /\ n \in 1..(N + 1)
  OBVIOUS
<1>2. PICK a : IsFilter(list, P, a)
  BY FilterIsLoop
<1>3. PICK b : IsFilter(more, P, b)
  BY <1>1, FilterIsLoop
<1>4. Filter(<<>>, P) = <<>>
  <2>1. <<>> \in Seq(S) /\ Len(<<>>) = 0
    OBVIOUS
  <2>2. \E d : IsFilter(<<>>, P, d)
    BY <2>1, FilterIsLoop
  <2> QED
    BY <2>1, <2>2 DEF IsFilter
<1> HIDE DEF more
<1> DEFINE U == {n \in 0..N : a[n] = b[n]}
<1>5. 0 \in U
  BY <1>1, <1>2, <1>3 DEF IsFilter
<1>6. ASSUME NEW n \in 1..N, n - 1 \in U PROVE n \in U
  <2>1. a[n] = FilterTurn(a[n - 1], list[n], P) /\ b[n] = FilterTurn(b[n - 1], more[n], P)
    BY <1>1, <1>2, <1>3 DEF IsFilter
  <2> QED
    BY <1>1, <1>6, <2>1
<1>7. 0..N \subseteq U
  <2> HIDE DEF U, N
  <2> QED
    BY <1>1, <1>5, <1>6, TurnByTurn
<1>8. a[N] = b[N] /\ a[N] = Filter(list, P) /\ b[N + 1] = Filter(more, P)
  BY <1>1, <1>2, <1>3, <1>7 DEF IsFilter
<1>9. b[N + 1] = FilterTurn(b[N], x, P)
  <2>1. N + 1 \in 1..Len(more) /\ (N + 1) - 1 = N
    BY <1>1
  <2>2. b[N + 1] = FilterTurn(b[(N + 1) - 1], more[N + 1], P)
    BY <1>3, <2>1 DEF IsFilter
  <2> QED
    BY <1>1, <2>1, <2>2
<1> QED
  BY <1>4, <1>8, <1>9 DEF more

\* The same for the loop that keeps the latest entries.
LEMMA KeepLatestOneMore ==
    ASSUME NEW S, NEW list \in Seq(S), NEW x \in S, NEW trusted
    PROVE  /\ KeepLatest(<<>>, trusted) = <<>>
           /\ KeepLatest(Append(list, x), trusted) = Consider(trusted, KeepLatest(list, trusted), x)
<1> DEFINE more == Append(list, x)
           N == Len(list)
<1>1. /\ more \in Seq(S) /\ N \in Nat /\ Len(more) = N + 1 /\ more[N + 1] = x
      /\ \A n \in 1..N : more[n] = list[n] /\ n \in 1..(N + 1)
  OBVIOUS
<1>2. PICK a : IsLoop(list, trusted, a)
  BY KeepLatestIsLoop
<1>3. PICK b : IsLoop(more, trusted, b)
  BY <1>1, KeepLatestIsLoop
<1>4. KeepLatest(<<>>, trusted) = <<>>
  <2>1. <<>> \in Seq(S) /\ Len(<<>>) = 0
    OBVIOUS
  <2>2. \E d : IsLoop(<<>>, trusted, d)
    BY <2>1, KeepLatestIsLoop
  <2> QED
    BY <2>1, <2>2 DEF IsLoop
<1> HIDE DEF more
<1> DEFINE U == {n \in 0..N : a[n] = b[n]}
<1>5. 0 \in U
  BY <1>1, <1>2, <1>3 DEF IsLoop
<1>6. ASSUME NEW n \in 1..N, n - 1 \in U PROVE n \in U
  <2>1. a[n] = Consider(trusted, a[n - 1], list[n]) /\ b[n] = Consider(trusted, b[n - 1], more[n])
    BY <1>1, <1>2, <1>3 DEF IsLoop
  <2> QED
    BY <1>1, <1>6, <2>1
<1>7. 0..N \subseteq U
  <2> HIDE DEF U, N
  <2> QED
    BY <1>1, <1>5, <1>6, TurnByTurn
<1>8. a[N] = b[N] /\ a[N] = KeepLatest(list, trusted) /\ b[N + 1] = KeepLatest(more, trusted)
  BY <1>1, <1>2, <1>3, <1>7 DEF IsLoop
<1>9. b[N + 1] = Consider(trusted, b[N], x)
  <2>1. N + 1 \in 1..Len(more) /\ (N + 1) - 1 = N
    BY <1>1
  <2>2. b[N + 1] = Consider(trusted, b[(N + 1) - 1], more[N + 1])
    BY <1>3, <2>1 DEF IsLoop
  <2> QED
    BY <1>1, <2>1, <2>2
<1> QED
  BY <1>4, <1>8, <1>9 DEF more

\* What passes the same elements is the same.
LEMMA FilterSame ==
    ASSUME NEW S, NEW list \in Seq(S), NEW P, NEW Q,
           \A n \in 1..Len(list) : list[n] \in P <=> list[n] \in Q
    PROVE  Filter(list, P) = Filter(list, Q)
<1>1. Passing(list, P) = Passing(list, Q)
  BY DEF Passing
<1>2. Picks(list, Passing(list, P), Filter(list, P)) /\ Picks(list, Passing(list, Q), Filter(list, Q))
  BY FilterPicks
<1>3. Len(list) \in Nat
  OBVIOUS
<1> QED
  BY <1>1, <1>2, <1>3, PicksUnique

\* To filter twice is to filter once.
LEMMA FilterTwice ==
    ASSUME NEW S, NEW list \in Seq(S), NEW P, NEW Q
    PROVE  Filter(Filter(list, P), Q) = Filter(list, P \intersect Q)
<1> DEFINE few(n) == Filter(First(list, n), P)
           U == {n \in 0..Len(list) : Filter(few(n), Q) = Filter(First(list, n), P \intersect Q)}
<1>1. /\ First(list, 0) = <<>> /\ First(list, Len(list)) = list /\ Len(list) \in Nat
      /\ \A n \in 0..Len(list) : First(list, n) \in Seq(S)
      /\ \A n \in 1..Len(list) : First(list, n) = Append(First(list, n - 1), list[n])
  BY FirstIsOneMore
<1>2. 0 \in U
  <2>1. CASE S = {}
    <3>1. \A R : Filter(<<>>, R) = <<>>
      <4> TAKE R
      <4>1. <<>> \in Seq({0}) /\ 0 \in {0}
        OBVIOUS
      <4> QED
        BY <4>1, FilterOneMore
    <3> QED
      BY <1>1, <3>1
  <2>2. CASE S # {}
    BY <1>1, <2>2, FilterOneMore
  <2> QED
    BY <2>1, <2>2
<1>3. ASSUME NEW n \in 1..Len(list), n - 1 \in U PROVE n \in U
  <2> DEFINE l == First(list, n - 1)
             x == list[n]
  <2>1. n - 1 \in 0..Len(list) /\ n \in 0..Len(list)
    BY <1>1
  <2>2. l \in Seq(S) /\ x \in S /\ First(list, n) = Append(l, x)
    <3>1. x \in S
      OBVIOUS
    <3>2. l \in Seq(S)
      BY <1>1, <2>1
    <3>3. First(list, n) = Append(l, x)
      BY <1>1
    <3> QED
      BY <3>1, <3>2, <3>3
  <2>3. Filter(Filter(l, P), Q) = Filter(l, P \intersect Q)
    BY <1>3
  <2>4. few(n) = FilterTurn(Filter(l, P), x, P)
    BY <2>2, FilterOneMore
  <2>5. Filter(First(list, n), P \intersect Q) = FilterTurn(Filter(l, P \intersect Q), x, P \intersect Q)
    BY <2>2, FilterOneMore
  <2>6. Filter(l, P) \in Seq(S)
    BY <2>2, FilterLeaves
  <2> HIDE DEF l, x
  <2>7. Filter(Append(Filter(l, P), x), Q) = FilterTurn(Filter(Filter(l, P), Q), x, Q)
    BY <2>2, <2>6, FilterOneMore
  <2> HIDE DEF few
  <2>8. Filter(few(n), Q) = Filter(First(list, n), P \intersect Q)
    <3>1. CASE x \in P
      <4>1. few(n) = Append(Filter(l, P), x)
        BY <2>4, <3>1 DEF FilterTurn
      <4>2. Filter(few(n), Q) = FilterTurn(Filter(Filter(l, P), Q), x, Q)
        BY <2>7, <4>1
      <4>3. FilterTurn(Filter(l, P \intersect Q), x, Q) = FilterTurn(Filter(l, P \intersect Q), x, P \intersect Q)
        BY <3>1 DEF FilterTurn
      <4> QED
        BY <2>3, <2>5, <4>2, <4>3
    <3>2. CASE x \notin P
      <4>1. few(n) = Filter(l, P)
        BY <2>4, <3>2 DEF FilterTurn
      <4>2. FilterTurn(Filter(l, P \intersect Q), x, P \intersect Q) = Filter(l, P \intersect Q)
        BY <3>2 DEF FilterTurn
      <4> QED
        BY <2>3, <2>5, <4>1, <4>2
    <3> QED
      BY <3>1, <3>2
  <2> QED
    BY <2>1, <2>8
<1>4. 0..Len(list) \subseteq U
  <2> HIDE DEF U
  <2> QED
    BY <1>1, <1>2, <1>3, TurnByTurn
<1>5. Len(list) \in U
  <2> HIDE DEF U
  <2>1. Len(list) \in 0..Len(list)
    BY <1>1
  <2> QED
    BY <1>4, <2>1
<1>6. Filter(few(Len(list)), Q) = Filter(First(list, Len(list)), P \intersect Q)
  <2> HIDE DEF few
  <2> QED
    BY <1>5
<1> QED
  BY <1>1, <1>6

-----------------------------------------------------------------------------
\* To replace an element that is not picked changes nothing of what is picked, and to replace
\* one that is replaces it there too.
LEMMA PicksReplaced ==
    ASSUME NEW S, NEW list \in Seq(S), NEW x \in S, NEW m \in 1..Len(list),
           NEW I, NEW result, NEW at, Picks(list, I, result), Places(list, I, result, at)
    PROVE  /\ m \notin I => Picks([list EXCEPT ![m] = x], I, result)
           /\ \A j \in 1..Len(result) :
                 at[j] = m => Picks([list EXCEPT ![m] = x], I, [result EXCEPT ![j] = x])
<1> DEFINE more == [list EXCEPT ![m] = x]
<1>1. /\ more \in Seq(S) /\ Len(more) = Len(list) /\ more[m] = x
      /\ \A i \in 1..Len(list) : i # m => more[i] = list[i]
  OBVIOUS
<1>2. I \subseteq 1..Len(list) /\ result \in Seq(Range(list)) /\ Len(result) \in Nat
  BY DEF Picks
<1>3. I \subseteq 1..Len(more)
  BY <1>1, <1>2
<1> HIDE DEF more
<1>4. \A i \in 1..Len(list) : more[i] \in Range(more)
  BY <1>1 DEF Range
<1>5. \A j \in 1..Len(result) : at[j] \in I
  BY DEF Places
<1>6. ASSUME m \notin I PROVE Picks(more, I, result)
  <2>1. \A j \in 1..Len(result) : at[j] # m /\ at[j] \in 1..Len(list)
    BY <1>2, <1>5, <1>6
  <2>2. \A j \in 1..Len(result) : result[j] = list[at[j]]
    BY DEF Places
  <2>3. \A j \in 1..Len(result) : result[j] = more[at[j]]
    BY <1>1, <2>1, <2>2
  <2>4. Places(more, I, result, at)
    BY <2>3 DEF Places
  <2>5. \A j \in 1..Len(result) : result[j] \in Range(more)
    BY <1>4, <2>1, <2>3
  <2>6. result \in Seq(Range(more))
    BY <1>2, <2>5
  <2> QED
    BY <1>3, <2>4, <2>6 DEF Picks
<1>7. ASSUME NEW j \in 1..Len(result), at[j] = m PROVE Picks(more, I, [result EXCEPT ![j] = x])
  <2> DEFINE new == [result EXCEPT ![j] = x]
  <2>1. DOMAIN new = 1..Len(result) /\ new[j] = x /\ \A k \in 1..Len(result) : k # j => new[k] = result[k]
    BY <1>2
  <2>2. \A k \in 1..Len(result) : k # j => at[k] # m
    <3> SUFFICES ASSUME NEW k \in 1..Len(result), k # j PROVE at[k] # at[j]
      BY <1>7
    <3>1. k < j \/ j < k
      BY <1>2
    <3>2. at[k] < at[j] \/ at[j] < at[k]
      BY <3>1 DEF Places
    <3>3. at[k] \in I /\ at[j] \in I
      BY <1>5
    <3>4. at[k] \in 1..Len(list) /\ at[j] \in 1..Len(list)
      BY <1>2, <3>3
    <3> QED
      BY <3>2, <3>4
  <2>3. \A k \in 1..Len(result) : at[k] \in 1..Len(list) /\ result[k] = list[at[k]]
    BY <1>2, <1>5 DEF Places
  <2>4. \A k \in 1..Len(result) : new[k] = more[at[k]]
    BY <1>1, <1>7, <2>1, <2>2, <2>3
  <2>5. \A k \in 1..Len(result) : new[k] \in Range(more)
    BY <1>4, <2>3, <2>4
  <2>6. new \in Seq(Range(more)) /\ Len(new) = Len(result)
    <3>1. new = [k \in 1..Len(result) |-> new[k]]
      <4>1. new = [k \in DOMAIN result |-> IF k = j THEN x ELSE result[k]]
        OBVIOUS
      <4>2. DOMAIN result = 1..Len(result)
        BY <1>2
      <4>3. new = [k \in 1..Len(result) |-> IF k = j THEN x ELSE result[k]]
        BY <4>1, <4>2
      <4> HIDE DEF new
      <4> QED
        BY <4>3
    <3> HIDE DEF new
    <3> DEFINE R == Range(more)
    <3>2. \A k \in 1..Len(result) : new[k] \in R
      BY <2>5
    <3> HIDE DEF R
    <3>3. new \in Seq(R)
      BY <1>2, <3>1, <3>2
    <3>4. Len(new) = Len(result)
      BY <1>2, <2>1, <3>3
    <3> QED
      BY <3>3, <3>4 DEF R
  <2> HIDE DEF new
  <2>7. Places(more, I, new, at)
    BY <2>4, <2>6 DEF Places
  <2>8. Picks(more, I, new)
    BY <1>3, <2>6, <2>7 DEF Picks
  <2> QED
    BY <2>8 DEF new
<1> QED
  BY <1>6, <1>7 DEF more

\* Of the entries of x's signer and category, either all pass or none.
PassTogether(list, x, P) ==
    \A i \in 1..Len(list) : Key(list[i]) = Key(x) => (list[i] \in P <=> x \in P)

\* A turn of the loop that keeps the latest entries is the same before and after a filter.
LEMMA ConsiderFiltered ==
    ASSUME NEW S, NEW list \in Seq(S), NEW x \in S, NEW trusted, NEW P,
           Distinct(list), PassTogether(list, x, P)
    PROVE  Filter(Consider(trusted, list, x), P) =
              IF x \in P THEN Consider(trusted, Filter(list, P), x) ELSE Filter(list, P)
<1> DEFINE few == Filter(list, P)
           I == Passing(list, P)
<1>1. Picks(list, I, few) /\ Len(list) \in Nat
  BY FilterPicks
<1>2. few \in Seq(S) /\ Range(few) = Range(list) \intersect P /\ Len(few) \in Nat
  BY FilterLeaves
<1>3. Distinct(few)
  <2> HIDE DEF few, I
  <2> QED
    BY <1>1, PicksDistinct
<1> HIDE DEF few
<1>4. PICK at : Places(list, I, few, at)
  BY <1>1 DEF Picks
<1>5. \A j \in 1..Len(few) : at[j] \in I /\ few[j] = list[at[j]]
  BY <1>4 DEF Places
<1>6. \A i \in I : i \in 1..Len(list) /\ list[i] \in P
  BY DEF Passing
<1>7. \A i \in 1..Len(list) : list[i] \in P => i \in I
  BY DEF Passing
<1> HIDE DEF I
<1>8. CASE ~Eligible(trusted, x)
  <2>1. Consider(trusted, list, x) = list /\ Consider(trusted, few, x) = few
    BY <1>2, <1>8, ConsiderIs
  <2> QED
    BY <2>1 DEF few
<1>9. CASE Eligible(trusted, x) /\ \A i \in 1..Len(list) : Key(list[i]) # Key(x)
  <2>1. Consider(trusted, list, x) = Append(list, x)
    BY <1>9, ConsiderIs
  <2>2. Filter(Append(list, x), P) = FilterTurn(few, x, P)
    BY FilterOneMore DEF few
  <2>3. \A j \in 1..Len(few) : Key(few[j]) # Key(x)
    BY <1>5, <1>6, <1>9
  <2>4. Consider(trusted, few, x) = Append(few, x)
    BY <1>2, <1>9, <2>3, ConsiderIs
  <2> QED
    BY <2>1, <2>2, <2>4 DEF FilterTurn, few
<1>10. CASE Eligible(trusted, x) /\ ~(\A i \in 1..Len(list) : Key(list[i]) # Key(x))
  <2>1. Replaces(list, x, Consider(trusted, list, x))
    BY <1>10, ConsiderIs
  <2>2. PICK m \in 1..Len(list) :
            /\ Key(list[m]) = Key(x)
            /\ Consider(trusted, list, x) = IF x.server_timestamp > list[m].server_timestamp
                                            THEN [list EXCEPT ![m] = x] ELSE list
    BY <2>1 DEF Replaces
  <2> DEFINE more == [list EXCEPT ![m] = x]
  <2>3. list[m] \in P <=> x \in P
    BY <2>2 DEF PassTogether
  <2>4. more \in Seq(S) /\ Len(more) = Len(list)
    OBVIOUS
  <2>5. Passing(more, P) = I
    <3>1. /\ \A i \in 1..Len(list) : i # m => more[i] = list[i]
          /\ more[m] = x
      OBVIOUS
    <3> HIDE DEF more
    <3> QED
      BY <2>3, <2>4, <3>1 DEF Passing, I
  <2>6. Picks(more, I, Filter(more, P))
    <3>1. Picks(more, Passing(more, P), Filter(more, P))
      BY <2>4, FilterPicks
    <3> HIDE DEF more
    <3> QED
      BY <2>5, <3>1
  <2>7. CASE x \notin P
    <3>1. m \notin I
      BY <1>6, <2>3, <2>7
    <3>2. Picks(more, I, few)
      BY <1>1, <1>4, <3>1, PicksReplaced
    <3>3. Filter(more, P) = few
      <4>1. Len(more) \in Nat
        BY <1>1, <2>4
      <4> HIDE DEF more
      <4> QED
        BY <2>6, <3>2, <4>1, PicksUnique
    <3> HIDE DEF more
    <3>4. Consider(trusted, list, x) = more \/ Consider(trusted, list, x) = list
      BY <2>2 DEF more
    <3> QED
      BY <2>7, <3>3, <3>4 DEF few
  <2>8. CASE x \in P
    <3>1. m \in I
      BY <1>7, <2>3, <2>8
    <3>2. PICK j \in 1..Len(few) : at[j] = m
      BY <1>4, <3>1 DEF Places
    <3>3. few[j] = list[m]
      BY <1>5, <3>2
    <3> DEFINE new == [few EXCEPT ![j] = x]
    <3>4. Picks(more, I, new)
      BY <1>1, <1>4, <3>2, PicksReplaced
    <3>5. Filter(more, P) = new
      <4>1. Len(more) \in Nat
        BY <1>1, <2>4
      <4> HIDE DEF more, new
      <4> QED
        BY <2>6, <3>4, <4>1, PicksUnique
    <3>6. Key(few[j]) = Key(x)
      BY <2>2, <3>3
    <3>7. Replaces(few, x, Consider(trusted, few, x))
      BY <1>2, <1>10, <3>6, ConsiderIs
    <3>8. PICK k \in 1..Len(few) :
              /\ Key(few[k]) = Key(x)
              /\ Consider(trusted, few, x) = IF x.server_timestamp > few[k].server_timestamp
                                             THEN [few EXCEPT ![k] = x] ELSE few
      BY <3>7 DEF Replaces
    <3>9. k = j
      BY <1>3, <3>6, <3>8 DEF Distinct
    <3>10. Consider(trusted, few, x) = IF x.server_timestamp > list[m].server_timestamp THEN new ELSE few
      BY <3>3, <3>8, <3>9
    <3>11. Consider(trusted, list, x) = IF x.server_timestamp > list[m].server_timestamp THEN more ELSE list
      BY <2>2
    <3> HIDE DEF more, new
    <3> QED
      BY <2>8, <3>5, <3>10, <3>11 DEF few
  <2> QED
    BY <2>7, <2>8
<1> QED
  BY <1>8, <1>9, <1>10

\* The latest entries of what passes are what passes of the latest entries, when the entries of
\* a signer in a category all pass or none does.
THEOREM LatestOfWhatPasses ==
    ASSUME NEW S, NEW list \in Seq(S), \A x \in S : x.server_timestamp \in Int, NEW trusted, NEW P,
           \A i, j \in 1..Len(list) : Key(list[i]) = Key(list[j]) => (list[i] \in P <=> list[j] \in P)
    PROVE  KeepLatest(Filter(list, P), trusted) = Filter(KeepLatest(list, trusted), P)
<1> DEFINE pass(n) == Filter(First(list, n), P)
           kept(n) == KeepLatest(First(list, n), trusted)
           U == {n \in 0..Len(list) : KeepLatest(pass(n), trusted) = Filter(kept(n), P)}
<1>1. /\ First(list, 0) = <<>> /\ First(list, Len(list)) = list /\ Len(list) \in Nat
      /\ \A n \in 0..Len(list) : First(list, n) \in Seq(S) /\ Len(First(list, n)) = n
      /\ \A n \in 1..Len(list) : First(list, n) = Append(First(list, n - 1), list[n])
  BY FirstIsOneMore
<1>2. 0 \in U
  <2>1. <<>> \in Seq({0}) /\ 0 \in {0}
    OBVIOUS
  <2>2. Filter(<<>>, P) = <<>>
    BY <2>1, FilterOneMore
  <2>3. KeepLatest(<<>>, trusted) = <<>>
    BY <2>1, KeepLatestOneMore
  <2> QED
    BY <1>1, <2>2, <2>3
<1>3. ASSUME NEW n \in 1..Len(list), n - 1 \in U PROVE n \in U
  <2> DEFINE l == First(list, n - 1)
             x == list[n]
  <2>1. n - 1 \in 0..Len(list) /\ n \in 0..Len(list) /\ n - 1 \in Nat
    BY <1>1
  <2>2. l \in Seq(S) /\ Len(l) = n - 1 /\ x \in S /\ First(list, n) = Append(l, x)
    <3>1. x \in S
      OBVIOUS
    <3>2. l \in Seq(S) /\ Len(l) = n - 1
      BY <1>1, <2>1
    <3>3. First(list, n) = Append(l, x)
      BY <1>1
    <3> QED
      BY <3>1, <3>2, <3>3
  <2>3. KeepLatest(Filter(l, P), trusted) = Filter(KeepLatest(l, trusted), P)
    BY <1>3
  <2>4. pass(n) = FilterTurn(Filter(l, P), x, P)
    BY <2>2, FilterOneMore
  <2>5. kept(n) = Consider(trusted, KeepLatest(l, trusted), x)
    BY <2>2, KeepLatestOneMore
  <2>6. Filter(l, P) \in Seq(S)
    BY <2>2, FilterLeaves
  <2>7. \A m \in 1..(n - 1) : l[m] = list[m]
    BY DEF First
  <2> DEFINE few == KeepLatest(l, trusted)
  <2>8. NewestKept(l, trusted, n - 1, few)
    <3> HIDE DEF l
    <3>1. NewestKept(l, trusted, Len(l), KeepLatest(l, trusted))
      BY <2>2, KeepLatestKeepsNewest
    <3> QED
      BY <2>2, <3>1
  <2> HIDE DEF l, x, few
  <2>9. few \in Seq(S) /\ Distinct(few)
    <3>1. Range(l) \subseteq S
      BY <2>2 DEF Range
    <3> QED
      BY <2>8, <3>1 DEF NewestKept, Distinct
  <2>10. PassTogether(few, x, P)
    <3> SUFFICES ASSUME NEW i \in 1..Len(few), Key(few[i]) = Key(x) PROVE few[i] \in P <=> x \in P
      BY DEF PassTogether
    <3>1. PICK m \in 1..(n - 1) : few[i] = l[m]
      BY <2>8 DEF NewestKept
    <3>2. m \in 1..Len(list)
      BY <1>1, <3>1
    <3>3. few[i] = list[m]
      BY <2>7, <3>1
    <3> QED
      BY <3>2, <3>3 DEF x
  <2>11. Filter(Consider(trusted, few, x), P) =
            IF x \in P THEN Consider(trusted, Filter(few, P), x) ELSE Filter(few, P)
    BY <2>2, <2>9, <2>10, ConsiderFiltered
  <2>12. KeepLatest(Append(Filter(l, P), x), trusted) =
            Consider(trusted, KeepLatest(Filter(l, P), trusted), x)
    BY <2>2, <2>6, KeepLatestOneMore
  <2>13. KeepLatest(Filter(l, P), trusted) = Filter(few, P)
    BY <2>3 DEF few
  <2>14. kept(n) = Consider(trusted, few, x)
    BY <2>5 DEF few
  <2> HIDE DEF pass, kept
  <2>15. KeepLatest(pass(n), trusted) = Filter(kept(n), P)
    <3>1. CASE x \in P
      <4>1. pass(n) = Append(Filter(l, P), x)
        BY <2>4, <3>1 DEF FilterTurn
      <4> QED
        BY <2>11, <2>12, <2>13, <2>14, <3>1, <4>1
    <3>2. CASE x \notin P
      <4>1. pass(n) = Filter(l, P)
        BY <2>4, <3>2 DEF FilterTurn
      <4> QED
        BY <2>11, <2>13, <2>14, <3>2, <4>1
    <3> QED
      BY <3>1, <3>2
  <2> QED
    BY <2>1, <2>15
<1>4. Len(list) \in U
  <2> HIDE DEF U
  <2>1. 0..Len(list) \subseteq U
    BY <1>1, <1>2, <1>3, TurnByTurn
  <2>2. Len(list) \in 0..Len(list)
    BY <1>1
  <2> QED
    BY <2>1, <2>2
<1>5. KeepLatest(pass(Len(list)), trusted) = Filter(kept(Len(list)), P)
  <2> HIDE DEF pass, kept
  <2> QED
    BY <1>4
<1> QED
  BY <1>1, <1>5

-----------------------------------------------------------------------------
\* What Verified has after each turn.
Indices(kept) == [i \in DOMAIN kept |-> i]

VerifiedTurn(verified, i, kept, results) ==
    IF results[2 * i - 1] /\ results[2 * i] THEN Append(verified, kept[i]) ELSE verified

IsVerified(kept, results, after) ==
    /\ after[0] = <<>>
    /\ \A n \in 1..Len(kept) : after[n] = VerifiedTurn(after[n - 1], Indices(kept)[n], kept, results)
    /\ after[Len(kept)] = Verified(kept, results)

\* It is such a loop.
LEMMA VerifiedIsLoop ==
    ASSUME NEW S, NEW kept \in Seq(S), NEW results
    PROVE  \E after : IsVerified(kept, results, after)
<1> DEFINE N == Len(kept)
           A == Seq(S)
           step == [an \in A \X (1..N) |-> VerifiedTurn(an[1], Indices(kept)[an[2]], kept, results)]
           Is(f) == f = [s \in SUBSET DOMAIN Indices(kept) |->
                           IF s = {} THEN <<>>
                           ELSE VerifiedTurn(f[s \ {Max(s)}], Indices(kept)[Max(s)], kept, results)]
<1>1. N \in Nat /\ DOMAIN Indices(kept) = 1..N /\ <<>> \in A
      /\ \A n \in 1..N : Indices(kept)[n] = n /\ kept[n] \in S
  BY DEF Indices
<1>2. step \in [A \X (1..N) -> A]
  <2>1. \A a \in A, n \in 1..N : VerifiedTurn(a, Indices(kept)[n], kept, results) \in A
    BY <1>1 DEF VerifiedTurn
  <2> HIDE DEF A
  <2> QED
    BY <2>1
<1>3. \A a \in A, n \in 1..N : step[<<a, n>>] = VerifiedTurn(a, Indices(kept)[n], kept, results)
  OBVIOUS
<1>4. \E f : Is(f)
  <2>1. PICK f \in [SUBSET (1..N) -> A] : FoldsUpTo(f, N, <<>>, step)
    <3> HIDE DEF step, A, N
    <3>1. Foldable(N, A, <<>>, step)
      BY <1>1, <1>2, FoldExists
    <3> QED
      BY <3>1 DEF Foldable
  <2> HIDE DEF step, A
  <2>2. ASSUME NEW s \in SUBSET (1..N), s # {}
        PROVE  f[s] = VerifiedTurn(f[s \ {Max(s)}], Indices(kept)[Max(s)], kept, results)
    <3>1. Max(s) \in 1..N /\ f[s \ {Max(s)}] \in A
      BY <1>1, <2>2, HasLast
    <3> QED
      BY <1>3, <2>1, <2>2, <3>1 DEF FoldsUpTo
  <2>3. f[{}] = <<>>
    BY <2>1 DEF FoldsUpTo
  <2>4. f = [s \in SUBSET (1..N) |-> f[s]]
    OBVIOUS
  <2>5. [s \in SUBSET (1..N) |-> f[s]]
        = [s \in SUBSET (1..N) |-> IF s = {} THEN <<>>
                                   ELSE VerifiedTurn(f[s \ {Max(s)}], Indices(kept)[Max(s)], kept, results)]
    BY <2>2, <2>3
  <2> QED
    BY <1>1, <2>4, <2>5
<1> DEFINE f == CHOOSE f : Is(f)
<1>5. Verified(kept, results) = f[1..N]
  BY <1>1 DEF Verified, VerifiedTurn, Indices, FoldLeftDomain, FoldLeft, MapThenFoldSet
<1>6. Is(f)
  BY <1>4
<1>7. \A s \in SUBSET (1..N) :
          f[s] = IF s = {} THEN <<>> ELSE VerifiedTurn(f[s \ {Max(s)}], Indices(kept)[Max(s)], kept, results)
  <2> HIDE DEF f
  <2> QED
    BY <1>1, <1>6
<1> HIDE DEF f, Is
<1> DEFINE after == [n \in 0..N |-> f[1..n]]
<1>8. after[0] = <<>> /\ after[N] = f[1..N]
  <2>1. 1..0 = {} /\ {} \in SUBSET (1..N) /\ 0 \in 0..N /\ N \in 0..N
    BY <1>1
  <2>2. after[0] = f[1..0] /\ after[N] = f[1..N]
    BY <2>1
  <2>3. f[{}] = <<>>
    BY <1>7, <2>1
  <2> QED
    BY <2>1, <2>2, <2>3
<1>9. ASSUME NEW n \in 1..N
      PROVE  after[n] = VerifiedTurn(after[n - 1], Indices(kept)[n], kept, results)
  <2>1. 1..n \in SUBSET (1..N) /\ n \in 1..n /\ n \in Nat \ {0} /\ n - 1 \in 0..N /\ n \in 0..N
    BY <1>1
  <2>2. Max(1..n) = n /\ (1..n) \ {n} = 1..(n - 1)
    BY <2>1, LastOfPrefix
  <2>3. after[n] = f[1..n] /\ after[n - 1] = f[1..(n - 1)]
    BY <2>1
  <2>4. 1..n # {}
    BY <2>1
  <2>5. f[1..n] = VerifiedTurn(f[(1..n) \ {Max(1..n)}], Indices(kept)[Max(1..n)], kept, results)
    BY <1>7, <2>1, <2>4
  <2> QED
    BY <2>2, <2>3, <2>5
<1> HIDE DEF after
<1> QED
  BY <1>5, <1>8, <1>9 DEF IsVerified

\* The positions of the entries of which both answers are yes.
VerifiedPlaces(kept, results) == {i \in 1..Len(kept) : results[2 * i - 1] /\ results[2 * i]}

\* Verified picks them.
LEMMA VerifiedPicks ==
    ASSUME NEW S, NEW kept \in Seq(S), NEW results
    PROVE  Picks(kept, VerifiedPlaces(kept, results), Verified(kept, results))
<1>1. PICK after : IsVerified(kept, results, after)
  BY VerifiedIsLoop
<1> DEFINE I == VerifiedPlaces(kept, results)
           U == {n \in 0..Len(kept) : Picks(kept, I \intersect (1..n), after[n])}
<1>2. 0 \in U
  <2>1. I \intersect (1..0) = {} /\ after[0] = <<>> /\ 0 \in 0..Len(kept)
    BY <1>1 DEF IsVerified
  <2>2. Picks(kept, {}, <<>>)
    BY PicksNone
  <2> HIDE DEF I
  <2> QED
    BY <2>1, <2>2
<1>3. ASSUME NEW n \in 1..Len(kept), n - 1 \in U PROVE n \in U
  <2> DEFINE J == I \intersect (1..(n - 1))
  <2>1. Picks(kept, J, after[n - 1])
    BY <1>3
  <2>2. J \subseteq 1..(n - 1) /\ n \in 0..Len(kept)
    OBVIOUS
  <2>3. after[n] = VerifiedTurn(after[n - 1], n, kept, results)
    <3>1. after[n] = VerifiedTurn(after[n - 1], Indices(kept)[n], kept, results)
      BY <1>1 DEF IsVerified
    <3>2. Indices(kept)[n] = n
      BY DEF Indices
    <3> QED
      BY <3>1, <3>2
  <2>4. CASE results[2 * n - 1] /\ results[2 * n]
    <3>1. I \intersect (1..n) = J \union {n}
      BY <2>4 DEF VerifiedPlaces
    <3>2. after[n] = Append(after[n - 1], kept[n])
      BY <2>3, <2>4 DEF VerifiedTurn
    <3> HIDE DEF J
    <3>3. Picks(kept, J \union {n}, Append(after[n - 1], kept[n]))
      BY <2>1, <2>2, PicksTurn
    <3> HIDE DEF I
    <3> QED
      BY <2>2, <3>1, <3>2, <3>3
  <2>5. CASE ~(results[2 * n - 1] /\ results[2 * n])
    <3>1. I \intersect (1..n) = J
      BY <2>5 DEF VerifiedPlaces
    <3>2. after[n] = after[n - 1]
      BY <2>3, <2>5 DEF VerifiedTurn
    <3> HIDE DEF I, J
    <3> QED
      BY <2>1, <2>2, <3>1, <3>2
  <2> QED
    BY <2>4, <2>5
<1>4. 0..Len(kept) \subseteq U
  <2>1. Len(kept) \in Nat
    OBVIOUS
  <2> HIDE DEF U
  <2> QED
    BY <1>2, <1>3, <2>1, TurnByTurn
<1>5. Len(kept) \in U /\ I \intersect (1..Len(kept)) = I
  <2>1. I \subseteq 1..Len(kept)
    BY DEF VerifiedPlaces
  <2>2. Len(kept) \in 0..Len(kept)
    OBVIOUS
  <2> HIDE DEF I, U
  <2> QED
    BY <1>4, <2>1, <2>2
<1> HIDE DEF I
<1>6. Picks(kept, I, after[Len(kept)])
  BY <1>5
<1> QED
  BY <1>1, <1>6 DEF IsVerified, I

\* A category counts as many signers as there are.
LEMMA CountsSigners ==
    ASSUME NEW S, NEW claims \in Seq(S), NEW c, Distinct(claims),
           \A i \in 1..Len(claims) : claims[i].category = c
    PROVE  Len(claims) = Cardinality({x.signer_keyid : x \in ToSet(claims)})
<1> DEFINE T == {x.signer_keyid : x \in ToSet(claims)}
           f == [i \in 1..Len(claims) |-> claims[i].signer_keyid]
<1>1. Len(claims) \in Nat /\ ToSet(claims) = {claims[i] : i \in 1..Len(claims)}
  BY DEF ToSet
<1>2. f \in [1..Len(claims) -> T]
  BY <1>1
<1>3. \A i, j \in 1..Len(claims) : f[i] = f[j] => i = j
  BY DEF Distinct, Key
<1>4. \A t \in T : \E i \in 1..Len(claims) : f[i] = t
  BY <1>1
<1> HIDE DEF f, T
<1>5. f \in Bijection(1..Len(claims), T)
  BY <1>2, <1>3, <1>4 DEF Bijection, Injection, IsInjective, Surjection
<1>6. ExistsBijection(1..Len(claims), T)
  BY <1>5 DEF ExistsBijection
<1>7. Cardinality(T) = Len(claims)
  BY <1>1, <1>6, FS_CountingElements
<1> QED
  BY <1>7 DEF T

-----------------------------------------------------------------------------
\* What parseColons knows after some lines.
ParseState(lines) == FoldLeft(ColonLine, Start, lines)

FieldsOf(lines) ==
    {""} \union {lines[n].validity : n \in 1..Len(lines)} \union {lines[n].trust : n \in 1..Len(lines)}
         \union {lines[n].fpr : n \in 1..Len(lines)}

ColonStates(V) ==
    [keys : Seq([fingerprint : V, trust : V]), open : BOOLEAN, validity : V, trust : V, fpr : V]

\* A line leaves it in its type.
LEMMA ColonLineType ==
    ASSUME NEW lines, NEW n \in 1..Len(lines), NEW s \in ColonStates(FieldsOf(lines))
    PROVE  ColonLine(s, lines[n]) \in ColonStates(FieldsOf(lines))
<1> DEFINE V == FieldsOf(lines)
<1>1. "" \in V /\ lines[n].validity \in V /\ lines[n].trust \in V /\ lines[n].fpr \in V
  BY DEF FieldsOf
<1> HIDE DEF V
<1>2. s \in ColonStates(V)
  BY DEF V
<1>3. Flush(s) \in ColonStates(V)
  <2>1. s.keys \in Seq([fingerprint : V, trust : V]) /\ s.fpr \in V /\ s.trust \in V
    BY <1>2 DEF ColonStates
  <2>2. [fingerprint |-> s.fpr, trust |-> s.trust] \in [fingerprint : V, trust : V]
    BY <2>1
  <2>3. Append(s.keys, [fingerprint |-> s.fpr, trust |-> s.trust]) \in Seq([fingerprint : V, trust : V])
    BY <2>1, <2>2
  <2> QED
    BY <1>1, <2>1, <2>3 DEF Flush, Start, ColonStates
<1>4. ColonLine(s, lines[n]) \in ColonStates(V)
  BY <1>1, <1>2, <1>3 DEF ColonLine, ColonStates
<1> QED
  BY <1>4 DEF V

IsParse(lines, after) ==
    /\ after[0] = Start
    /\ \A n \in 1..Len(lines) : after[n] = ColonLine(after[n - 1], lines[n])
    /\ after[Len(lines)] = ParseState(lines)

\* It is such a loop.
LEMMA ParseIsLoop ==
    ASSUME NEW S, NEW lines \in Seq(S)
    PROVE  \E after : IsParse(lines, after)
<1> DEFINE N == Len(lines)
           A == ColonStates(FieldsOf(lines))
           step == [an \in A \X (1..N) |-> ColonLine(an[1], lines[an[2]])]
           Is(f) == f = [s \in SUBSET DOMAIN lines |->
                           IF s = {} THEN Start
                           ELSE ColonLine(f[s \ {Max(s)}], lines[Max(s)])]
<1>1. N \in Nat /\ DOMAIN lines = 1..N /\ Start \in A
  <2>1. "" \in FieldsOf(lines)
    BY DEF FieldsOf
  <2>2. Start \in A
    <3> DEFINE V == FieldsOf(lines)
    <3>1. "" \in V
      BY <2>1
    <3> HIDE DEF V
    <3>2. Start \in ColonStates(V)
      <4>1. <<>> \in Seq([fingerprint : V, trust : V])
        OBVIOUS
      <4> QED
        BY <3>1, <4>1 DEF Start, ColonStates
    <3> QED
      BY <3>2 DEF V
  <2> QED
    BY <2>2
<1>2. step \in [A \X (1..N) -> A]
  <2>1. \A a \in A, n \in 1..N : ColonLine(a, lines[n]) \in A
    BY <1>1, ColonLineType
  <2> HIDE DEF A
  <2> QED
    BY <2>1
<1>3. \A a \in A, n \in 1..N : step[<<a, n>>] = ColonLine(a, lines[n])
  OBVIOUS
<1>4. \E f : Is(f)
  <2>1. PICK f \in [SUBSET (1..N) -> A] : FoldsUpTo(f, N, Start, step)
    <3> HIDE DEF step, A, N
    <3>1. Foldable(N, A, Start, step)
      BY <1>1, <1>2, FoldExists
    <3> QED
      BY <3>1 DEF Foldable
  <2> HIDE DEF step, A
  <2>2. ASSUME NEW s \in SUBSET (1..N), s # {}
        PROVE  f[s] = ColonLine(f[s \ {Max(s)}], lines[Max(s)])
    <3>1. Max(s) \in 1..N /\ f[s \ {Max(s)}] \in A
      BY <1>1, <2>2, HasLast
    <3> QED
      BY <1>3, <2>1, <2>2, <3>1 DEF FoldsUpTo
  <2>3. f[{}] = Start
    BY <2>1 DEF FoldsUpTo
  <2>4. f = [s \in SUBSET (1..N) |-> f[s]]
    OBVIOUS
  <2>5. [s \in SUBSET (1..N) |-> f[s]]
        = [s \in SUBSET (1..N) |-> IF s = {} THEN Start
                                   ELSE ColonLine(f[s \ {Max(s)}], lines[Max(s)])]
    BY <2>2, <2>3
  <2> QED
    BY <1>1, <2>4, <2>5
<1> DEFINE f == CHOOSE f : Is(f)
<1>5. ParseState(lines) = f[1..N]
  BY <1>1 DEF ParseState, FoldLeft, MapThenFoldSet
<1>6. Is(f)
  BY <1>4
<1>7. \A s \in SUBSET (1..N) :
          f[s] = IF s = {} THEN Start ELSE ColonLine(f[s \ {Max(s)}], lines[Max(s)])
  <2> HIDE DEF f
  <2> QED
    BY <1>1, <1>6
<1> HIDE DEF f, Is
<1> DEFINE after == [n \in 0..N |-> f[1..n]]
<1>8. after[0] = Start /\ after[N] = f[1..N]
  <2>1. 1..0 = {} /\ {} \in SUBSET (1..N) /\ 0 \in 0..N /\ N \in 0..N
    BY <1>1
  <2>2. after[0] = f[1..0] /\ after[N] = f[1..N]
    BY <2>1
  <2>3. f[{}] = Start
    BY <1>7, <2>1
  <2> QED
    BY <2>1, <2>2, <2>3
<1>9. ASSUME NEW n \in 1..N
      PROVE  after[n] = ColonLine(after[n - 1], lines[n])
  <2>1. 1..n \in SUBSET (1..N) /\ n \in 1..n /\ n \in Nat \ {0} /\ n - 1 \in 0..N /\ n \in 0..N
    BY <1>1
  <2>2. Max(1..n) = n /\ (1..n) \ {n} = 1..(n - 1)
    BY <2>1, LastOfPrefix
  <2>3. after[n] = f[1..n] /\ after[n - 1] = f[1..(n - 1)]
    BY <2>1
  <2>4. 1..n # {}
    BY <2>1
  <2>5. f[1..n] = ColonLine(f[(1..n) \ {Max(1..n)}], lines[Max(1..n)])
    BY <1>7, <2>1, <2>4
  <2> QED
    BY <2>2, <2>3, <2>5
<1> HIDE DEF after
<1> QED
  BY <1>5, <1>8, <1>9 DEF IsParse

\* One line more is one turn more.
LEMMA ParseOneMore ==
    ASSUME NEW S, NEW lines \in Seq(S), NEW x \in S
    PROVE  ParseState(Append(lines, x)) = ColonLine(ParseState(lines), x)
<1> DEFINE more == Append(lines, x)
           N == Len(lines)
<1>1. more \in Seq(S) /\ N \in Nat /\ Len(more) = N + 1 /\ more[N + 1] = x
      /\ \A n \in 1..N : more[n] = lines[n] /\ n \in 1..(N + 1)
  OBVIOUS
<1>2. PICK few : IsParse(lines, few)
  BY ParseIsLoop
<1>3. PICK many : IsParse(more, many)
  BY <1>1, ParseIsLoop
<1> HIDE DEF more
<1> DEFINE U == {n \in 0..N : few[n] = many[n]}
<1>4. 0 \in U
  BY <1>1, <1>2, <1>3 DEF IsParse
<1>5. ASSUME NEW n \in 1..N, n - 1 \in U PROVE n \in U
  <2>1. few[n] = ColonLine(few[n - 1], lines[n]) /\ many[n] = ColonLine(many[n - 1], more[n])
    BY <1>1, <1>2, <1>3 DEF IsParse
  <2> QED
    BY <1>1, <1>5, <2>1
<1>6. 0..N \subseteq U
  <2> HIDE DEF U, N
  <2> QED
    BY <1>1, <1>4, <1>5, TurnByTurn
<1>7. few[N] = many[N]
  BY <1>1, <1>6
<1>8. few[N] = ParseState(lines) /\ many[N + 1] = ParseState(more)
  BY <1>1, <1>2, <1>3 DEF IsParse
<1>9. many[N + 1] = ColonLine(many[N], x)
  <2>1. N + 1 \in 1..Len(more) /\ (N + 1) - 1 = N
    BY <1>1
  <2>2. many[N + 1] = ColonLine(many[(N + 1) - 1], more[N + 1])
    BY <1>3, <2>1 DEF IsParse
  <2> QED
    BY <1>1, <2>1, <2>2
<1> QED
  BY <1>7, <1>8, <1>9 DEF more

-----------------------------------------------------------------------------
\* A sequence of anything but the elements of E.
LEMMA Without ==
    ASSUME NEW s, NEW E, s \in Seq(ToSet(s) \ E)
    PROVE  Len(s) \in Nat /\ DOMAIN s = 1..Len(s) /\ \A n \in 1..Len(s) : s[n] \in ToSet(s) /\ s[n] \notin E
  OBVIOUS

HasName(k) == k \notin {"", Nobody}

\* gpg has keys in some order.
LEMMA KeyOrderIs ==
    /\ Len(KeyOrder) \in Nat /\ DOMAIN KeyOrder = 1..Len(KeyOrder)
    /\ \A n \in 1..Len(KeyOrder) : KeyOrder[n] \in ToSet(KeyOrder) /\ HasName(KeyOrder[n])
<1>1. KeyOrder \in Seq(ToSet(KeyOrder) \ {"", Nobody})
  BY KeysAssumption
<1> QED
  BY <1>1, Without DEF HasName

\* What gpg has printed after each key.
ListingTurn(keyring, lines, k) == IF k \in DOMAIN keyring THEN lines \o KeyLines(keyring, k) ELSE lines

IsKeyListing(keyring, after) ==
    /\ after[0] = <<>>
    /\ \A n \in 1..Len(KeyOrder) : after[n] = ListingTurn(keyring, after[n - 1], KeyOrder[n])
    /\ after[Len(KeyOrder)] = ListKeysOutput(keyring)

\* All lines there are.
LineNo(keyring, n, j) == KeyLines(keyring, KeyOrder[n])[j]
AllLines(keyring) == {LineNo(keyring, n, j) : n \in 1..Len(KeyOrder), j \in 1..3}

\* A key adds three of them, or none.
LEMMA ListingTurnType ==
    ASSUME NEW keyring, NEW n \in 1..Len(KeyOrder), NEW lines \in Seq(AllLines(keyring))
    PROVE  /\ KeyLines(keyring, KeyOrder[n]) \in Seq(AllLines(keyring))
           /\ ListingTurn(keyring, lines, KeyOrder[n]) \in Seq(AllLines(keyring))
<1> DEFINE three == KeyLines(keyring, KeyOrder[n])
           P == AllLines(keyring)
<1>1. three = << three[1], three[2], three[3] >>
  BY DEF KeyLines
<1>2. three[1] \in P /\ three[2] \in P /\ three[3] \in P
  <2>1. LineNo(keyring, n, 1) \in P /\ LineNo(keyring, n, 2) \in P /\ LineNo(keyring, n, 3) \in P
    <3>1. 1 \in 1..3 /\ 2 \in 1..3 /\ 3 \in 1..3
      OBVIOUS
    <3> QED
      BY <3>1 DEF AllLines
  <2> QED
    BY <2>1 DEF LineNo
<1> HIDE DEF P, three
<1>3. three \in Seq(P)
  <2>1. << three[1], three[2], three[3] >> \in Seq(P)
    BY <1>2
  <2> QED
    BY <1>1, <2>1
<1>4. lines \in Seq(P) => lines \o three \in Seq(P)
  BY <1>3
<1> QED
  BY <1>3, <1>4 DEF ListingTurn, P, three

\* It is such a loop.
LEMMA ListingIsLoop ==
    ASSUME NEW keyring
    PROVE  \E after : IsKeyListing(keyring, after)
<1> DEFINE N == Len(KeyOrder)
           A == Seq(AllLines(keyring))
           step == [an \in A \X (1..N) |-> ListingTurn(keyring, an[1], KeyOrder[an[2]])]
           Is(f) == f = [s \in SUBSET DOMAIN KeyOrder |->
                           IF s = {} THEN <<>>
                           ELSE ListingTurn(keyring, f[s \ {Max(s)}], KeyOrder[Max(s)])]
<1>1. N \in Nat /\ DOMAIN KeyOrder = 1..N /\ <<>> \in A
  <2>1. N \in Nat /\ DOMAIN KeyOrder = 1..N
    BY KeyOrderIs
  <2> QED
    BY <2>1
<1>2. step \in [A \X (1..N) -> A]
  <2>1. \A a \in A, n \in 1..N : ListingTurn(keyring, a, KeyOrder[n]) \in A
    BY <1>1, ListingTurnType
  <2> HIDE DEF A
  <2> QED
    BY <2>1
<1>3. \A a \in A, n \in 1..N : step[<<a, n>>] = ListingTurn(keyring, a, KeyOrder[n])
  OBVIOUS
<1>4. \E f : Is(f)
  <2>1. PICK f \in [SUBSET (1..N) -> A] : FoldsUpTo(f, N, <<>>, step)
    <3> HIDE DEF step, A, N
    <3>1. Foldable(N, A, <<>>, step)
      BY <1>1, <1>2, FoldExists
    <3> QED
      BY <3>1 DEF Foldable
  <2> HIDE DEF step, A
  <2>2. ASSUME NEW s \in SUBSET (1..N), s # {}
        PROVE  f[s] = ListingTurn(keyring, f[s \ {Max(s)}], KeyOrder[Max(s)])
    <3>1. Max(s) \in 1..N /\ f[s \ {Max(s)}] \in A
      BY <1>1, <2>2, HasLast
    <3> QED
      BY <1>3, <2>1, <2>2, <3>1 DEF FoldsUpTo
  <2>3. f[{}] = <<>>
    BY <2>1 DEF FoldsUpTo
  <2>4. f = [s \in SUBSET (1..N) |-> f[s]]
    OBVIOUS
  <2>5. [s \in SUBSET (1..N) |-> f[s]]
        = [s \in SUBSET (1..N) |-> IF s = {} THEN <<>>
                                   ELSE ListingTurn(keyring, f[s \ {Max(s)}], KeyOrder[Max(s)])]
    BY <2>2, <2>3
  <2> QED
    BY <1>1, <2>4, <2>5
<1> DEFINE f == CHOOSE f : Is(f)
<1>5. ListKeysOutput(keyring) = f[1..N]
  BY <1>1 DEF ListKeysOutput, ListingTurn, FoldLeft, MapThenFoldSet
<1>6. Is(f)
  BY <1>4
<1>7. \A s \in SUBSET (1..N) :
          f[s] = IF s = {} THEN <<>> ELSE ListingTurn(keyring, f[s \ {Max(s)}], KeyOrder[Max(s)])
  <2> HIDE DEF f
  <2> QED
    BY <1>1, <1>6
<1> HIDE DEF f, Is
<1> DEFINE after == [n \in 0..N |-> f[1..n]]
<1>8. after[0] = <<>> /\ after[N] = f[1..N]
  <2>1. 1..0 = {} /\ {} \in SUBSET (1..N) /\ 0 \in 0..N /\ N \in 0..N
    BY <1>1
  <2>2. after[0] = f[1..0] /\ after[N] = f[1..N]
    BY <2>1
  <2>3. f[{}] = <<>>
    BY <1>7, <2>1
  <2> QED
    BY <2>1, <2>2, <2>3
<1>9. ASSUME NEW n \in 1..N
      PROVE  after[n] = ListingTurn(keyring, after[n - 1], KeyOrder[n])
  <2>1. 1..n \in SUBSET (1..N) /\ n \in 1..n /\ n \in Nat \ {0} /\ n - 1 \in 0..N /\ n \in 0..N
    BY <1>1
  <2>2. Max(1..n) = n /\ (1..n) \ {n} = 1..(n - 1)
    BY <2>1, LastOfPrefix
  <2>3. after[n] = f[1..n] /\ after[n - 1] = f[1..(n - 1)]
    BY <2>1
  <2>4. 1..n # {}
    BY <2>1
  <2>5. f[1..n] = ListingTurn(keyring, f[(1..n) \ {Max(1..n)}], KeyOrder[Max(1..n)])
    BY <1>7, <2>1, <2>4
  <2> QED
    BY <2>2, <2>3, <2>5
<1> HIDE DEF after
<1> QED
  BY <1>5, <1>8, <1>9 DEF IsKeyListing

\* The lines of a key come one after the other.
LEMMA ThreeMore ==
    ASSUME NEW S, NEW lines \in Seq(S), NEW a \in S, NEW b \in S, NEW d \in S
    PROVE  lines \o << a, b, d >> = Append(Append(Append(lines, a), b), d)
<1> DEFINE l == lines \o << a, b, d >>
           r == Append(Append(Append(lines, a), b), d)
           N == Len(lines)
<1>1. << a, b, d >> \in Seq(S) /\ N \in Nat /\ Len(<< a, b, d >>) = 3
  OBVIOUS
<1>2. l \in Seq(S) /\ Len(l) = N + 3
  BY <1>1
<1>3. r \in Seq(S) /\ Len(r) = N + 3
  OBVIOUS
<1>4. \A i \in 1..N : l[i] = lines[i] /\ r[i] = lines[i]
  BY <1>1
<1>5. l[N + 1] = a /\ l[N + 2] = b /\ l[N + 3] = d
  BY <1>1
<1>6. r[N + 1] = a /\ r[N + 2] = b /\ r[N + 3] = d
  BY <1>1
<1>7. \A i \in 1..(N + 3) : i \in 1..N \/ i = N + 1 \/ i = N + 2 \/ i = N + 3
  BY <1>1
<1> HIDE DEF l, r
<1>8. \A i \in 1..(N + 3) : l[i] = r[i]
  BY <1>4, <1>5, <1>6, <1>7
<1>9. l = [i \in 1..(N + 3) |-> l[i]] /\ r = [i \in 1..(N + 3) |-> r[i]]
  BY <1>2, <1>3
<1> QED
  BY <1>8, <1>9 DEF l, r

\* Three lines more are three turns more.
LEMMA ParseThree ==
    ASSUME NEW S, NEW lines \in Seq(S), NEW x, NEW y, NEW z, << x, y, z >> \in Seq(S)
    PROVE  ParseState(lines \o << x, y, z >>) = ColonLine(ColonLine(ColonLine(ParseState(lines), x), y), z)
<1>1. x \in S /\ y \in S /\ z \in S
  <2>1. << x, y, z >>[1] \in S /\ << x, y, z >>[2] \in S /\ << x, y, z >>[3] \in S
    OBVIOUS
  <2> QED
    BY <2>1
<1> DEFINE more == Append(lines, x)
           yet == Append(more, y)
<1>2. more \in Seq(S) /\ yet \in Seq(S)
  BY <1>1
<1>3. lines \o << x, y, z >> = Append(yet, z)
  BY <1>1, ThreeMore
<1>4. ParseState(more) = ColonLine(ParseState(lines), x)
  BY <1>1, ParseOneMore
<1> HIDE DEF more
<1>5. ParseState(yet) = ColonLine(ParseState(more), y)
  BY <1>1, <1>2, ParseOneMore
<1> HIDE DEF yet
<1>6. ParseState(Append(yet, z)) = ColonLine(ParseState(yet), z)
  BY <1>1, <1>2, ParseOneMore
<1> QED
  BY <1>3, <1>4, <1>5, <1>6

\* A line "pub" closes one key and opens the next.
LEMMA PubLine ==
    ASSUME NEW s, NEW x, x.type = "pub"
    PROVE  LET next == ColonLine(s, x) IN
           /\ next.keys = Flush(s).keys /\ next.open = TRUE /\ next.fpr = ""
           /\ next.validity = x.validity /\ next.trust = x.trust /\ "fpr" \in DOMAIN next
<1> DEFINE next == ColonLine(s, x)
<1>1. next = [Flush(s) EXCEPT !.open = TRUE, !.validity = x.validity, !.trust = x.trust]
  BY DEF ColonLine
<1>2. PICK ks : Flush(s) = [Start EXCEPT !.keys = ks]
  BY DEF Flush
<1>3. /\ DOMAIN Flush(s) = {"keys", "open", "validity", "trust", "fpr"}
      /\ Flush(s).fpr = ""
  BY <1>2 DEF Start
<1> HIDE DEF next
<1> QED
  BY <1>1, <1>3 DEF next

\* The first line "fpr" after it is the key's, and no other.
LEMMA FprLine ==
    ASSUME NEW s, NEW x, x.type = "fpr", s.open = TRUE, "fpr" \in DOMAIN s
    PROVE  /\ s.fpr # "" => ColonLine(s, x) = s
           /\ s.fpr = "" =>
                 LET next == ColonLine(s, x) IN
                 /\ next.keys = s.keys /\ next.open = TRUE /\ next.fpr = x.fpr
                 /\ next.validity = s.validity /\ next.trust = s.trust /\ "fpr" \in DOMAIN next
<1>1. s.fpr # "" => ColonLine(s, x) = s
  BY DEF ColonLine
<1> DEFINE next == ColonLine(s, x)
<1>2. ASSUME s.fpr = ""
      PROVE  /\ next.keys = s.keys /\ next.open = TRUE /\ next.fpr = x.fpr
             /\ next.validity = s.validity /\ next.trust = s.trust /\ "fpr" \in DOMAIN next
  <2>1. next = [s EXCEPT !.fpr = x.fpr]
    BY <1>2 DEF ColonLine
  <2> HIDE DEF next
  <2> QED
    BY <2>1
<1> QED
  BY <1>1, <1>2

\* What the lines of a key are, and what becomes of them.
KeyTurn(lines, keyring, k, x, y, z) ==
    /\ x.type = "pub" /\ x.validity = keyring[k].validity /\ x.trust = keyring[k].trust
    /\ y.type = "fpr" /\ y.fpr = k
    /\ z.type = "fpr"
    /\ ParseState(lines \o KeyLines(keyring, k))
       = ColonLine(ColonLine(ColonLine(ParseState(lines), x), y), z)

\* They are three.
LEMMA KeyTurns ==
    ASSUME NEW S, NEW lines \in Seq(S), NEW keyring, NEW k, KeyLines(keyring, k) \in Seq(S)
    PROVE  \E x, y, z : KeyTurn(lines, keyring, k, x, y, z)
<1> DEFINE x == [type |-> "pub", validity |-> keyring[k].validity, trust |-> keyring[k].trust]
           y == [type |-> "fpr", fpr |-> k]
           z == [type |-> "fpr", fpr |-> Subkey]
<1>1. x.type = "pub" /\ x.validity = keyring[k].validity /\ x.trust = keyring[k].trust
  OBVIOUS
<1>2. y.type = "fpr" /\ y.fpr = k /\ z.type = "fpr"
  OBVIOUS
<1>3. KeyLines(keyring, k) = << x, y, z >>
  BY DEF KeyLines
<1> HIDE DEF x, y, z
<1>4. << x, y, z >> \in Seq(S)
  BY <1>3
<1>5. ParseState(lines \o << x, y, z >>) = ColonLine(ColonLine(ColonLine(ParseState(lines), x), y), z)
  BY <1>4, ParseThree
<1>6. KeyTurn(lines, keyring, k, x, y, z)
  BY <1>1, <1>2, <1>3, <1>5 DEF KeyTurn
<1> QED
  BY <1>6

\* A key closes the one before it and opens itself; the fingerprint of its subkey is passed over.
LEMMA ParseKey ==
    ASSUME NEW S, NEW lines \in Seq(S), NEW keyring, NEW k, HasName(k), KeyLines(keyring, k) \in Seq(S)
    PROVE  Flush(ParseState(lines \o KeyLines(keyring, k))).keys
           = IF keyring[k].validity \notin {"r", "e", "i"}
             THEN Append(Flush(ParseState(lines)).keys, [fingerprint |-> k, trust |-> keyring[k].trust])
             ELSE Flush(ParseState(lines)).keys
<1>1. PICK x, y, z : KeyTurn(lines, keyring, k, x, y, z)
  BY KeyTurns
<1> DEFINE s == ParseState(lines)
           a == ColonLine(s, x)
           b == ColonLine(a, y)
           all == lines \o KeyLines(keyring, k)
<1>2. /\ x.type = "pub" /\ x.validity = keyring[k].validity /\ x.trust = keyring[k].trust
      /\ y.type = "fpr" /\ y.fpr = k
      /\ z.type = "fpr"
      /\ ParseState(all) = ColonLine(b, z)
  BY <1>1 DEF KeyTurn
<1> HIDE DEF s, all
<1>3. /\ a.keys = Flush(s).keys /\ a.open = TRUE /\ a.fpr = ""
      /\ a.validity = x.validity /\ a.trust = x.trust /\ "fpr" \in DOMAIN a
  BY <1>2, PubLine
<1> HIDE DEF a
<1>4. /\ b.keys = Flush(s).keys /\ b.open = TRUE /\ b.fpr = k
      /\ b.validity = x.validity /\ b.trust = x.trust /\ "fpr" \in DOMAIN b
  <2>1. /\ b.keys = a.keys /\ b.open = TRUE /\ b.fpr = y.fpr
        /\ b.validity = a.validity /\ b.trust = a.trust /\ "fpr" \in DOMAIN b
    BY <1>2, <1>3, FprLine
  <2> QED
    BY <1>2, <1>3, <2>1
<1> HIDE DEF b
<1>5. ColonLine(b, z) = b
  <2>1. b.fpr # ""
    BY <1>4 DEF HasName
  <2> QED
    BY <1>2, <1>4, <2>1, FprLine
<1>6. Flush(b).keys = IF b.open /\ b.validity \notin {"r", "e", "i"} /\ b.fpr # ""
                      THEN Append(b.keys, [fingerprint |-> b.fpr, trust |-> b.trust]) ELSE b.keys
  BY DEF Flush, Start
<1>7. Flush(b).keys = IF keyring[k].validity \notin {"r", "e", "i"}
                      THEN Append(Flush(s).keys, [fingerprint |-> k, trust |-> keyring[k].trust])
                      ELSE Flush(s).keys
  BY <1>2, <1>4, <1>6 DEF HasName
<1>8. ParseState(all) = b
  BY <1>2, <1>5
<1> QED
  BY <1>7, <1>8 DEF s, all


\* What list_keys should answer after n keys: those of them that are usable, with their trust.
UsableAt(keyring, i) == KeyOrder[i] \in DOMAIN keyring /\ keyring[KeyOrder[i]].validity \notin {"r", "e", "i"}
AnswerFor(keyring, i) == [fingerprint |-> KeyOrder[i], trust |-> keyring[KeyOrder[i]].trust]
Usable(keyring, n) == {AnswerFor(keyring, i) : i \in {j \in 1..n : UsableAt(keyring, j)}}

Lists(keys, keyring, n) == keys \in Seq(Usable(keyring, n)) /\ Usable(keyring, n) \subseteq Range(keys)

\* A key more.
LEMMA ListsTurn ==
    ASSUME NEW keyring, NEW n \in 1..Len(KeyOrder), NEW keys, Lists(keys, keyring, n - 1)
    PROVE  IF UsableAt(keyring, n)
           THEN Lists(Append(keys, AnswerFor(keyring, n)), keyring, n)
           ELSE Lists(keys, keyring, n)
<1> DEFINE few == Usable(keyring, n - 1)
           more == Usable(keyring, n)
           x == AnswerFor(keyring, n)
<1>1. n \in Nat /\ 1..n = (1..(n - 1)) \union {n}
  BY KeyOrderIs
<1>2. keys \in Seq(few) /\ few \subseteq Range(keys)
  BY DEF Lists
<1>3. CASE UsableAt(keyring, n)
  <2>1. more = few \union {x}
    <3>1. {j \in 1..n : UsableAt(keyring, j)} = {j \in 1..(n - 1) : UsableAt(keyring, j)} \union {n}
      BY <1>1, <1>3
    <3> QED
      BY <3>1 DEF Usable
  <2> HIDE DEF few, more, x
  <2>2. keys \in Seq(more) /\ x \in more
    BY <1>2, <2>1
  <2>3. Append(keys, x) \in Seq(more)
    BY <2>2
  <2>4. Range(keys) \union {x} \subseteq Range(Append(keys, x))
    <3>1. DOMAIN Append(keys, x) = 1..(Len(keys) + 1) /\ Len(keys) \in Nat /\ DOMAIN keys = 1..Len(keys)
      BY <2>2
    <3>2. Append(keys, x)[Len(keys) + 1] = x /\ \A i \in DOMAIN keys : Append(keys, x)[i] = keys[i]
      BY <2>2
    <3>3. Len(keys) + 1 \in DOMAIN Append(keys, x) /\ DOMAIN keys \subseteq DOMAIN Append(keys, x)
      BY <3>1
    <3> QED
      BY <3>2, <3>3 DEF Range
  <2>5. more \subseteq Range(Append(keys, x))
    BY <1>2, <2>1, <2>4
  <2> QED
    BY <1>3, <2>3, <2>5 DEF Lists, x, more
<1>4. CASE ~UsableAt(keyring, n)
  <2>1. {j \in 1..n : UsableAt(keyring, j)} = {j \in 1..(n - 1) : UsableAt(keyring, j)}
    BY <1>1, <1>4
  <2>2. more = few
    BY <2>1 DEF Usable
  <2> QED
    BY <1>4, <2>2 DEF Lists
<1> QED
  BY <1>3, <1>4

\* The host lists the usable keys of any keyring and no others, with their trust, whatever
\* subkeys gpg prints between them (keys.go:70).
THEOREM UsableKeysListed ==
    ASSUME NEW keyring
    PROVE  Lists(ParseColons(ListKeysOutput(keyring)), keyring, Len(KeyOrder))
<1>1. PICK after : IsKeyListing(keyring, after)
  BY ListingIsLoop
<1> DEFINE N == Len(KeyOrder)
           P == AllLines(keyring)
           K(n) == Flush(ParseState(after[n])).keys
           U == {n \in 0..N : after[n] \in Seq(P) /\ Lists(K(n), keyring, n)}
<1>2. N \in Nat
  BY KeyOrderIs
<1>3. 0 \in U
  <2>1. after[0] = <<>>
    BY <1>1 DEF IsKeyListing
  <2>2. ParseState(<<>>) = Start
    <3>1. <<>> \in Seq(P) /\ Len(<<>>) = 0
      OBVIOUS
    <3>2. \E turns : IsParse(<<>>, turns)
      BY <3>1, ParseIsLoop
    <3> QED
      BY <3>1, <3>2 DEF IsParse
  <2>3. Flush(Start).keys = <<>>
    BY DEF Flush, Start
  <2>4. Lists(<<>>, keyring, 0)
    <3>1. Usable(keyring, 0) = {}
      BY DEF Usable
    <3> QED
      BY <3>1 DEF Lists
  <2>5. K(0) = <<>> /\ after[0] \in Seq(P)
    BY <2>1, <2>2, <2>3
  <2> HIDE DEF K, P
  <2> QED
    BY <1>2, <2>4, <2>5
<1>4. ASSUME NEW n \in 1..N, n - 1 \in U PROVE n \in U
  <2> DEFINE k == KeyOrder[n]
             was == after[n - 1]
  <2>1. after[n] = ListingTurn(keyring, was, k)
    BY <1>1 DEF IsKeyListing
  <2>2. was \in Seq(P) /\ Lists(K(n - 1), keyring, n - 1)
    BY <1>4
  <2>3. n \in 0..N /\ n \in 1..Len(KeyOrder)
    BY <1>2
  <2>4. KeyLines(keyring, k) \in Seq(P) /\ after[n] \in Seq(P)
    BY <2>1, <2>2, <2>3, ListingTurnType
  <2>5. IF UsableAt(keyring, n)
        THEN Lists(Append(K(n - 1), AnswerFor(keyring, n)), keyring, n)
        ELSE Lists(K(n - 1), keyring, n)
    BY <2>2, <2>3, ListsTurn
  <2>6. K(n) = IF UsableAt(keyring, n) THEN Append(K(n - 1), AnswerFor(keyring, n)) ELSE K(n - 1)
    <3>1. CASE k \in DOMAIN keyring
      <4>1. after[n] = was \o KeyLines(keyring, k)
        BY <2>1, <3>1 DEF ListingTurn
      <4>2. HasName(k)
        BY <2>3, KeyOrderIs
      <4>3. Flush(ParseState(was \o KeyLines(keyring, k))).keys
            = IF keyring[k].validity \notin {"r", "e", "i"}
              THEN Append(Flush(ParseState(was)).keys, [fingerprint |-> k, trust |-> keyring[k].trust])
              ELSE Flush(ParseState(was)).keys
        BY <2>2, <2>4, <4>2, ParseKey
      <4> QED
        BY <3>1, <4>1, <4>3 DEF UsableAt, AnswerFor
    <3>2. CASE k \notin DOMAIN keyring
      BY <2>1, <3>2 DEF ListingTurn, UsableAt
    <3> QED
      BY <3>1, <3>2
  <2>7. Lists(K(n), keyring, n)
    BY <2>5, <2>6
  <2> QED
    BY <2>3, <2>4, <2>7
<1>5. 0..N \subseteq U
  <2> HIDE DEF U, N
  <2> QED
    BY <1>2, <1>3, <1>4, TurnByTurn
<1>6. Lists(K(N), keyring, N)
  BY <1>2, <1>5
<1> QED
  BY <1>1, <1>6 DEF IsKeyListing, ParseColons, ParseState

\* As a set, what the host lists is what the keyring has.
LEMMA ListedIs ==
    ASSUME NEW keyring, DOMAIN keyring \subseteq ToSet(KeyOrder)
    PROVE  /\ ParseColons(ListKeysOutput(keyring)) \in Seq(Usable(keyring, Len(KeyOrder)))
           /\ ToSet(ParseColons(ListKeysOutput(keyring)))
              = {[fingerprint |-> k, trust |-> keyring[k].trust] :
                    k \in {q \in DOMAIN keyring : keyring[q].validity \notin {"r", "e", "i"}}}
<1> DEFINE keys == ParseColons(ListKeysOutput(keyring))
           all == Usable(keyring, Len(KeyOrder))
           A(k) == [fingerprint |-> k, trust |-> keyring[k].trust]
           Good == {q \in DOMAIN keyring : keyring[q].validity \notin {"r", "e", "i"}}
<1>1. keys \in Seq(all) /\ all \subseteq Range(keys)
  BY UsableKeysListed DEF Lists
<1>2. ToSet(keys) = all
  <2> HIDE DEF keys, all
  <2>1. Range(keys) = ToSet(keys)
    BY <1>1 DEF Range, ToSet
  <2>2. Range(keys) \subseteq all
    BY <1>1 DEF Range
  <2> QED
    BY <1>1, <2>1, <2>2
<1>3. ASSUME NEW k \in Good PROVE A(k) \in all
  <2>1. PICK i \in 1..Len(KeyOrder) : KeyOrder[i] = k
    BY KeyOrderIs DEF ToSet
  <2>2. UsableAt(keyring, i)
    BY <1>3, <2>1 DEF UsableAt
  <2>3. AnswerFor(keyring, i) = A(k)
    BY <2>1 DEF AnswerFor
  <2> HIDE DEF A
  <2> QED
    BY <2>1, <2>2, <2>3 DEF Usable
<1>4. ASSUME NEW x \in all PROVE \E k \in Good : x = A(k)
  <2>1. PICK i \in 1..Len(KeyOrder) : UsableAt(keyring, i) /\ x = AnswerFor(keyring, i)
    BY DEF Usable
  <2>2. KeyOrder[i] \in Good
    BY <2>1 DEF UsableAt
  <2>3. x = A(KeyOrder[i])
    BY <2>1 DEF AnswerFor
  <2> QED
    BY <2>2, <2>3
<1>5. all = {A(k) : k \in Good}
  <2> HIDE DEF all, A, Good
  <2> QED
    BY <1>3, <1>4
<1> QED
  BY <1>1, <1>2, <1>5

\* The keys that are trusted and can be used, by the keyring itself; none if the host cannot list them.
TrustedKeys(keyring, env) ==
    {k \in DOMAIN keyring : /\ << "list_keys" >> \notin env.failed
                            /\ keyring[k].validity \notin {"r", "e", "i"} /\ keyring[k].trust \in {"f", "u"}}

(* Whatever keys there are, in whatever order gpg lists them and however many have been revoked *)
(* or have expired: the keys whose entries are kept are exactly those that are trusted and can   *)
(* be used (keys.go:60-104, service-worker.js:122-129), or none if the list cannot be had.         *)
THEOREM TrustedAreUsable ==
    ASSUME NEW keyring, DOMAIN keyring \subseteq ToSet(KeyOrder), NEW env
    PROVE  TrustedFingerprints(keyring, env) = TrustedKeys(keyring, env)
<1> DEFINE A(k) == [fingerprint |-> k, trust |-> keyring[k].trust]
           Good == {q \in DOMAIN keyring : keyring[q].validity \notin {"r", "e", "i"}}
           listed == ParseColons(ListKeysOutput(keyring))
           keys == ListKeys(keyring, env, "list_keys")
           fails == << "list_keys" >> \in env.failed
           found == TrustedFingerprints(keyring, env)
           trusted == TrustedKeys(keyring, env)
<1>1. ToSet(listed) = {A(k) : k \in Good}
  BY ListedIs
<1>2. \A k : A(k).fingerprint = k /\ A(k).trust = keyring[k].trust
  OBVIOUS
<1>3. \A k : k \in trusted <=> ~fails /\ k \in Good /\ keyring[k].trust \in {"f", "u"}
  BY DEF TrustedKeys
<1>4. found = {k.fingerprint : k \in {x \in ToSet(keys) : x.trust \in {"f", "u"}}}
  BY DEF TrustedFingerprints
<1>5. (fails => keys = <<>>) /\ (~fails => keys = listed)
  BY DEF ListKeys
<1> HIDE DEF keys, listed, Good, A, found, trusted, fails
<1>6. CASE fails
  <2>1. ToSet(keys) = {}
    BY <1>5, <1>6 DEF ToSet
  <2> QED
    BY <1>3, <1>4, <1>6, <2>1 DEF found, trusted
<1>7. CASE ~fails
  <2>1. ASSUME NEW k \in Good, keyring[k].trust \in {"f", "u"} PROVE k \in found
    <3>1. A(k) \in {x \in ToSet(keys) : x.trust \in {"f", "u"}}
      BY <1>1, <1>2, <1>5, <1>7, <2>1
    <3> QED
      BY <1>2, <1>4, <3>1
  <2>2. ASSUME NEW f \in found PROVE f \in Good /\ keyring[f].trust \in {"f", "u"}
    <3>1. PICK x \in ToSet(keys) : x.trust \in {"f", "u"} /\ f = x.fingerprint
      BY <1>4
    <3>2. PICK k \in Good : x = A(k)
      BY <1>1, <1>5, <1>7, <3>1
    <3> QED
      BY <1>2, <3>1, <3>2
  <2> QED
    BY <1>3, <1>7, <2>1, <2>2 DEF found, trusted
<1> QED
  BY <1>6, <1>7

-----------------------------------------------------------------------------
\* What parseStatusFD knows after some lines.
FprsOf(lines) == {""} \union {lines[n].fpr : n \in 1..Len(lines)}
StatusStates(V) ==
    [valid : BOOLEAN, fingerprint : V, keyRevoked : BOOLEAN, keyExpired : BOOLEAN, keyMissing : BOOLEAN]

\* Before the first line it knows nothing.
LEMMA UnverifiedType == ASSUME NEW lines PROVE Unverified \in StatusStates(FprsOf(lines))
<1> DEFINE V == FprsOf(lines)
<1>1. "" \in V
  BY DEF FprsOf
<1> HIDE DEF V
<1>2. Unverified \in StatusStates(V)
  BY <1>1 DEF Unverified, StatusStates
<1> QED
  BY <1>2 DEF V

\* A line leaves it in its type.
LEMMA StatusLineType ==
    ASSUME NEW lines, NEW n \in 1..Len(lines), NEW r \in StatusStates(FprsOf(lines))
    PROVE  StatusLine(r, lines[n]) \in StatusStates(FprsOf(lines))
<1> DEFINE V == FprsOf(lines)
<1>1. lines[n].fpr \in V
  BY DEF FprsOf
<1> HIDE DEF V
<1>2. r \in StatusStates(V)
  BY DEF V
<1>3. StatusLine(r, lines[n]) \in StatusStates(V)
  BY <1>1, <1>2 DEF StatusLine, StatusStates
<1> QED
  BY <1>3 DEF V

IsStatus(lines, after) ==
    /\ after[0] = Unverified
    /\ \A n \in 1..Len(lines) : after[n] = StatusLine(after[n - 1], lines[n])
    /\ after[Len(lines)] = ParseStatusFd(lines)

\* It is such a loop.
LEMMA StatusIsLoop ==
    ASSUME NEW S, NEW lines \in Seq(S)
    PROVE  \E after : IsStatus(lines, after)
<1> DEFINE N == Len(lines)
           A == StatusStates(FprsOf(lines))
           step == [an \in A \X (1..N) |-> StatusLine(an[1], lines[an[2]])]
           Is(f) == f = [s \in SUBSET DOMAIN lines |->
                           IF s = {} THEN Unverified
                           ELSE StatusLine(f[s \ {Max(s)}], lines[Max(s)])]
<1>1. N \in Nat /\ DOMAIN lines = 1..N /\ Unverified \in A
  BY UnverifiedType
<1>2. step \in [A \X (1..N) -> A]
  <2>1. \A a \in A, n \in 1..N : StatusLine(a, lines[n]) \in A
    BY <1>1, StatusLineType
  <2> HIDE DEF A
  <2> QED
    BY <2>1
<1>3. \A a \in A, n \in 1..N : step[<<a, n>>] = StatusLine(a, lines[n])
  OBVIOUS
<1>4. \E f : Is(f)
  <2>1. PICK f \in [SUBSET (1..N) -> A] : FoldsUpTo(f, N, Unverified, step)
    <3> HIDE DEF step, A, N
    <3>1. Foldable(N, A, Unverified, step)
      BY <1>1, <1>2, FoldExists
    <3> QED
      BY <3>1 DEF Foldable
  <2> HIDE DEF step, A
  <2>2. ASSUME NEW s \in SUBSET (1..N), s # {}
        PROVE  f[s] = StatusLine(f[s \ {Max(s)}], lines[Max(s)])
    <3>1. Max(s) \in 1..N /\ f[s \ {Max(s)}] \in A
      BY <1>1, <2>2, HasLast
    <3> QED
      BY <1>3, <2>1, <2>2, <3>1 DEF FoldsUpTo
  <2>3. f[{}] = Unverified
    BY <2>1 DEF FoldsUpTo
  <2>4. f = [s \in SUBSET (1..N) |-> f[s]]
    OBVIOUS
  <2>5. [s \in SUBSET (1..N) |-> f[s]]
        = [s \in SUBSET (1..N) |-> IF s = {} THEN Unverified
                                   ELSE StatusLine(f[s \ {Max(s)}], lines[Max(s)])]
    BY <2>2, <2>3
  <2> QED
    BY <1>1, <2>4, <2>5
<1> DEFINE f == CHOOSE f : Is(f)
<1>5. ParseStatusFd(lines) = f[1..N]
  BY <1>1 DEF ParseStatusFd, FoldLeft, MapThenFoldSet
<1>6. Is(f)
  BY <1>4
<1>7. \A s \in SUBSET (1..N) :
          f[s] = IF s = {} THEN Unverified ELSE StatusLine(f[s \ {Max(s)}], lines[Max(s)])
  <2> HIDE DEF f
  <2> QED
    BY <1>1, <1>6
<1> HIDE DEF f, Is
<1> DEFINE after == [n \in 0..N |-> f[1..n]]
<1>8. after[0] = Unverified /\ after[N] = f[1..N]
  <2>1. 1..0 = {} /\ {} \in SUBSET (1..N) /\ 0 \in 0..N /\ N \in 0..N
    BY <1>1
  <2>2. after[0] = f[1..0] /\ after[N] = f[1..N]
    BY <2>1
  <2>3. f[{}] = Unverified
    BY <1>7, <2>1
  <2> QED
    BY <2>1, <2>2, <2>3
<1>9. ASSUME NEW n \in 1..N
      PROVE  after[n] = StatusLine(after[n - 1], lines[n])
  <2>1. 1..n \in SUBSET (1..N) /\ n \in 1..n /\ n \in Nat \ {0} /\ n - 1 \in 0..N /\ n \in 0..N
    BY <1>1
  <2>2. Max(1..n) = n /\ (1..n) \ {n} = 1..(n - 1)
    BY <2>1, LastOfPrefix
  <2>3. after[n] = f[1..n] /\ after[n - 1] = f[1..(n - 1)]
    BY <2>1
  <2>4. 1..n # {}
    BY <2>1
  <2>5. f[1..n] = StatusLine(f[(1..n) \ {Max(1..n)}], lines[Max(1..n)])
    BY <1>7, <2>1, <2>4
  <2> QED
    BY <2>2, <2>3, <2>5
<1> HIDE DEF after
<1> QED
  BY <1>5, <1>8, <1>9 DEF IsStatus

\* What is made of one line, and of two.
LEMMA StatusOfOne == ASSUME NEW x PROVE ParseStatusFd(<< x >>) = StatusLine(Unverified, x)
<1> DEFINE lines == << x >>
<1>1. lines \in Seq({x}) /\ Len(lines) = 1 /\ lines[1] = x
  OBVIOUS
<1> HIDE DEF lines
<1>2. PICK after : IsStatus(lines, after)
  BY <1>1, StatusIsLoop
<1>3. after[1] = StatusLine(after[0], lines[1]) /\ after[0] = Unverified /\ after[1] = ParseStatusFd(lines)
  BY <1>1, <1>2 DEF IsStatus
<1> QED
  BY <1>1, <1>3 DEF lines

\* Two lines are two turns.
LEMMA StatusOfTwo ==
    ASSUME NEW x, NEW y PROVE ParseStatusFd(<< x, y >>) = StatusLine(StatusLine(Unverified, x), y)
<1> DEFINE lines == << x, y >>
<1>1. lines \in Seq({x, y}) /\ Len(lines) = 2 /\ lines[1] = x /\ lines[2] = y
  OBVIOUS
<1> HIDE DEF lines
<1>2. PICK after : IsStatus(lines, after)
  BY <1>1, StatusIsLoop
<1>3. after[1] = StatusLine(after[0], lines[1]) /\ after[0] = Unverified /\ after[2] = ParseStatusFd(lines)
  BY <1>1, <1>2 DEF IsStatus
<1>4. after[2] = StatusLine(after[1], lines[2])
  BY <1>1, <1>2 DEF IsStatus
<1> QED
  BY <1>1, <1>3, <1>4 DEF lines


-----------------------------------------------------------------------------
\* The earliest date so far.
CertTurn(earliest, x, by) ==
    IF x.type = "rev" /\ x.by = by /\ (earliest = Never \/ x.at < earliest) THEN x.at ELSE earliest

IsCert(records, by, after) ==
    /\ after[0] = Never
    /\ \A n \in 1..Len(records) : after[n] = CertTurn(after[n - 1], records[n], by)
    /\ after[Len(records)] = GetCertRevocationDate(Printed(records), by)

\* It is such a loop.
LEMMA CertIsLoop ==
    ASSUME NEW S, NEW records \in Seq(S), NEW by
    PROVE  \E after : IsCert(records, by, after)
<1> DEFINE N == Len(records)
           A == {Never} \union {records[n].at : n \in 1..Len(records)}
           step == [an \in A \X (1..N) |-> CertTurn(an[1], records[an[2]], by)]
           Is(f) == f = [s \in SUBSET DOMAIN records |->
                           IF s = {} THEN Never
                           ELSE CertTurn(f[s \ {Max(s)}], records[Max(s)], by)]
<1>1. N \in Nat /\ DOMAIN records = 1..N /\ Never \in A
  OBVIOUS
<1>2. step \in [A \X (1..N) -> A]
  <2>1. \A a \in A, n \in 1..N : CertTurn(a, records[n], by) \in A
    BY DEF CertTurn
  <2> HIDE DEF A
  <2> QED
    BY <2>1
<1>3. \A a \in A, n \in 1..N : step[<<a, n>>] = CertTurn(a, records[n], by)
  OBVIOUS
<1>4. \E f : Is(f)
  <2>1. PICK f \in [SUBSET (1..N) -> A] : FoldsUpTo(f, N, Never, step)
    <3> HIDE DEF step, A, N
    <3>1. Foldable(N, A, Never, step)
      BY <1>1, <1>2, FoldExists
    <3> QED
      BY <3>1 DEF Foldable
  <2> HIDE DEF step, A
  <2>2. ASSUME NEW s \in SUBSET (1..N), s # {}
        PROVE  f[s] = CertTurn(f[s \ {Max(s)}], records[Max(s)], by)
    <3>1. Max(s) \in 1..N /\ f[s \ {Max(s)}] \in A
      BY <1>1, <2>2, HasLast
    <3> QED
      BY <1>3, <2>1, <2>2, <3>1 DEF FoldsUpTo
  <2>3. f[{}] = Never
    BY <2>1 DEF FoldsUpTo
  <2>4. f = [s \in SUBSET (1..N) |-> f[s]]
    OBVIOUS
  <2>5. [s \in SUBSET (1..N) |-> f[s]]
        = [s \in SUBSET (1..N) |-> IF s = {} THEN Never
                                   ELSE CertTurn(f[s \ {Max(s)}], records[Max(s)], by)]
    BY <2>2, <2>3
  <2> QED
    BY <1>1, <2>4, <2>5
<1> DEFINE f == CHOOSE f : Is(f)
<1>5. GetCertRevocationDate(Printed(records), by) = f[1..N]
  BY <1>1 DEF GetCertRevocationDate, Printed, CertTurn, FoldLeft, MapThenFoldSet
<1>6. Is(f)
  BY <1>4
<1>7. \A s \in SUBSET (1..N) :
          f[s] = IF s = {} THEN Never ELSE CertTurn(f[s \ {Max(s)}], records[Max(s)], by)
  <2> HIDE DEF f
  <2> QED
    BY <1>1, <1>6
<1> HIDE DEF f, Is
<1> DEFINE after == [n \in 0..N |-> f[1..n]]
<1>8. after[0] = Never /\ after[N] = f[1..N]
  <2>1. 1..0 = {} /\ {} \in SUBSET (1..N) /\ 0 \in 0..N /\ N \in 0..N
    BY <1>1
  <2>2. after[0] = f[1..0] /\ after[N] = f[1..N]
    BY <2>1
  <2>3. f[{}] = Never
    BY <1>7, <2>1
  <2> QED
    BY <2>1, <2>2, <2>3
<1>9. ASSUME NEW n \in 1..N
      PROVE  after[n] = CertTurn(after[n - 1], records[n], by)
  <2>1. 1..n \in SUBSET (1..N) /\ n \in 1..n /\ n \in Nat \ {0} /\ n - 1 \in 0..N /\ n \in 0..N
    BY <1>1
  <2>2. Max(1..n) = n /\ (1..n) \ {n} = 1..(n - 1)
    BY <2>1, LastOfPrefix
  <2>3. after[n] = f[1..n] /\ after[n - 1] = f[1..(n - 1)]
    BY <2>1
  <2>4. 1..n # {}
    BY <2>1
  <2>5. f[1..n] = CertTurn(f[(1..n) \ {Max(1..n)}], records[Max(1..n)], by)
    BY <1>7, <2>1, <2>4
  <2> QED
    BY <2>2, <2>3, <2>5
<1> HIDE DEF after
<1> QED
  BY <1>5, <1>8, <1>9 DEF IsCert

\* by has made the revocation x.
RevokedBy(x, by) == x.type = "rev" /\ x.by = by

\* Of the first n records, d is the earliest date of a revocation by has made; Never if there is none.
RevokedAt(records, by, n, d) ==
    /\ \A i \in 1..n : RevokedBy(records[i], by) => d # Never /\ d <= records[i].at
    /\ d # Never => \E i \in 1..n : RevokedBy(records[i], by) /\ records[i].at = d

\* Someone has revoked a certification at the date of the earliest revocation.
LEMMA CertDateIs ==
    ASSUME NEW S, NEW records \in Seq(S), \A x \in S : x.type = "rev" => x.at \in Nat, NEW by
    PROVE  RevokedAt(records, by, Len(records), GetCertRevocationDate(Printed(records), by))
<1>1. PICK after : IsCert(records, by, after)
  BY CertIsLoop
<1>2. /\ Len(records) \in Nat
      /\ \A n \in 1..Len(records) : RevokedBy(records[n], by) => records[n].at \in Nat
  BY DEF RevokedBy
<1> DEFINE U == {n \in 0..Len(records) : RevokedAt(records, by, n, after[n])}
<1>3. 0 \in U
  <2>1. after[0] = Never /\ 1..0 = {}
    BY <1>1 DEF IsCert
  <2>2. RevokedAt(records, by, 0, Never)
    BY <2>1 DEF RevokedAt
  <2> QED
    BY <1>2, <2>1, <2>2
<1>4. ASSUME NEW n \in 1..Len(records), n - 1 \in U PROVE n \in U
  <2> DEFINE was == after[n - 1]
             x == records[n]
             replaces == RevokedBy(x, by) /\ (was = Never \/ x.at < was)
  <2>1. RevokedAt(records, by, n - 1, was)
    BY <1>4
  <2>2. after[n] = CertTurn(was, x, by)
    BY <1>1 DEF IsCert
  <2>3. n \in 0..Len(records) /\ n \in Nat /\ n \in 1..n /\ \A i \in 1..n : i = n \/ i \in 1..(n - 1)
    BY <1>2
  <2>4. RevokedBy(x, by) => x.at \in Nat /\ x.at # Never
    BY <1>2 DEF Never
  <2>5. \A i \in 1..(n - 1) : i \in 1..n /\ (RevokedBy(records[i], by) => records[i].at \in Nat)
    BY <1>2, <2>3
  <2>6. was # Never => was \in Nat
    BY <2>1, <2>5 DEF RevokedAt
  <2>7. RevokedAt(records, by, n, after[n])
    <3>1. CASE replaces
      <4>1. after[n] = x.at
        BY <2>2, <3>1 DEF CertTurn, RevokedBy
      <4>2. ASSUME NEW i \in 1..n, RevokedBy(records[i], by) PROVE x.at <= records[i].at
        <5>1. CASE i = n
          BY <2>4, <3>1, <5>1
        <5>2. CASE i \in 1..(n - 1)
          <6>1. was # Never /\ was <= records[i].at
            BY <2>1, <4>2, <5>2 DEF RevokedAt
          <6> QED
            BY <2>4, <2>5, <2>6, <3>1, <4>2, <5>2, <6>1
        <5> QED
          BY <2>3, <5>1, <5>2
      <4> QED
        BY <2>3, <2>4, <3>1, <4>1, <4>2 DEF RevokedAt
    <3>2. CASE ~replaces
      <4>1. after[n] = was
        BY <2>2, <3>2 DEF CertTurn, RevokedBy
      <4>2. ASSUME NEW i \in 1..n, RevokedBy(records[i], by) PROVE was # Never /\ was <= records[i].at
        <5>1. CASE i = n
          BY <2>4, <2>6, <3>2, <4>2, <5>1
        <5>2. CASE i \in 1..(n - 1)
          BY <2>1, <4>2, <5>2 DEF RevokedAt
        <5> QED
          BY <2>3, <5>1, <5>2
      <4>3. was # Never => \E i \in 1..n : RevokedBy(records[i], by) /\ records[i].at = was
        BY <2>1, <2>5 DEF RevokedAt
      <4> QED
        BY <4>1, <4>2, <4>3 DEF RevokedAt
    <3> QED
      BY <3>1, <3>2
  <2> QED
    BY <2>3, <2>7
<1>5. 0..Len(records) \subseteq U
  <2> HIDE DEF U
  <2> QED
    BY <1>2, <1>3, <1>4, TurnByTurn
<1>6. RevokedAt(records, by, Len(records), after[Len(records)])
  BY <1>2, <1>5
<1> QED
  BY <1>1, <1>6 DEF IsCert

\* The key itself has made the revocation x.
OwnRevocation(x) == x.type = "rev" /\ x.class = "20x"

\* A key has been revoked at the date of the first such revocation that gpg prints.
LEMMA KeyDateIs ==
    ASSUME NEW S, NEW records \in Seq(S)
    PROVE  IF \E i \in 1..Len(records) : OwnRevocation(records[i])
           THEN \E i \in 1..Len(records) :
                   /\ OwnRevocation(records[i]) /\ GetKeyRevocationDate(Printed(records)) = records[i].at
                   /\ \A j \in 1..Len(records) : OwnRevocation(records[j]) => i <= j
           ELSE GetKeyRevocationDate(Printed(records)) = Never
<1> DEFINE I == {i \in 1..Len(records) : records[i].type = "rev" /\ records[i].class = "20x"}
           at == IF I # {} THEN Min(I) ELSE 0
<1>1. GetKeyRevocationDate(Printed(records)) = IF at = 0 THEN Never ELSE records[at].at
  BY DEF GetKeyRevocationDate, Printed, SelectInSeq
<1>2. I \subseteq 1..Len(records) /\ I \subseteq Nat
  OBVIOUS
<1>3. \A i \in 1..Len(records) : i \in I <=> OwnRevocation(records[i])
  BY DEF OwnRevocation
<1> HIDE DEF I
<1>4. I # {} => \E n \in I : \A m \in I : n <= m
  BY <1>2, NatMin
<1>5. I # {} => at \in I /\ \A m \in I : at <= m
  BY <1>4 DEF Min
<1>6. I = {} => at = 0
  OBVIOUS
<1> HIDE DEF at
<1>7. \A i \in I : i # 0
  BY <1>2
<1>8. CASE I = {}
  BY <1>1, <1>3, <1>6, <1>8
<1>9. CASE I # {}
  <2>1. /\ at \in 1..Len(records) /\ OwnRevocation(records[at])
        /\ GetKeyRevocationDate(Printed(records)) = records[at].at
        /\ \A j \in 1..Len(records) : OwnRevocation(records[j]) => at <= j
    BY <1>1, <1>2, <1>3, <1>5, <1>7, <1>9
  <2> QED
    BY <2>1
<1> QED
  BY <1>8, <1>9

-----------------------------------------------------------------------------
\* What the host makes of gpg's answer to a signature: gpg must run, the key that has made it be
\* there, and the signature fit.
LEMMA StatusIs ==
    ASSUME NEW keyring, NEW k, NEW fails \in BOOLEAN
    PROVE  LET out == VerifyOutput(keyring, k, fails)
               vr == ParseStatusFd(out.lines)
           IN  IF k \in DOMAIN keyring /\ k # Nobody /\ ~fails
               THEN /\ out.ok = TRUE /\ vr.valid = TRUE /\ vr.fingerprint = Subkey
                    /\ vr.keyRevoked = TRUE <=> keyring[k].validity = "r"
               ELSE out.ok = FALSE \/ vr.valid = FALSE
<1> DEFINE out == VerifyOutput(keyring, k, fails)
           vr == ParseStatusFd(out.lines)
<1>1. Unverified.valid = FALSE /\ Unverified.keyRevoked = FALSE
      /\ DOMAIN Unverified = {"valid", "fingerprint", "keyRevoked", "keyExpired", "keyMissing"}
  BY DEF Unverified
<1>0. CASE fails
  BY <1>0 DEF VerifyOutput, Failure
<1>2. CASE ~fails /\ k # Nobody /\ k \notin DOMAIN keyring
  <2> DEFINE x == [word |-> "ERRSIG", reason |-> 9]
             y == [word |-> "NO_PUBKEY"]
             r == StatusLine(Unverified, x)
  <2>1. out.lines = << x, y >>
    BY <1>2 DEF VerifyOutput, Printed
  <2>2. x.word = "ERRSIG" /\ y.word = "NO_PUBKEY"
    OBVIOUS
  <2> HIDE DEF out, x, y
  <2>3. vr = StatusLine(r, y)
    BY <2>1, StatusOfTwo
  <2> HIDE DEF vr
  <2>4. r.valid = FALSE /\ DOMAIN r = DOMAIN Unverified
    BY <1>1, <2>2 DEF StatusLine
  <2> HIDE DEF r
  <2>5. vr.valid = FALSE
    BY <1>1, <2>2, <2>3, <2>4 DEF StatusLine
  <2> QED
    BY <1>2, <2>5 DEF vr, out
<1>3. CASE ~fails /\ k = Nobody
  <2> DEFINE x == [word |-> "BADSIG"]
  <2>1. out.lines = << x >>
    BY <1>3 DEF VerifyOutput, Printed
  <2>2. x.word = "BADSIG"
    OBVIOUS
  <2> HIDE DEF out, x
  <2>3. vr = StatusLine(Unverified, x)
    BY <2>1, StatusOfOne
  <2> HIDE DEF vr
  <2>4. vr.valid = FALSE
    BY <1>1, <2>2, <2>3 DEF StatusLine
  <2> QED
    BY <1>3, <2>4 DEF vr, out
<1>4. CASE ~fails /\ k # Nobody /\ k \in DOMAIN keyring
  <2> DEFINE w == CASE keyring[k].validity = "r" -> "REVKEYSIG"
                    [] keyring[k].validity = "e" -> "EXPKEYSIG"
                    [] OTHER -> "GOODSIG"
             x == [word |-> w]
             y == [word |-> "VALIDSIG", fpr |-> Subkey]
             r == StatusLine(Unverified, x)
  <2>1. out.ok = TRUE /\ out.lines = << x, y >>
    BY <1>4 DEF VerifyOutput, Printed
  <2>2. /\ x.word \in {"REVKEYSIG", "EXPKEYSIG", "GOODSIG"}
        /\ x.word = "REVKEYSIG" <=> keyring[k].validity = "r"
        /\ y.word = "VALIDSIG" /\ y.fpr = Subkey
    OBVIOUS
  <2> HIDE DEF out, x, y
  <2>3. vr = StatusLine(r, y)
    BY <2>1, StatusOfTwo
  <2> HIDE DEF vr
  <2>4. /\ r.valid = TRUE /\ (r.keyRevoked = TRUE <=> x.word = "REVKEYSIG")
        /\ DOMAIN r = DOMAIN Unverified
    BY <1>1, <2>2 DEF StatusLine
  <2> HIDE DEF r
  <2>5. vr.valid = TRUE /\ (vr.keyRevoked = TRUE <=> r.keyRevoked = TRUE) /\ vr.fingerprint = Subkey
    BY <1>1, <2>2, <2>3, <2>4 DEF StatusLine
  <2> QED
    BY <1>4, <2>1, <2>2, <2>4, <2>5 DEF vr, out
<1> QED
  BY <1>0, <1>2, <1>3, <1>4

\* The date that counts: the first there is, in the order of the user's keys.
FirstDate(dates) == SelectInSeq(dates, LAMBDA d : d # Never)

\* It is one of them, if there is one.
LEMMA FirstDateIs ==
    ASSUME NEW S, NEW dates \in Seq(S)
    PROVE  /\ \/ FirstDate(dates) = 0
              \/ FirstDate(dates) \in 1..Len(dates) /\ dates[FirstDate(dates)] # Never
           /\ (\E i \in 1..Len(dates) : dates[i] # Never) => FirstDate(dates) # 0
<1> DEFINE I == {i \in 1..Len(dates) : dates[i] # Never}
           at == FirstDate(dates)
<1>1. at = IF I # {} THEN Min(I) ELSE 0
  BY DEF FirstDate, SelectInSeq
<1>2. I \subseteq Nat
  OBVIOUS
<1>3. \A i \in 1..Len(dates) : dates[i] # Never <=> i \in I
  OBVIOUS
<1>4. I \subseteq 1..Len(dates)
  OBVIOUS
<1> HIDE DEF I, at
<1>5. I # {} => \E n \in I : \A m \in I : n <= m
  BY <1>2, NatMin
<1>6. I # {} => at \in I
  BY <1>1, <1>5 DEF Min
<1>7. I = {} => at = 0
  BY <1>1
<1>8. at \in I => at # 0
  BY <1>4
<1>9. at = 0 \/ (at \in 1..Len(dates) /\ dates[at] # Never)
  BY <1>3, <1>4, <1>6, <1>7
<1>10. (\E i \in 1..Len(dates) : dates[i] # Never) => at # 0
  BY <1>3, <1>6, <1>8
<1> QED
  BY <1>9, <1>10 DEF at

\* The user's own keys, those that can be used: who vouches for others.
OwnKeys(keyring) == {k \in DOMAIN keyring : keyring[k].validity \notin {"r", "e", "i"} /\ keyring[k].trust = "u"}

\* Each of keys is one of ids.
AllIn(ids, keys) == \A k \in keys : \E i \in 1..Len(ids) : ids[i] = k

\* They are who the host asks, if the worker could list them.
LEMMA VerifiersAre ==
    ASSUME NEW keyring, DOMAIN keyring \subseteq ToSet(KeyOrder), NEW env
    PROVE  /\ VerifierKeyIDs(keyring, env) \in Seq(OwnKeys(keyring))
           /\ << "list_own" >> \notin env.failed => AllIn(VerifierKeyIDs(keyring, env), OwnKeys(keyring))
<1> DEFINE listed == ParseColons(ListKeysOutput(keyring))
           keys == ListKeys(keyring, env, "list_own")
           fails == << "list_own" >> \in env.failed
           Own == {k \in ToSet(keys) : k.trust = "u"}
           own == Filter(keys, Own)
           all == Usable(keyring, Len(KeyOrder))
           A(k) == [fingerprint |-> k, trust |-> keyring[k].trust]
           Good == {q \in DOMAIN keyring : keyring[q].validity \notin {"r", "e", "i"}}
           ids == VerifierKeyIDs(keyring, env)
<1>1. listed \in Seq(all) /\ ToSet(listed) = {A(k) : k \in Good}
  BY ListedIs
<1>2. ids = [i \in DOMAIN own |-> own[i].fingerprint]
  BY DEF VerifierKeyIDs
<1>3. \A k : A(k).fingerprint = k /\ A(k).trust = keyring[k].trust
  OBVIOUS
<1>4. \A k : k \in OwnKeys(keyring) <=> k \in Good /\ keyring[k].trust = "u"
  BY DEF OwnKeys
<1>5. \A k : k \in Own <=> k \in ToSet(keys) /\ k.trust = "u"
  OBVIOUS
<1>12. (fails => keys = <<>>) /\ (~fails => keys = listed)
  BY DEF ListKeys
<1> HIDE DEF A, Good, Own, keys, listed, all, ids, fails
<1>13. /\ keys \in Seq(all) /\ \A x \in ToSet(keys) : \E k \in Good : x = A(k)
       /\ ~fails => ToSet(keys) = {A(k) : k \in Good}
  <2>1. CASE fails
    <3>1. keys = <<>> /\ keys \in Seq(all) /\ ToSet(keys) = {}
      BY <1>12, <2>1 DEF ToSet
    <3> QED
      BY <2>1, <3>1
  <2>2. CASE ~fails
    BY <1>1, <1>12, <2>2
  <2> QED
    BY <2>1, <2>2
<1>6. ~fails => \A k \in OwnKeys(keyring) : A(k) \in Own /\ A(k) \in ToSet(keys)
  BY <1>3, <1>4, <1>5, <1>13
<1>7. own \in Seq(all) /\ Range(own) = Range(keys) \intersect Own
  BY <1>13, FilterLeaves
<1> HIDE DEF own
<1>8. DOMAIN own = 1..Len(own) /\ Len(own) \in Nat
  BY <1>7
<1>9. ASSUME NEW i \in 1..Len(own) PROVE own[i].fingerprint \in OwnKeys(keyring)
  <2>1. own[i] \in Range(own)
    BY <1>8 DEF Range
  <2>2. own[i] \in Own /\ own[i] \in ToSet(keys) /\ own[i].trust = "u"
    BY <1>5, <1>7, <2>1
  <2>3. PICK k \in Good : own[i] = A(k)
    BY <1>13, <2>2
  <2> QED
    BY <1>3, <1>4, <2>2, <2>3
<1>10. ids \in Seq(OwnKeys(keyring)) /\ Len(ids) = Len(own)
  BY <1>2, <1>8, <1>9
<1>11. ASSUME ~fails, NEW k \in OwnKeys(keyring) PROVE \E i \in 1..Len(ids) : ids[i] = k
  <2>1. A(k) \in Own /\ A(k) \in ToSet(keys)
    BY <1>6, <1>11
  <2>2. Range(keys) = ToSet(keys)
    BY <1>13 DEF Range, ToSet
  <2>3. PICK i \in 1..Len(own) : own[i] = A(k)
    BY <1>7, <1>8, <2>1, <2>2 DEF Range
  <2> QED
    BY <1>2, <1>3, <1>8, <1>10, <2>3
<1>15. ~fails => AllIn(ids, OwnKeys(keyring))
  BY <1>11 DEF AllIn
<1> QED
  BY <1>10, <1>15 DEF ids, fails

\* When which of them have revoked their certification of k, as "verify" learns it.
CertListings(keyring, env, verifiers, k, x, role) ==
    [i \in DOMAIN verifiers |->
        ListSigsOutput(keyring, k, << "cert", x, role, verifiers[i] >> \in env.failed)]
CertDates(keyring, env, verifiers, k, x, role) ==
    CertRevocationDates(CertListings(keyring, env, verifiers, k, x, role), verifiers)

\* One date for each; of one for whom gpg fails there is none.
LEMMA DatesAre ==
    ASSUME NEW keyring, NEW env, NEW S, NEW verifiers \in Seq(S), NEW k \in DOMAIN keyring, NEW x, NEW role
    PROVE  LET dates == CertDates(keyring, env, verifiers, k, x, role) IN
           /\ dates \in Seq(Range(dates)) /\ Len(dates) = Len(verifiers)
           /\ \A i \in 1..Len(verifiers) :
                 dates[i] = IF << "cert", x, role, verifiers[i] >> \in env.failed THEN Never
                            ELSE GetCertRevocationDate(Printed(keyring[k].records), verifiers[i])
<1> DEFINE dates == CertDates(keyring, env, verifiers, k, x, role)
           fails(i) == << "cert", x, role, verifiers[i] >> \in env.failed
           printed == Printed(keyring[k].records)
<1>1. DOMAIN verifiers = 1..Len(verifiers) /\ Len(verifiers) \in Nat
  OBVIOUS
<1>2. ASSUME NEW i \in 1..Len(verifiers)
      PROVE  dates[i] = GetCertRevocationDate(ListSigsOutput(keyring, k, fails(i)), verifiers[i])
  BY <1>1 DEF CertDates, CertListings, CertRevocationDates
<1>3. ASSUME NEW i \in 1..Len(verifiers)
      PROVE  dates[i] = IF fails(i) THEN Never ELSE GetCertRevocationDate(printed, verifiers[i])
  <2>1. CASE fails(i)
    <3>1. ListSigsOutput(keyring, k, fails(i)) = Failure /\ Failure.ok = FALSE
      BY <2>1 DEF ListSigsOutput, Failure
    <3>2. \A l : l.ok = FALSE => GetCertRevocationDate(l, verifiers[i]) = Never
      BY DEF GetCertRevocationDate
    <3> QED
      BY <1>2, <2>1, <3>1, <3>2
  <2>2. CASE ~fails(i)
    <3>1. ListSigsOutput(keyring, k, fails(i)) = printed
      BY <2>2 DEF ListSigsOutput
    <3> QED
      BY <1>2, <2>2, <3>1
  <2> QED
    BY <2>1, <2>2
<1>4. DOMAIN dates = 1..Len(verifiers)
  BY <1>1 DEF CertDates, CertRevocationDates
<1> HIDE DEF dates
<1>5. dates = [i \in 1..Len(verifiers) |-> dates[i]]
  <2>1. CertDates(keyring, env, verifiers, k, x, role)
        = [i \in 1..Len(verifiers) |-> CertDates(keyring, env, verifiers, k, x, role)[i]]
    BY <1>1 DEF CertDates, CertRevocationDates
  <2> QED
    BY <2>1 DEF dates
<1>6. dates \in Seq(Range(dates)) /\ Len(dates) = Len(verifiers)
  BY <1>1, <1>4, <1>5 DEF Range
<1> HIDE DEF fails, printed
<1>7. \A i \in 1..Len(verifiers) :
         dates[i] = IF fails(i) THEN Never ELSE GetCertRevocationDate(printed, verifiers[i])
  BY <1>3
<1> QED
  BY <1>6, <1>7 DEF dates, fails, printed

\* The date of the revocation of k by itself, as "verify" learns it.
OwnDate(keyring, env, k, x, role) ==
    GetKeyRevocationDate(ListSigsOutput(keyring, k, << "own", x, role >> \in env.failed))

\* "verify" says yes if all is there, and was before the revocations it looks at.
LEMMA VerifiesIs ==
    ASSUME NEW keyring, NEW env, NEW verifiers, NEW x, NEW role
    PROVE  LET k == env.maker[role][x]
               own == OwnDate(keyring, env, k, x, role)
               dates == CertDates(keyring, env, verifiers, k, x, role)
           IN  Verifies(keyring, env, verifiers, x, role) <=>
                 /\ k \in DOMAIN keyring /\ k # Nobody /\ << "verify", x, role >> \notin env.failed
                 /\ keyring[k].validity = "r" =>
                      x.server_timestamp # Undated /\ own # Never /\ x.server_timestamp < own
                 /\ \/ x.server_timestamp = Undated \/ FirstDate(dates) = 0
                    \/ x.server_timestamp < dates[FirstDate(dates)]
<1> DEFINE k == env.maker[role][x]
           fails == << "verify", x, role >> \in env.failed
           out == VerifyOutput(keyring, k, fails)
           vr == ParseStatusFd(out.lines)
           own == OwnDate(keyring, env, k, x, role)
           dates == CertDates(keyring, env, verifiers, k, x, role)
           ts == x.server_timestamp
<1>1. Verifies(keyring, env, verifiers, x, role)
      <=> /\ out.ok /\ vr.valid
          /\ vr.keyRevoked => ts # Undated /\ own # Never /\ ts < own
          /\ \/ vr.fingerprint = "" \/ ts = Undated \/ FirstDate(dates) = 0
             \/ ts < dates[FirstDate(dates)]
  BY DEF Verifies, IsValid, OwnDate, CertDates, CertListings, FirstDate
<1>2. fails \in BOOLEAN
  OBVIOUS
<1>3. IF k \in DOMAIN keyring /\ k # Nobody /\ ~fails
      THEN /\ out.ok = TRUE /\ vr.valid = TRUE /\ vr.fingerprint = Subkey
           /\ vr.keyRevoked = TRUE <=> keyring[k].validity = "r"
      ELSE out.ok = FALSE \/ vr.valid = FALSE
  BY <1>2, StatusIs
<1>4. Subkey # ""
  BY DEF Subkey
<1> HIDE DEF k, out, vr, own, dates, fails
<1>5. Verifies(keyring, env, verifiers, x, role)
      <=> /\ k \in DOMAIN keyring /\ k # Nobody /\ ~fails
          /\ keyring[k].validity = "r" => ts # Undated /\ own # Never /\ ts < own
          /\ \/ ts = Undated \/ FirstDate(dates) = 0
             \/ ts < dates[FirstDate(dates)]
  BY <1>1, <1>3, <1>4
<1> QED
  BY <1>5 DEF k, own, dates, fails

Revocational(records) ==
    records \in Seq(Range(records)) /\ \A x \in Range(records) : x.type = "rev" => x.at \in Nat

\* A sequence of records is one if its revocations have dates.
LEMMA RecordsOf ==
    ASSUME NEW S, NEW s \in Seq(S), \A x \in S : x.type = "rev" => x.at \in Nat
    PROVE  Revocational(s)
<1>1. Range(s) \subseteq S /\ s \in Seq(Range(s))
  BY DEF Range
<1> QED
  BY <1>1 DEF Revocational

(* A keyring as gpg has one: it lists its keys in its order, revocations have dates, and a    *)
(* key that is revoked has a revocation by itself.  Any number of keys may be revoked, have    *)
(* expired or be trusted by anybody or nobody, and have been revoked and certified by many.     *)
Keyring(keyring) ==
    /\ DOMAIN keyring \subseteq ToSet(KeyOrder)
    /\ \A k \in DOMAIN keyring :
          /\ Revocational(keyring[k].records)
          /\ keyring[k].validity = "r" =>
                \E i \in 1..Len(keyring[k].records) : OwnRevocation(keyring[k].records[i])

(* Whose revocations of a certification the host looks for when it verifies the signature on x  *)
(* in a role: those of the user's keys if the worker could list them and x has a date, except   *)
(* of keys for which gpg fails (main.go:136-138, service-worker.js:301-304).                      *)
Asked(keyring, env, x, role) ==
    {u \in OwnKeys(keyring) : /\ x.server_timestamp # Undated /\ << "list_own" >> \notin env.failed
                              /\ << "cert", x, role, u >> \notin env.failed}

\* x is older than the revocations of k that the host looks at: the first of the key's own if
\* gpg calls the key revoked, and all those of one of who is asked if any of these has made one.
Precedes(x, keyring, k, asked) ==
    LET records == keyring[k].records IN
    /\ keyring[k].validity = "r" =>
          \E i \in 1..Len(records) :
             /\ OwnRevocation(records[i]) /\ x.server_timestamp < records[i].at
             /\ \A j \in 1..Len(records) : OwnRevocation(records[j]) => i <= j
    /\ (\E u \in asked, i \in 1..Len(records) : RevokedBy(records[i], u)) =>
          \E u \in asked :
             /\ \E i \in 1..Len(records) : RevokedBy(records[i], u)
             /\ \A i \in 1..Len(records) : RevokedBy(records[i], u) => x.server_timestamp < records[i].at

\* What is older than all revocations on a key verifies, unless gpg fails.
LEMMA EarlierVerifies ==
    ASSUME NEW keyring, Keyring(keyring), NEW env, NEW x, NEW role,
           env.maker[role][x] \in DOMAIN keyring, x.server_timestamp # Undated,
           << "verify", x, role >> \notin env.failed, << "own", x, role >> \notin env.failed,
           \A i \in 1..Len(keyring[env.maker[role][x]].records) :
              LET r == keyring[env.maker[role][x]].records[i] IN
              r.type = "rev" => x.server_timestamp < r.at
    PROVE  Verifies(keyring, env, VerifierKeyIDs(keyring, env), x, role)
<1> DEFINE k == env.maker[role][x]
           records == keyring[k].records
           verifiers == VerifierKeyIDs(keyring, env)
           own == OwnDate(keyring, env, k, x, role)
           dates == CertDates(keyring, env, verifiers, k, x, role)
           first == FirstDate(dates)
           ts == x.server_timestamp
<1>1. /\ Revocational(records) /\ DOMAIN keyring \subseteq ToSet(KeyOrder)
      /\ keyring[k].validity = "r" => \E i \in 1..Len(records) : OwnRevocation(records[i])
  BY DEF Keyring
<1>2. records \in Seq(Range(records)) /\ \A y \in Range(records) : y.type = "rev" => y.at \in Nat
  BY <1>1 DEF Revocational
<1>3. k \in DOMAIN keyring /\ k # Nobody
  <2>1. ToSet(KeyOrder) = {KeyOrder[n] : n \in 1..Len(KeyOrder)}
    BY KeyOrderIs DEF ToSet
  <2> QED
    BY <1>1, <2>1, KeyOrderIs DEF HasName
<1>4. ASSUME keyring[k].validity = "r" PROVE own # Never /\ ts < own
  <2>1. PICK i \in 1..Len(records) :
           OwnRevocation(records[i]) /\ GetKeyRevocationDate(Printed(records)) = records[i].at
    BY <1>1, <1>2, <1>4, KeyDateIs
  <2>2. records[i].type = "rev" /\ records[i] \in Range(records)
    BY <1>2, <2>1 DEF OwnRevocation, Range
  <2>3. records[i].at \in Nat /\ ts < records[i].at
    BY <1>2, <2>2
  <2>4. own = GetKeyRevocationDate(Printed(records))
    BY <1>3 DEF OwnDate, ListSigsOutput
  <2> QED
    BY <2>1, <2>3, <2>4 DEF Never
<1>5. ASSUME first # 0 PROVE ts < dates[first]
  <2>1. verifiers \in Seq(OwnKeys(keyring))
    BY <1>1, VerifiersAre
  <2> DEFINE v == verifiers[first]
             date == GetCertRevocationDate(Printed(records), v)
             fails == << "cert", x, role, v >> \in env.failed
  <2>2. dates \in Seq(Range(dates)) /\ Len(dates) = Len(verifiers)
    BY <1>3, <2>1, DatesAre
  <2>3. first \in 1..Len(verifiers) /\ dates[first] # Never
    BY <1>5, <2>2, FirstDateIs
  <2>4. dates[first] = IF fails THEN Never ELSE date
    BY <1>3, <2>1, <2>3, DatesAre
  <2>5. dates[first] = date
    BY <2>3, <2>4
  <2>6. RevokedAt(records, v, Len(records), date)
    BY <1>2, CertDateIs
  <2>7. PICK i \in 1..Len(records) : RevokedBy(records[i], v) /\ records[i].at = date
    BY <2>3, <2>5, <2>6 DEF RevokedAt
  <2> QED
    BY <2>5, <2>7 DEF RevokedBy
<1> HIDE DEF k, own, dates, first, verifiers
<1>6. \/ first = 0
      \/ ts < dates[first]
  BY <1>5
<1> QED
  BY <1>3, <1>4, <1>6, VerifiesIs DEF k, own, dates, first, verifiers, records

\* What verifies on a key with revocations precedes them.
LEMMA VerifiedIsEarlier ==
    ASSUME NEW keyring, Keyring(keyring), NEW env, NEW x, x.server_timestamp \in Int, NEW role,
           Verifies(keyring, env, VerifierKeyIDs(keyring, env), x, role)
    PROVE  /\ env.maker[role][x] \in DOMAIN keyring
           /\ Precedes(x, keyring, env.maker[role][x], Asked(keyring, env, x, role))
<1> DEFINE k == env.maker[role][x]
           records == keyring[k].records
           verifiers == VerifierKeyIDs(keyring, env)
           asked == Asked(keyring, env, x, role)
           own == OwnDate(keyring, env, k, x, role)
           dates == CertDates(keyring, env, verifiers, k, x, role)
           first == FirstDate(dates)
           ts == x.server_timestamp
<1>1. /\ k \in DOMAIN keyring
      /\ keyring[k].validity = "r" => own # Never /\ ts < own
      /\ ts = Undated \/ first = 0 \/ ts < dates[first]
  BY VerifiesIs
<1>2. /\ Revocational(records) /\ DOMAIN keyring \subseteq ToSet(KeyOrder)
      /\ keyring[k].validity = "r" => \E i \in 1..Len(records) : OwnRevocation(records[i])
  BY <1>1 DEF Keyring
<1>3. /\ records \in Seq(Range(records))
      /\ \A i \in 1..Len(records) : records[i].type = "rev" => records[i].at \in Nat
  <2>0. Revocational(records)
    BY <1>2
  <2> HIDE DEF records
  <2>1. records \in Seq(Range(records)) /\ \A y \in Range(records) : y.type = "rev" => y.at \in Nat
    BY <2>0 DEF Revocational
  <2>2. \A i \in 1..Len(records) : records[i] \in Range(records)
    BY <2>1 DEF Range
  <2> QED
    BY <2>1, <2>2
<1>4. ASSUME keyring[k].validity = "r"
      PROVE  \E i \in 1..Len(records) :
                /\ OwnRevocation(records[i]) /\ ts < records[i].at
                /\ \A j \in 1..Len(records) : OwnRevocation(records[j]) => i <= j
  <2>1. own = GetKeyRevocationDate(Printed(records))
    <3>1. GetKeyRevocationDate(Failure) = Never
      BY DEF GetKeyRevocationDate, Failure
    <3>2. own = GetKeyRevocationDate(Failure) \/ own = GetKeyRevocationDate(Printed(records))
      BY <1>1 DEF OwnDate, ListSigsOutput
    <3> QED
      BY <1>1, <1>4, <3>1, <3>2
  <2> QED
    BY <1>1, <1>2, <1>3, <1>4, <2>1, KeyDateIs
<1>5. ASSUME NEW u \in asked, NEW n \in 1..Len(records), RevokedBy(records[n], u)
      PROVE  \E v \in asked :
                /\ \E i \in 1..Len(records) : RevokedBy(records[i], v)
                /\ \A i \in 1..Len(records) : RevokedBy(records[i], v) => ts < records[i].at
  <2> DEFINE date(by) == GetCertRevocationDate(Printed(records), by)
             fails(by) == << "cert", x, role, by >> \in env.failed
  <2>0. u \in OwnKeys(keyring) /\ ts # Undated /\ << "list_own" >> \notin env.failed /\ ~fails(u)
    BY DEF Asked
  <2>1. \A by : RevokedAt(records, by, Len(records), date(by))
    <3>1. \A y \in Range(records) : y.type = "rev" => y.at \in Nat
      BY <1>2 DEF Revocational
    <3> QED
      BY <1>3, <3>1, CertDateIs
  <2>2. verifiers \in Seq(OwnKeys(keyring)) /\ \E i \in 1..Len(verifiers) : verifiers[i] = u
    <3>1. verifiers \in Seq(OwnKeys(keyring))
      BY <1>2, VerifiersAre
    <3>2. \A w \in OwnKeys(keyring) : \E i \in 1..Len(verifiers) : verifiers[i] = w
      <4>1. DOMAIN keyring \subseteq ToSet(KeyOrder) /\ << "list_own" >> \notin env.failed
        BY <1>2, <2>0
      <4> QED
        <5>1. AllIn(verifiers, OwnKeys(keyring))
          BY <4>1, VerifiersAre
        <5> HIDE DEF verifiers
        <5> QED
          BY <5>1 DEF AllIn
    <3> HIDE DEF verifiers
    <3> QED
      BY <2>0, <3>1, <3>2
  <2>3. date(u) # Never
    BY <1>5, <2>1 DEF RevokedAt
  <2>4. /\ dates \in Seq(Range(dates)) /\ Len(dates) = Len(verifiers)
        /\ \A i \in 1..Len(verifiers) : dates[i] = IF fails(verifiers[i]) THEN Never ELSE date(verifiers[i])
    BY <1>1, <2>2, DatesAre
  <2> HIDE DEF date, fails, dates, verifiers
  <2>5. first # 0
    <3>1. \E i \in 1..Len(dates) : dates[i] # Never
      BY <2>0, <2>2, <2>3, <2>4
    <3> QED
      BY <2>4, <3>1, FirstDateIs
  <2> DEFINE v == verifiers[first]
  <2>6. first \in 1..Len(verifiers) /\ dates[first] # Never
    BY <2>4, <2>5, FirstDateIs
  <2>7. ~fails(v) /\ dates[first] = date(v) /\ date(v) # Never
    BY <2>4, <2>6
  <2>8. v \in OwnKeys(keyring) /\ ts < date(v) /\ RevokedAt(records, v, Len(records), date(v))
    BY <1>1, <2>0, <2>1, <2>2, <2>5, <2>6, <2>7
  <2>9. v \in asked
    BY <2>0, <2>7, <2>8 DEF Asked, fails
  <2> HIDE DEF v, asked
  <2>10. PICK j \in 1..Len(records) : RevokedBy(records[j], v) /\ records[j].at = date(v)
    BY <2>7, <2>8 DEF RevokedAt
  <2>11. ASSUME NEW i \in 1..Len(records), RevokedBy(records[i], v) PROVE ts < records[i].at
    <3>1. date(v) <= records[i].at
      BY <2>8, <2>11 DEF RevokedAt
    <3>2. date(v) \in Nat /\ records[i].at \in Nat
      BY <1>3, <2>10, <2>11 DEF RevokedBy
    <3>3. ts \in Int /\ ts < date(v)
      BY <2>8
    <3> DEFINE d == date(v)
               at == records[i].at
    <3>4. ts \in Int /\ d \in Nat /\ at \in Nat /\ ts < d /\ d <= at
      BY <3>1, <3>2, <3>3
    <3> HIDE DEF d, at, ts
    <3>5. ts < at
      BY <3>4
    <3> QED
      BY <3>5 DEF at
  <2> QED
    BY <2>9, <2>10, <2>11
<1>6. Precedes(x, keyring, k, asked)
  <2> HIDE DEF asked, k
  <2> QED
    BY <1>4, <1>5 DEF Precedes
<1> QED
  BY <1>1, <1>6

\* An entry verifies if both its signatures do.
BothVerify(keyring, env, x) ==
    /\ Verifies(keyring, env, VerifierKeyIDs(keyring, env), x, "log")
    /\ Verifies(keyring, env, VerifierKeyIDs(keyring, env), x, "signer")

\* The two answers to the two signatures of each entry come to the entry they are for.
LEMMA ResultsAre ==
    ASSUME NEW S, NEW kept \in Seq(S), NEW keyring, NEW env
    PROVE  VerifiedPlaces(kept, VerifyResults(kept, keyring, env))
           = {i \in 1..Len(kept) : BothVerify(keyring, env, kept[i])}
<1> DEFINE batch == VerifyEntries(kept)
           results == VerifyResults(kept, keyring, env)
           verifiers == VerifierKeyIDs(keyring, env)
           One(j) == Verifies(keyring, env, verifiers, batch[j].entry, batch[j].role)
<1>1. Len(kept) \in Nat
  OBVIOUS
<1>2. DOMAIN batch = 1..(2 * Len(kept))
  BY DEF VerifyEntries
<1>3. ASSUME NEW i \in 1..Len(kept)
      PROVE  /\ 2 * i - 1 \in DOMAIN batch /\ 2 * i \in DOMAIN batch
             /\ batch[2 * i - 1] = [entry |-> kept[i], role |-> "log"]
             /\ batch[2 * i] = [entry |-> kept[i], role |-> "signer"]
  <2>1. /\ 2 * i - 1 \in 1..(2 * Len(kept)) /\ 2 * i \in 1..(2 * Len(kept))
        /\ ((2 * i - 1) + 1) \div 2 = i /\ (2 * i + 1) \div 2 = i
        /\ (2 * i - 1) % 2 = 1 /\ (2 * i) % 2 # 1
    BY <1>1
  <2> QED
    BY <1>2, <2>1 DEF VerifyEntries
<1>4. results = [j \in DOMAIN batch |-> One(j)]
  BY DEF VerifyResults
<1> HIDE DEF batch, results, verifiers
<1>5. ASSUME NEW i \in 1..Len(kept)
      PROVE  /\ results[2 * i - 1] = Verifies(keyring, env, verifiers, kept[i], "log")
             /\ results[2 * i] = Verifies(keyring, env, verifiers, kept[i], "signer")
  <2>1. results[2 * i - 1] = One(2 * i - 1) /\ results[2 * i] = One(2 * i)
    BY <1>3, <1>4
  <2>2. batch[2 * i - 1].role = "log" /\ batch[2 * i - 1].entry = kept[i]
        /\ batch[2 * i].role = "signer" /\ batch[2 * i].entry = kept[i]
    <3> DEFINE p == batch[2 * i - 1]
               q == batch[2 * i]
               x == kept[i]
    <3>1. p = [entry |-> x, role |-> "log"] /\ q = [entry |-> x, role |-> "signer"]
      BY <1>3
    <3> HIDE DEF p, q, x
    <3>2. p.role = "log" /\ p.entry = x /\ q.role = "signer" /\ q.entry = x
      BY <3>1
    <3> QED
      BY <3>2 DEF p, q, x
  <2> QED
    BY <2>1, <2>2
<1> QED
  BY <1>5 DEF VerifiedPlaces, BothVerify, results, verifiers

\* What verifies, of a list of entries: what passes of those that are kept.
Verifying(S, keyring, env) == {x \in S : BothVerify(keyring, env, x)}

\* The lookup comes to an answer about what it has kept.
Answerable(kept, env) == Encodable(kept, env) /\ << "verify" >> \notin env.failed

\* The entries that count are those that are kept and verify, or none.
LEMMA CountedAreGood ==
    ASSUME NEW S, NEW s \in Seq(S), NEW keyring, NEW env
    PROVE  VerifiedEntries(s, keyring, env)
           = IF Answerable(KeepLatest(s, TrustedFingerprints(keyring, env)), env)
             THEN Filter(KeepLatest(s, TrustedFingerprints(keyring, env)), Verifying(S, keyring, env))
             ELSE <<>>
<1> DEFINE kept == KeepLatest(s, TrustedFingerprints(keyring, env))
           results == VerifyResults(kept, keyring, env)
           passed == Filter(kept, Verifying(S, keyring, env))
<1>1. kept \in Seq(S)
  BY KeepLatestType
<1>2. VerifiedEntries(s, keyring, env) = IF Answerable(kept, env) THEN Verified(kept, results) ELSE <<>>
  BY DEF VerifiedEntries, Answerable
<1> HIDE DEF kept
<1>3. VerifiedPlaces(kept, results) = {i \in 1..Len(kept) : BothVerify(keyring, env, kept[i])}
  BY <1>1, ResultsAre
<1> HIDE DEF results
<1>4. Picks(kept, VerifiedPlaces(kept, results), Verified(kept, results))
  BY <1>1, VerifiedPicks
<1>5. Passing(kept, Verifying(S, keyring, env)) = VerifiedPlaces(kept, results)
  <2>1. \A i \in 1..Len(kept) : kept[i] \in S
    BY <1>1
  <2> QED
    BY <1>3, <2>1 DEF Passing, Verifying
<1>6. Picks(kept, VerifiedPlaces(kept, results), passed)
  <2>1. Picks(kept, Passing(kept, Verifying(S, keyring, env)), passed)
    BY <1>1, FilterPicks
  <2> QED
    BY <1>5, <2>1
<1>7. Len(kept) \in Nat
  BY <1>1
<1> HIDE DEF passed
<1>8. Verified(kept, results) = passed
  BY <1>4, <1>6, <1>7, PicksUnique
<1> QED
  BY <1>2, <1>8 DEF kept, passed

\* As a set: of those that are kept, those that verify, if there is an answer.
LEMMA CountedAre ==
    ASSUME NEW S, NEW s \in Seq(S), NEW keyring, NEW env
    PROVE  /\ VerifiedEntries(s, keyring, env) \in Seq(S)
           /\ KeepLatest(s, TrustedFingerprints(keyring, env)) \in Seq(S)
           /\ \A x : x \in ToSet(VerifiedEntries(s, keyring, env)) <=>
                        /\ x \in ToSet(KeepLatest(s, TrustedFingerprints(keyring, env)))
                        /\ Answerable(KeepLatest(s, TrustedFingerprints(keyring, env)), env)
                        /\ BothVerify(keyring, env, x)
<1> DEFINE kept == KeepLatest(s, TrustedFingerprints(keyring, env))
           G == Verifying(S, keyring, env)
           counted == VerifiedEntries(s, keyring, env)
           passed == Filter(kept, G)
<1>1. kept \in Seq(S)
  BY KeepLatestType
<1>2. counted = IF Answerable(kept, env) THEN passed ELSE <<>>
  BY CountedAreGood
<1>3. \A x \in S : x \in G <=> BothVerify(keyring, env, x)
  BY DEF Verifying
<1> HIDE DEF kept, G, counted
<1>4. passed \in Seq(S) /\ Range(passed) = Range(kept) \intersect G
  BY <1>1, FilterLeaves
<1> HIDE DEF passed
<1>5. ToSet(passed) = Range(passed) /\ ToSet(kept) = Range(kept) /\ Range(kept) \subseteq S
  BY <1>1, <1>4 DEF ToSet, Range
<1>6. \A x : x \in ToSet(passed) <=> x \in ToSet(kept) /\ BothVerify(keyring, env, x)
  BY <1>3, <1>4, <1>5
<1>7. ToSet(<<>>) = {} /\ <<>> \in Seq(S)
  BY DEF ToSet
<1>8. CASE Answerable(kept, env)
  <2>1. counted = passed
    BY <1>2, <1>8
  <2> QED
    BY <1>1, <1>4, <1>6, <1>8, <2>1 DEF kept, counted
<1>9. CASE ~Answerable(kept, env)
  <2>1. counted = <<>>
    BY <1>2, <1>9
  <2> QED
    BY <1>1, <1>7, <1>9, <2>1 DEF kept, counted
<1> QED
  BY <1>8, <1>9

\* Who is kept is trusted.
LEMMA KeptAreTrusted ==
    ASSUME NEW S, NEW s \in Seq(S), \A x \in S : x.server_timestamp \in Int, NEW keyring, NEW env,
           DOMAIN keyring \subseteq ToSet(KeyOrder),
           NEW x \in ToSet(KeepLatest(s, TrustedFingerprints(keyring, env)))
    PROVE  x \in S /\ x.server_timestamp \in Int /\ x.signer_keyid \in TrustedKeys(keyring, env)
<1> DEFINE T == TrustedFingerprints(keyring, env)
           kept == KeepLatest(s, T)
<1>1. T = TrustedKeys(keyring, env)
  BY TrustedAreUsable
<1> HIDE DEF T
<1>2. NewestKept(s, T, Len(s), kept)
  BY KeepLatestKeepsNewest
<1>3. kept \in Seq(S)
  BY KeepLatestType
<1>4. x \in ToSet(kept)
  BY DEF T
<1> HIDE DEF kept
<1>5. PICK i \in 1..Len(kept) : x = kept[i]
  BY <1>3, <1>4 DEF ToSet
<1>6. PICK m \in 1..Len(s) : x = s[m] /\ Eligible(T, s[m])
  BY <1>2, <1>5 DEF NewestKept
<1>7. x \in S
  BY <1>6
<1>8. x.server_timestamp \in Int
  BY <1>7
<1> QED
  BY <1>1, <1>6, <1>7, <1>8 DEF Eligible

(* x is what it looks like: the keys that are named have made its two signatures, it is dated, and *)
(* gpg runs when it is asked about them.                                                             *)
SoundEntry(env, x) ==
    /\ env.maker["log"][x] = LogKey /\ env.maker["signer"][x] = x.signer_keyid
    /\ x.server_timestamp # Undated
    /\ \A role \in {"log", "signer"} :
          << "verify", x, role >> \notin env.failed /\ << "own", x, role >> \notin env.failed

(* A revocation takes nothing from what was said before it (main.go:123-145), whatever else has  *)
(* become of the keys, and of however many of them: of what signer and log have both signed, each *)
(* signer's newest entry of a category counts if it is older than every revocation of their keys,  *)
(* provided that every entry that is kept can be encoded (service-worker.js:269 and 287) and that    *)
(* gpg answers for this one.                                                                           *)
THEOREM EarlierCountsOnAnyKeyring ==
    ASSUME NEW S, NEW s \in Seq(S), \A x \in S : x.server_timestamp \in Int,
           NEW keyring, Keyring(keyring), NEW env,
           Answerable(KeepLatest(s, TrustedFingerprints(keyring, env)), env),
           NEW x \in ToSet(KeepLatest(s, TrustedFingerprints(keyring, env))), SoundEntry(env, x),
           LogKey \in DOMAIN keyring,
           \A k \in {LogKey, x.signer_keyid} : \A i \in 1..Len(keyring[k].records) :
              keyring[k].records[i].type = "rev" => x.server_timestamp < keyring[k].records[i].at
    PROVE  x \in ToSet(VerifiedEntries(s, keyring, env))
<1>1. DOMAIN keyring \subseteq ToSet(KeyOrder)
  BY DEF Keyring
<1>2. x.signer_keyid \in DOMAIN keyring
  BY <1>1, KeptAreTrusted DEF TrustedKeys
<1>3. ASSUME NEW role \in {"log", "signer"}
      PROVE  Verifies(keyring, env, VerifierKeyIDs(keyring, env), x, role)
  <2> DEFINE k == env.maker[role][x]
  <2>1. k \in {LogKey, x.signer_keyid} /\ k \in DOMAIN keyring /\ x.server_timestamp # Undated
    BY <1>2 DEF SoundEntry
  <2>2. << "verify", x, role >> \notin env.failed /\ << "own", x, role >> \notin env.failed
    BY DEF SoundEntry
  <2>3. \A i \in 1..Len(keyring[k].records) :
           LET r == keyring[k].records[i] IN r.type = "rev" => x.server_timestamp < r.at
    BY <2>1
  <2> QED
    BY <2>1, <2>2, <2>3, EarlierVerifies
<1>4. BothVerify(keyring, env, x)
  BY <1>3 DEF BothVerify
<1> QED
  BY <1>4, CountedAre

(* Nothing counts that names nobody trusted, or without two signatures that are good by keys on   *)
(* the keyring, or that does not precede the revocations of these two keys that the host looks at   *)
(* (main.go:115-155): the first of a revoked key's own, and those of one of the user's keys, if any   *)
(* of those who are asked has revoked a certification; which one that is, when several have, nobody    *)
(* promises, and nobody promises that the two keys are the log's and the one that is named             *)
(* (service-worker.js:313).                                                                             *)
THEOREM LaterNeverCountsOnAnyKeyring ==
    ASSUME NEW S, NEW s \in Seq(S), \A x \in S : x.server_timestamp \in Int,
           NEW keyring, Keyring(keyring), NEW env,
           NEW x \in ToSet(VerifiedEntries(s, keyring, env))
    PROVE  /\ x.signer_keyid \in TrustedKeys(keyring, env)
           /\ \A role \in {"log", "signer"} :
                 /\ env.maker[role][x] \in DOMAIN keyring
                 /\ Precedes(x, keyring, env.maker[role][x], Asked(keyring, env, x, role))
<1>1. DOMAIN keyring \subseteq ToSet(KeyOrder)
  BY DEF Keyring
<1>2. x \in ToSet(KeepLatest(s, TrustedFingerprints(keyring, env))) /\ BothVerify(keyring, env, x)
  BY CountedAre
<1>3. x.server_timestamp \in Int /\ x.signer_keyid \in TrustedKeys(keyring, env)
  BY <1>1, <1>2, KeptAreTrusted
<1>4. ASSUME NEW role \in {"log", "signer"}
      PROVE  /\ env.maker[role][x] \in DOMAIN keyring
             /\ Precedes(x, keyring, env.maker[role][x], Asked(keyring, env, x, role))
  <2>1. Verifies(keyring, env, VerifierKeyIDs(keyring, env), x, role)
    BY <1>2 DEF BothVerify
  <2> QED
    BY <1>3, <2>1, VerifiedIsEarlier
<1> QED
  BY <1>3, <1>4

\* What is kept of a part of the list is that part of what is kept.
LEMMA KeptOfPart ==
    ASSUME NEW S, NEW s \in Seq(S), \A x \in S : x.server_timestamp \in Int, NEW T, NEW P,
           \A i, j \in 1..Len(s) : Key(s[i]) = Key(s[j]) => (s[i] \in P <=> s[j] \in P)
    PROVE  /\ KeepLatest(s, T) \in Seq(S) /\ KeepLatest(Filter(s, P), T) = Filter(KeepLatest(s, T), P)
           /\ ToSet(KeepLatest(Filter(s, P), T)) = ToSet(KeepLatest(s, T)) \intersect P
<1> DEFINE K == KeepLatest(s, T)
           part == KeepLatest(Filter(s, P), T)
<1>1. part = Filter(K, P)
  BY LatestOfWhatPasses
<1>2. K \in Seq(S)
  BY KeepLatestType
<1> HIDE DEF K, part
<1>3. part \in Seq(S) /\ Range(part) = Range(K) \intersect P
  BY <1>1, <1>2, FilterLeaves
<1>4. ToSet(part) = Range(part) /\ ToSet(K) = Range(K)
  BY <1>2, <1>3 DEF ToSet, Range
<1> QED
  BY <1>1, <1>2, <1>3, <1>4 DEF K, part

\* Of nothing, nothing passes.
LEMMA FilterNothing == ASSUME NEW P PROVE Filter(<<>>, P) = <<>>
<1> DEFINE S == {}
           none == <<>>
<1>1. none \in Seq(S)
  OBVIOUS
<1> HIDE DEF S, none
<1>2. Filter(none, P) \in Seq(S)
  BY <1>1, FilterLeaves
<1> QED
  BY <1>2 DEF S, none

\* What counts of a part of the list is that part of what counts, when the part has all entries
\* of a signer in a category or none of them, and all that is kept can be encoded.
LEMMA CountedOfPart ==
    ASSUME NEW S, NEW s \in Seq(S), \A x \in S : x.server_timestamp \in Int,
           NEW keyring, NEW env, NEW P,
           \A i, j \in 1..Len(s) : Key(s[i]) = Key(s[j]) => (s[i] \in P <=> s[j] \in P),
           \A x \in ToSet(KeepLatest(s, TrustedFingerprints(keyring, env))) : x \in env.wide => x \in P
    PROVE  VerifiedEntries(Filter(s, P), keyring, env) = Filter(VerifiedEntries(s, keyring, env), P)
<1> DEFINE T == TrustedFingerprints(keyring, env)
           G == Verifying(S, keyring, env)
           K == KeepLatest(s, T)
           part == KeepLatest(Filter(s, P), T)
           whole == VerifiedEntries(s, keyring, env)
           some == VerifiedEntries(Filter(s, P), keyring, env)
<1>1. Filter(s, P) \in Seq(S)
  BY FilterLeaves
<1>2. some = IF Answerable(part, env) THEN Filter(part, G) ELSE <<>>
  BY <1>1, CountedAreGood
<1>3. whole = IF Answerable(K, env) THEN Filter(K, G) ELSE <<>>
  BY CountedAreGood
<1>4. K \in Seq(S) /\ part = Filter(K, P) /\ ToSet(part) = ToSet(K) \intersect P
  <2> HIDE DEF T
  <2> QED
    BY KeptOfPart
<1>5. \A x \in ToSet(K) : x \in env.wide => x \in P
  OBVIOUS
<1> HIDE DEF K, G, T, part, whole, some
<1>6. Answerable(part, env) <=> Answerable(K, env)
  BY <1>4, <1>5 DEF Answerable, Encodable
<1>7. CASE Answerable(K, env)
  <2>1. Filter(Filter(K, P), G) = Filter(K, P \intersect G)
    BY <1>4, FilterTwice
  <2>2. Filter(Filter(K, G), P) = Filter(K, G \intersect P)
    BY <1>4, FilterTwice
  <2>3. G \intersect P = P \intersect G
    OBVIOUS
  <2>4. some = Filter(part, G) /\ whole = Filter(K, G)
    BY <1>2, <1>3, <1>6, <1>7
  <2>5. some = Filter(whole, P)
    BY <1>4, <2>1, <2>2, <2>3, <2>4
  <2> QED
    BY <2>5 DEF some, whole
<1>8. CASE ~Answerable(K, env)
  <2>1. some = <<>> /\ whole = <<>>
    BY <1>2, <1>3, <1>6, <1>8
  <2>2. Filter(<<>>, P) = <<>>
    BY FilterNothing
  <2> QED
    BY <2>1, <2>2 DEF some, whole
<1> QED
  BY <1>7, <1>8

\* The entries of a list that are one signer's.
EntriesBy(s, signer) == {x \in ToSet(s) : x.signer_keyid = signer}

\* An entry kept of somebody else cannot be encoded.
SpoiltByAnother(s, keyring, env, signer) ==
    \E x \in env.wide : /\ x.signer_keyid # signer
                        /\ x \in ToSet(KeepLatest(s, TrustedFingerprints(keyring, env)))

(* What does not verify costs others nothing, whatever has become of any number of keys, signatures *)
(* and calls: of each signer there counts what would count if the log held nothing of anybody else    *)
(* (service-worker.js:236-258, main.go:103-160).  Only an entry that cannot be encoded costs all of      *)
(* them everything: then nothing counts (service-worker.js:269, 287 and 370).                             *)
THEOREM IndependentOnAnyKeyring ==
    ASSUME NEW S, NEW s \in Seq(S), \A x \in S : x.server_timestamp \in Int,
           NEW keyring, NEW env, NEW signer
    PROVE  IF SpoiltByAnother(s, keyring, env, signer) THEN VerifiedEntries(s, keyring, env) = <<>>
           ELSE Filter(VerifiedEntries(s, keyring, env), EntriesBy(s, signer))
                = VerifiedEntries(Filter(s, EntriesBy(s, signer)), keyring, env)
<1> DEFINE by == EntriesBy(s, signer)
           kept == KeepLatest(s, TrustedFingerprints(keyring, env))
<1>1. \A i \in 1..Len(s) : s[i] \in ToSet(s)
  BY DEF ToSet
<1>2. \A i, j \in 1..Len(s) : Key(s[i]) = Key(s[j]) => (s[i] \in by <=> s[j] \in by)
  BY <1>1 DEF Key, EntriesBy
<1>3. \A x \in ToSet(kept) : x \in ToSet(s)
  <2>1. s \in Seq(ToSet(s))
    BY <1>1
  <2>2. kept \in Seq(ToSet(s))
    BY <2>1, KeepLatestType
  <2> HIDE DEF kept
  <2> QED
    BY <2>2 DEF ToSet
<1>4. CASE SpoiltByAnother(s, keyring, env, signer)
  <2>1. ~Answerable(kept, env)
    BY <1>4 DEF SpoiltByAnother, Answerable, Encodable
  <2> QED
    BY <1>4, <2>1, CountedAreGood
<1>5. CASE ~SpoiltByAnother(s, keyring, env, signer)
  <2>1. \A x \in ToSet(kept) : x \in env.wide => x \in by
    BY <1>3, <1>5 DEF SpoiltByAnother, EntriesBy
  <2> HIDE DEF by
  <2>2. VerifiedEntries(Filter(s, by), keyring, env) = Filter(VerifiedEntries(s, keyring, env), by)
    BY <1>2, <2>1, CountedOfPart
  <2> QED
    BY <1>5, <2>2 DEF by
<1> QED
  BY <1>4, <1>5

\* What is shown depends on what is claimed in each category alone.
LEMMA SameClaims ==
    ASSUME NEW s, NEW r, \A k \in Categories : Claims(s, k) = Claims(r, k)
    PROVE  Aggregate(s) = Aggregate(r)
<1>1. {k \in Categories : Claims(s, k) # <<>>} = {k \in Categories : Claims(r, k) # <<>>}
  OBVIOUS
<1> QED
  BY <1>1 DEF Aggregate

\* The words of a category's others are what is claimed in it, if its own claim nothing.
LEMMA ClaimsOfRest ==
    ASSUME NEW S, NEW v \in Seq(S), NEW rest, NEW c,
           \A n \in 1..Len(v) : v[n].verdict # "revoke" => v[n] \in rest
    PROVE  Claims(Filter(v, rest), c) = Claims(v, c)
<1> DEFINE claim(q) == {x \in ToSet(q) : x.category = c /\ x.verdict # "revoke"}
           f == Filter(v, rest)
<1>1. Claims(v, c) = Filter(v, claim(v)) /\ Claims(f, c) = Filter(f, claim(f))
  BY DEF Claims
<1>2. Filter(f, claim(f)) = Filter(v, rest \intersect claim(f))
  BY FilterTwice
<1>3. ToSet(f) = ToSet(v) \intersect rest
  <2>1. f \in Seq(S) /\ Range(f) = Range(v) \intersect rest
    BY FilterLeaves
  <2> HIDE DEF f
  <2>2. ToSet(v) = Range(v) /\ ToSet(f) = Range(f)
    BY <2>1 DEF ToSet, Range
  <2> QED
    BY <2>1, <2>2
<1>4. \A n \in 1..Len(v) : v[n] \in ToSet(v)
  BY DEF ToSet
<1>5. \A n \in 1..Len(v) : v[n] \in rest \intersect claim(f) <=> v[n] \in claim(v)
  BY <1>3, <1>4
<1> HIDE DEF claim, f
<1>6. Filter(v, rest \intersect claim(f)) = Filter(v, claim(v))
  BY <1>5, FilterSame
<1> QED
  BY <1>1, <1>2, <1>6 DEF f

(* If somebody's newest word in a category is "revoke", everything is shown as if they had never   *)
(* said anything in it (README.md:31), whoever they are and whatever has become of any number of     *)
(* keys, signatures and calls: no older claim comes back, not even when the revocation does not        *)
(* verify.  That is so if every entry that is kept can be encoded; otherwise nothing is shown at all     *)
(* (service-worker.js:269, 287 and 370).                                                                   *)
THEOREM RevokeWithdrawsOnAnyKeyring ==
    ASSUME NEW S, NEW s \in Seq(S), \A x \in S : x.server_timestamp \in Int,
           NEW keyring, NEW env,
           NEW m \in 1..Len(s), NoneNewer(s, Len(s), m), s[m].verdict = "revoke"
    PROVE  Shown(s, keyring, env)
           = IF Encodable(KeepLatest(s, TrustedFingerprints(keyring, env)), env)
             THEN Shown(Filter(s, {x \in ToSet(s) : Key(x) # Key(s[m])}), keyring, env)
             ELSE Aggregate(<<>>)
<1> DEFINE rest == {x \in ToSet(s) : Key(x) # Key(s[m])}
           T == TrustedFingerprints(keyring, env)
           kept == KeepLatest(s, T)
           v == VerifiedEntries(s, keyring, env)
<1>1. /\ v \in Seq(S) /\ kept \in Seq(S)
      /\ \A x : x \in ToSet(v) => x \in ToSet(kept)
  BY CountedAre
<1>2. \A i \in 1..Len(s) : s[i] \in ToSet(s)
  BY DEF ToSet
<1>3. \A i, j \in 1..Len(s) : Key(s[i]) = Key(s[j]) => (s[i] \in rest <=> s[j] \in rest)
  BY <1>2
<1>4. \A j \in 1..Len(s) : s[j] \in rest <=> Key(s[j]) # Key(s[m])
  BY <1>2
<1>5. NewestKept(s, T, Len(s), kept)
  <2> HIDE DEF T
  <2> QED
    BY KeepLatestKeepsNewest
<1>10. ~Encodable(kept, env) => v = <<>>
  BY CountedAreGood DEF Answerable
<1>11. Encodable(kept, env) => \A x \in ToSet(kept) : x \in env.wide => x \in rest
  BY DEF Encodable
<1> HIDE DEF rest, T, kept, v
<1>6. ASSUME NEW n \in 1..Len(v), v[n].verdict # "revoke" PROVE v[n] \in rest
  <2>0. v[n] \in ToSet(v)
    BY <1>1 DEF ToSet
  <2>1. v[n] \in ToSet(kept)
    BY <1>1, <2>0
  <2>2. PICK i \in 1..Len(kept) : v[n] = kept[i]
    <3>1. DOMAIN kept = 1..Len(kept)
      BY <1>1
    <3>2. ToSet(kept) = {kept[i] : i \in DOMAIN kept}
      BY DEF ToSet
    <3> QED
      BY <2>1, <3>1, <3>2
  <2>3. PICK j \in 1..Len(s) : kept[i] = s[j] /\ NoneNewer(s, Len(s), j)
    BY <1>5 DEF NewestKept
  <2>4. j # m
    BY <1>6, <2>2, <2>3
  <2>5. Key(s[j]) # Key(s[m])
    BY <2>3, <2>4, NewestIsOne
  <2> QED
    BY <1>4, <2>2, <2>3, <2>5
<1>8. \A c \in Categories : Claims(Filter(v, rest), c) = Claims(v, c)
  BY <1>1, <1>6, ClaimsOfRest
<1>9. Aggregate(Filter(v, rest)) = Aggregate(v)
  BY <1>8, SameClaims
<1>12. CASE Encodable(kept, env)
  <2>1. \A x \in ToSet(kept) : x \in env.wide => x \in rest
    BY <1>11, <1>12
  <2>2. VerifiedEntries(Filter(s, rest), keyring, env) = Filter(v, rest)
    BY <1>3, <2>1, CountedOfPart DEF v, kept, T
  <2> QED
    BY <1>9, <1>12, <2>2 DEF Shown, v, rest, kept, T
<1>13. CASE ~Encodable(kept, env)
  BY <1>10, <1>13 DEF Shown, v, kept, T
<1> QED
  BY <1>12, <1>13
=============================================================================
