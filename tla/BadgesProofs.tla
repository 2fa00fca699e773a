---------------------------- MODULE BadgesProofs ----------------------------
(* Theorems about Badges, for any elements, categories and numbers of lookups and    *)
(* badges, and any answers.                                                           *)
EXTENDS Badges, FiniteSetTheorems, TLAPS

\* An element's map leads to badges of its own, under their category.
MapInv ==
    \A e \in Elements : \A c \in DOMAIN targetToBadges[e] :
        LET id == targetToBadges[e][c] IN
        /\ id \in DOMAIN badgeRegistry
        /\ badgeRegistry[id].target = e /\ badgeRegistry[id].category = c

\* Nothing is left to happen to an element that has been collected.
GoneInv ==
    \A e \in Elements : place[e] = "gone" =>
        /\ DOMAIN targetToBadges[e] = {} /\ seen[e] = "unobserved" /\ report[e] = "none"
        /\ asked[e] = 0 /\ stage[e] # "loading"

\* The finalizers of an element are for badges of its own.
FinalizerInv ==
    \A e \in Elements : \A id \in finalizers[e] \intersect DOMAIN badgeRegistry :
        badgeRegistry[id].target = e

\* The observer and the badges that can be found agree, or an entry is on its way.  An
\* element with a lost map may be observed from then on, and is not told anew when it gets
\* badges in a new map.
SeenOK(e) ==
    /\ DOMAIN targetToBadges[e] # {} => seen[e] # "unobserved"
    /\ seen[e] # "unobserved" => DOMAIN targetToBadges[e] # {} \/ e \in apart
    /\ seen[e] = "unseen" => updateScheduled
    /\ seen[e] \in {"in", "out"} /\ report[e] # "none" => report[e] = seen[e]
    /\ seen[e] = "out" /\ report[e] = "none" =>
          \A id \in Range(targetToBadges[e]) : ~badgeRegistry[id].visible
    /\ seen[e] = "in" /\ report[e] = "none" /\ e \notin apart =>
          \A id \in Range(targetToBadges[e]) : badgeRegistry[id].visible
    /\ place[e] \notin {"page", "gone"} /\ DOMAIN targetToBadges[e] # {} /\ seen[e] = "in" =>
          e \in apart /\ updateScheduled

SeenInv == \A e \in Elements : SeenOK(e)

\* A visible badge can be found, as long as its element is there.
VisibleInv ==
    \A id \in DOMAIN badgeRegistry :
        LET b == badgeRegistry[id] IN
        b.visible /\ place[b.target] # "gone" => id \in Range(targetToBadges[b.target])

BaseInv ==
    TypeOK /\ MapInv /\ GoneInv /\ FinalizerInv /\ SeenInv /\ VisibleInv /\ DrawnOrScheduled

-----------------------------------------------------------------------------
\* Places are below the number of categories, and in the order of the categories.
LEMMA CatIndexOrder ==
    ASSUME NEW cats \in SUBSET Categories
    PROVE  /\ Cardinality(cats) \in Nat
           /\ \A c \in cats : CatIndex(c, cats) \in 0..(Cardinality(cats) - 1)
           /\ \A c, d \in cats : c < d => CatIndex(c, cats) < CatIndex(d, cats)
<1>0. IsFiniteSet(cats)
  BY CategoriesAssumption, FS_Subset
<1>1. \A s \in SUBSET cats : IsFiniteSet(s) /\ Cardinality(s) \in Nat
  BY <1>0, FS_Subset, FS_CardinalityType
<1>2. ASSUME NEW s \in SUBSET cats, NEW t \in SUBSET s, t # s
      PROVE  Cardinality(t) < Cardinality(s)
  <2>1. /\ Cardinality(t) <= Cardinality(s)
        /\ Cardinality(s) = Cardinality(t) => s = t
    BY <1>1, FS_Subset
  <2> QED
    BY <1>1, <1>2, <2>1
<1>3. ASSUME NEW c \in cats
      PROVE  CatIndex(c, cats) \in 0..(Cardinality(cats) - 1)
  <2>1. {d \in cats : d < c} \in SUBSET cats /\ {d \in cats : d < c} # cats
    BY CategoriesAssumption
  <2>2. Cardinality({d \in cats : d < c}) < Cardinality(cats)
    BY <1>2, <2>1
  <2> QED
    BY <1>1, <2>1, <2>2 DEF CatIndex
<1>4. ASSUME NEW c \in cats, NEW d \in cats, c < d
      PROVE  CatIndex(c, cats) < CatIndex(d, cats)
  <2> DEFINE below(y) == {x \in cats : x < y}
  <2>1. \A x \in cats : x \in Nat
    BY CategoriesAssumption
  <2>2. \A x \in cats : x < c => x < d
    BY <1>4, <2>1
  <2>3. below(c) \in SUBSET below(d) /\ below(d) \in SUBSET cats
    BY <2>2
  <2>4. c \in below(d) /\ c \notin below(c)
    BY <1>4, <2>1
  <2>5. Cardinality(below(c)) < Cardinality(below(d))
    BY <1>2, <2>3, <2>4
  <2> QED
    BY <2>5 DEF CatIndex
<1> QED
  BY <1>1, <1>3, <1>4

\* New badges get ids that nobody has, each its own.
LEMMA NewIdsFresh ==
    ASSUME NEW new \in SUBSET Categories, nextBadgeId \in Nat
    PROVE  /\ Cardinality(new) \in Nat /\ (new # {} => Cardinality(new) > 0)
           /\ DOMAIN NewIds(new) = new
           /\ \A c \in new :
                 /\ NewIds(new)[c] = nextBadgeId + CatIndex(c, new)
                 /\ NewIds(new)[c] \in nextBadgeId..(nextBadgeId + Cardinality(new) - 1)
           /\ \A c, d \in new : NewIds(new)[c] = NewIds(new)[d] => c = d
<1>1. /\ Cardinality(new) \in Nat
      /\ \A c \in new : CatIndex(c, new) \in 0..(Cardinality(new) - 1)
      /\ \A c, d \in new : c < d => CatIndex(c, new) < CatIndex(d, new)
  BY CatIndexOrder
<1>2. \A c, d \in new : CatIndex(c, new) = CatIndex(d, new) => c = d
  <2> SUFFICES ASSUME NEW c \in new, NEW d \in new, CatIndex(c, new) = CatIndex(d, new)
               PROVE  c = d
    OBVIOUS
  <2>1. ~(c < d) /\ ~(d < c)
    BY <1>1
  <2> QED
    BY <2>1, CategoriesAssumption
<1>3. \A c \in new : NewIds(new)[c] = nextBadgeId + CatIndex(c, new)
  BY DEF NewIds
<1>4. new # {} => Cardinality(new) > 0
  BY <1>1
<1> QED
  BY <1>1, <1>2, <1>3, <1>4 DEF NewIds

-----------------------------------------------------------------------------
\* The categories of an answer for which e has a badge already, and those for which it gets
\* one.
KeptCats(e, cats) == DOMAIN targetToBadges[e] \intersect cats
NewCats(e, icons) == icons \ DOMAIN targetToBadges[e]

\* What TypeOK says about an element's map.
LEMMA MapType ==
    ASSUME TypeOK, NEW e \in Elements
    PROVE  /\ DOMAIN targetToBadges[e] \subseteq Categories
           /\ \A c \in DOMAIN targetToBadges[e] :
                 targetToBadges[e][c] \in 0..(nextBadgeId - 1)
           /\ nextBadgeId \in Nat
BY DEF TypeOK

\* What createBadges does to the registry: the badges that stay are renumbered, those of
\* other categories go, the others are new, and what is no badge of the element's map is
\* left alone.
RegistryAfter(e, cats, icons) ==
    LET old  == targetToBadges[e]
        new  == NewCats(e, icons)
        ids  == NewIds(new)
        kept == Restrict(old, KeptCats(e, cats))
    IN  /\ \A c \in new :
              /\ ids[c] \in DOMAIN badgeRegistry' /\ ids[c] \notin DOMAIN badgeRegistry
              /\ badgeRegistry'[ids[c]] = NewBadge(e, c, cats, kept)
        /\ \A c \in KeptCats(e, cats) :
              /\ old[c] \in DOMAIN badgeRegistry'
              /\ badgeRegistry'[old[c]] = Renumber(badgeRegistry[old[c]], cats, icons)
        /\ \A id \in DOMAIN badgeRegistry \ Range(old) :
              id \in DOMAIN badgeRegistry' /\ badgeRegistry'[id] = badgeRegistry[id]
        /\ DOMAIN badgeRegistry' =
              {ids[c] : c \in new} \union {old[c] : c \in KeptCats(e, cats)}
              \union (DOMAIN badgeRegistry \ Range(old))

\* It does that.
LEMMA Created ==
    ASSUME TypeOK, MapInv, NEW e \in Elements, NEW cats \in SUBSET Categories,
           NEW icons \in SUBSET cats, CreateBadges(e, cats, icons)
    PROVE  RegistryAfter(e, cats, icons)
<1> DEFINE old  == targetToBadges[e]
           new  == NewCats(e, icons)
           ids  == NewIds(new)
           kept == Restrict(old, KeptCats(e, cats))
           stay == DOMAIN badgeRegistry \ {old[c] : c \in DOMAIN old \ cats}
<1>1. badgeRegistry' = [id \in stay \union Range(ids) |->
         IF id \in Range(ids) THEN NewBadge(e, CHOOSE c \in new : ids[c] = id, cats, kept)
         ELSE IF id \in Range(kept) THEN Renumber(badgeRegistry[id], cats, icons)
         ELSE badgeRegistry[id]]
  <2> DEFINE Registry(k, n) ==
                [id \in stay \union Range(NewIds(n)) |->
                    IF id \in Range(NewIds(n))
                    THEN NewBadge(e, CHOOSE c \in n : NewIds(n)[c] = id, cats, k)
                    ELSE IF id \in Range(k) THEN Renumber(badgeRegistry[id], cats, icons)
                    ELSE badgeRegistry[id]]
             k0 == Restrict(old, DOMAIN old \intersect cats)
             n0 == icons \ DOMAIN k0
  <2>1. k0 = kept /\ n0 = new
    BY DEF Restrict, NewCats, KeptCats
  <2>2. badgeRegistry' = Registry(k0, n0)
    BY DEF CreateBadges
  <2>3. badgeRegistry' = Registry(kept, new)
    <3> HIDE DEF Registry, k0, n0, kept, new
    <3> QED
      BY <2>1, <2>2
  <2> QED
    BY <2>3
<1>2. /\ DOMAIN ids = new
      /\ \A c \in new : ids[c] \in Nat /\ ids[c] >= nextBadgeId
      /\ \A c, d \in new : ids[c] = ids[d] => c = d
  <2>1. nextBadgeId \in Nat /\ new \in SUBSET Categories
    BY MapType DEF NewCats
  <2>2. /\ DOMAIN ids = new /\ Cardinality(new) \in Nat
        /\ \A c \in new : ids[c] \in nextBadgeId..(nextBadgeId + Cardinality(new) - 1)
        /\ \A c, d \in new : ids[c] = ids[d] => c = d
    BY <2>1, NewIdsFresh
  <2> HIDE DEF new, ids
  <2> QED
    BY <2>1, <2>2
<1> HIDE DEF new, ids
<1>3. ASSUME NEW id \in DOMAIN badgeRegistry
      PROVE  id \notin Range(ids)
  <2>1. id \in Nat /\ id < nextBadgeId /\ nextBadgeId \in Nat
    BY <1>3 DEF TypeOK
  <2> QED
    BY <1>2, <2>1 DEF Range
<1>4. ASSUME NEW c \in DOMAIN old
      PROVE  /\ old[c] \in DOMAIN badgeRegistry
             /\ c \in cats => old[c] \in stay /\ old[c] \in Range(kept)
             /\ c \notin cats => old[c] \notin stay
  <2>1. \A d \in DOMAIN old : old[d] \in DOMAIN badgeRegistry
                              /\ badgeRegistry[old[d]].category = d
    BY DEF MapInv
  <2> QED
    BY <1>4, <2>1 DEF Range, Restrict, KeptCats
<1>5. ASSUME NEW c \in new
      PROVE  /\ ids[c] \in DOMAIN badgeRegistry' /\ ids[c] \notin DOMAIN badgeRegistry
             /\ badgeRegistry'[ids[c]] = NewBadge(e, c, cats, kept)
  <2>1. ids[c] \in Range(ids) /\ (CHOOSE d \in new : ids[d] = ids[c]) = c
    BY <1>2, <1>5 DEF Range
  <2> QED
    BY <1>1, <1>3, <2>1
<1>6. ASSUME NEW c \in KeptCats(e, cats)
      PROVE  old[c] \in DOMAIN badgeRegistry'
             /\ badgeRegistry'[old[c]] = Renumber(badgeRegistry[old[c]], cats, icons)
  <2>1. c \in DOMAIN old /\ c \in cats
    BY <1>6 DEF KeptCats
  <2> QED
    BY <1>1, <1>3, <1>4, <2>1
<1>7. ASSUME NEW id \in DOMAIN badgeRegistry \ Range(old)
      PROVE  id \in DOMAIN badgeRegistry' /\ badgeRegistry'[id] = badgeRegistry[id]
  <2>1. id \in stay /\ id \notin Range(kept)
    BY <1>7 DEF Range, Restrict, KeptCats
  <2> QED
    BY <1>1, <1>3, <2>1
<1>8. DOMAIN badgeRegistry' =
         {ids[c] : c \in new} \union {old[c] : c \in KeptCats(e, cats)}
         \union (DOMAIN badgeRegistry \ Range(old))
  <2>1. DOMAIN badgeRegistry' = stay \union Range(ids) /\ Range(ids) = {ids[c] : c \in new}
    BY <1>1, <1>2 DEF Range
  <2>2. stay = {old[c] : c \in KeptCats(e, cats)} \union (DOMAIN badgeRegistry \ Range(old))
    BY <1>4 DEF Range, KeptCats
  <2> QED
    BY <2>1, <2>2
<1> USE DEF new, ids
<1> QED
  BY <1>5, <1>6, <1>7, <1>8 DEF RegistryAfter

\* What createBadges does to the element's map: the new badges are entered into it, unless
\* none of those it led to stayed; then it is lost.
MapAfter(e, cats, icons) ==
    LET old  == targetToBadges[e]
        new  == NewCats(e, icons)
        kept == KeptCats(e, cats)
    IN  \E map : /\ targetToBadges' = [targetToBadges EXCEPT ![e] = map]
                 /\ kept = {} /\ DOMAIN old # {} => map = NoBadges
                 /\ kept # {} \/ DOMAIN old = {} =>
                       map = [c \in kept \union new |->
                                 IF c \in new THEN NewIds(new)[c] ELSE old[c]]

\* What it does to the observation: when no badge stays, it ends if there were some, and
\* begins if there are new ones, unless it was going on without any.
SeenAfter(e, cats, icons) ==
    LET old  == targetToBadges[e]
        new  == NewCats(e, icons)
        kept == KeptCats(e, cats)
    IN  \E now : /\ seen' = [seen EXCEPT ![e] = now]
                 /\ kept # {} => now = seen[e]
                 /\ kept = {} /\ new = {} /\ DOMAIN old = {} => now = seen[e]
                 /\ kept = {} /\ new = {} /\ DOMAIN old # {} => now = "unobserved"
                 /\ kept = {} /\ new # {} /\ DOMAIN old # {} => now = "unseen"
                 /\ kept = {} /\ new # {} /\ DOMAIN old = {} =>
                       now = IF seen[e] = "unobserved" THEN "unseen" ELSE seen[e]

\* What else createBadges does.  When no badge stays, a finalizer is registered with the
\* first new one; and if there were badges, the element's map is lost.
LEMMA CreatedRest ==
    ASSUME NEW e \in Elements, NEW cats \in SUBSET Categories, NEW icons \in SUBSET cats,
           CreateBadges(e, cats, icons)
    PROVE  LET old  == targetToBadges[e]
               new  == NewCats(e, icons)
               kept == KeptCats(e, cats)
           IN  /\ nextBadgeId' = nextBadgeId + Cardinality(new) /\ nextBadgeId' <= MaxBadges
               /\ MapAfter(e, cats, icons) /\ SeenAfter(e, cats, icons)
               /\ kept = {} /\ new # {} =>
                     finalizers' = [finalizers EXCEPT ![e] = @ \union {nextBadgeId}]
               /\ kept # {} \/ new = {} => UNCHANGED finalizers
               /\ updateScheduled' = TRUE
               /\ apart' = IF kept = {} /\ DOMAIN old # {} THEN apart \union {e} ELSE apart
               /\ shown' = [shown EXCEPT ![e] = IF e \in apart' THEN Nothing
                                                ELSE [cats |-> cats, icons |-> icons]]
<1> DEFINE old == targetToBadges[e]
           k0  == Restrict(old, DOMAIN old \intersect cats)
           n0  == icons \ DOMAIN k0
           new == NewCats(e, icons)
           lost0 == DOMAIN old # {} /\ DOMAIN k0 = {}
           was0  == IF lost0 THEN "unobserved" ELSE seen[e]
           now0  == IF DOMAIN k0 = {} /\ n0 # {} /\ was0 = "unobserved" THEN "unseen" ELSE was0
           map0  == IF lost0 THEN NoBadges
                    ELSE [c \in DOMAIN k0 \union n0 |-> IF c \in n0 THEN NewIds(n0)[c] ELSE k0[c]]
<1>1. DOMAIN k0 = KeptCats(e, cats) /\ n0 = new
  BY DEF Restrict, NewCats, KeptCats
<1>2. /\ nextBadgeId + Cardinality(n0) <= MaxBadges
      /\ nextBadgeId' = nextBadgeId + Cardinality(n0)
      /\ targetToBadges' = [targetToBadges EXCEPT ![e] = map0]
      /\ finalizers' = IF DOMAIN k0 = {} /\ n0 # {}
                       THEN [finalizers EXCEPT ![e] = Register(e)] ELSE finalizers
      /\ seen' = [seen EXCEPT ![e] = now0]
      /\ updateScheduled' = TRUE
      /\ apart' = IF lost0 THEN apart \union {e} ELSE apart
      /\ shown' = [shown EXCEPT ![e] = IF e \in apart' THEN Nothing
                                       ELSE [cats |-> cats, icons |-> icons]]
  BY DEF CreateBadges
<1>3. map0 = IF KeptCats(e, cats) = {} /\ DOMAIN old # {} THEN NoBadges
             ELSE [c \in KeptCats(e, cats) \union new |->
                      IF c \in new THEN NewIds(new)[c] ELSE old[c]]
  <2>1. \A c \in DOMAIN k0 : k0[c] = old[c]
    BY DEF Restrict
  <2>2. [c \in DOMAIN k0 \union n0 |-> IF c \in n0 THEN NewIds(n0)[c] ELSE k0[c]]
        = [c \in KeptCats(e, cats) \union new |-> IF c \in new THEN NewIds(new)[c] ELSE old[c]]
    <3> HIDE DEF n0, k0, new
    <3> QED
      BY <1>1, <2>1
  <2> HIDE DEF n0, k0, new
  <2> QED
    BY <1>1, <2>2
<1>4. SeenAfter(e, cats, icons)
  <2> HIDE DEF n0, k0, new
  <2> SUFFICES /\ KeptCats(e, cats) # {} => now0 = seen[e]
               /\ KeptCats(e, cats) = {} /\ new = {} /\ DOMAIN old = {} => now0 = seen[e]
               /\ KeptCats(e, cats) = {} /\ new = {} /\ DOMAIN old # {} => now0 = "unobserved"
               /\ KeptCats(e, cats) = {} /\ new # {} /\ DOMAIN old # {} => now0 = "unseen"
               /\ KeptCats(e, cats) = {} /\ new # {} /\ DOMAIN old = {} =>
                     now0 = IF seen[e] = "unobserved" THEN "unseen" ELSE seen[e]
    BY <1>2 DEF SeenAfter, new
  <2> QED
    BY <1>1
<1> HIDE DEF n0, k0, map0, now0
<1>5. MapAfter(e, cats, icons)
  BY <1>2, <1>3 DEF MapAfter
<1> QED
  BY <1>1, <1>2, <1>4, <1>5 DEF Register

-----------------------------------------------------------------------------
\* Examining an element changes its stage and its lookups only, within their bounds.
LEMMA ExamineType ==
    ASSUME TypeOK, NEW e \in Elements, Examine(e) \/ Process(e)
    PROVE  /\ stage' \in [Elements -> {"new", "loading", "processed"}]
           /\ asked' \in [Elements -> 0..MaxAsked]
           /\ \A d \in Elements \ {e} : stage'[d] = stage[d] /\ asked'[d] = asked[d]
<1>0. /\ stage \in [Elements -> {"new", "loading", "processed"}]
      /\ asked \in [Elements -> 0..MaxAsked]
  BY DEF TypeOK
<1>1. ASSUME GetVerdicts(e)
      PROVE  /\ stage' = [stage EXCEPT ![e] = "processed"]
             /\ asked' = [asked EXCEPT ![e] = asked[e] + 1] /\ asked[e] + 1 \in 0..MaxAsked
  BY <1>0, <1>1, BoundsAssumption DEF GetVerdicts
<1>2. CASE GetVerdicts(e)
  BY <1>0, <1>1, <1>2
<1>3. CASE ~GetVerdicts(e)
  <2>1. asked' = asked
    BY <1>3 DEF Examine, Process
  <2>2. stage' = stage \/ stage' = [stage EXCEPT ![e] = "loading"]
        \/ stage' = [stage EXCEPT ![e] = IF @ = "processed" THEN "new" ELSE @]
    BY <1>3 DEF Examine, Process
  <2> QED
    BY <1>0, <2>1, <2>2
<1> QED
  BY <1>2, <1>3

\* An element that comes to the page, moves outside it or is looked up again takes its
\* badges, and what is known of them, with it.
LEMMA QuietKeeps ==
    ASSUME BaseInv, UNCHANGED <<badges, observers>>, NEW e \in Elements,
           place' \in [Elements -> {"page", "limb", "alone", "gone"}],
           stage' \in [Elements -> {"new", "loading", "processed"}],
           asked' \in [Elements -> 0..MaxAsked],
           \A d \in Elements \ {e} : place'[d] = place[d] /\ stage'[d] = stage[d]
                                     /\ asked'[d] = asked[d],
           place[e] # "gone" /\ place'[e] # "gone",
           place[e] = "page" => place'[e] = "page"
    PROVE  BaseInv'
<1> USE DEF badges, observers
<1>1. TypeOK'
  BY DEF BaseInv, TypeOK
<1>2. MapInv' /\ FinalizerInv'
  BY DEF BaseInv, MapInv, FinalizerInv
<1>3. GoneInv'
  BY DEF BaseInv, GoneInv
<1>4. SeenInv'
  BY DEF BaseInv, SeenInv, SeenOK
<1>5. \A d \in Elements : place'[d] = "gone" <=> place[d] = "gone"
  OBVIOUS
<1>6. \A id \in DOMAIN badgeRegistry : badgeRegistry[id].target \in Elements
  BY DEF BaseInv, TypeOK, Records
<1>7. VisibleInv'
  BY <1>5, <1>6 DEF BaseInv, VisibleInv
<1>8. DrawnOrScheduled'
  BY <1>5, <1>6 DEF BaseInv, DrawnOrScheduled
<1> QED
  BY <1>1, <1>2, <1>3, <1>4, <1>7, <1>8 DEF BaseInv

\* What happens to an element without its badges.
Quiet(e) == Insert(e) \/ TakeOut(e) \/ Load(e) \/ Refresh(e)
            \/ \E cats \in SUBSET Categories : \E icons \in SUBSET cats :
                  Answer(e, cats, icons) /\ (cats = {} \/ place[e] = "alone")

\* Each such step is one that QuietKeeps speaks of.
LEMMA QuietStep ==
    ASSUME BaseInv, NEW e \in Elements, Quiet(e)
    PROVE  /\ UNCHANGED <<badges, observers>>
           /\ place' \in [Elements -> {"page", "limb", "alone", "gone"}]
           /\ stage' \in [Elements -> {"new", "loading", "processed"}]
           /\ asked' \in [Elements -> 0..MaxAsked]
           /\ \A d \in Elements \ {e} : place'[d] = place[d] /\ stage'[d] = stage[d]
                                        /\ asked'[d] = asked[d]
           /\ place[e] # "gone" /\ place'[e] # "gone"
           /\ place[e] = "page" => place'[e] = "page"
<1>0. TypeOK /\ GoneInv /\ place \in [Elements -> {"page", "limb", "alone", "gone"}]
  BY DEF BaseInv, TypeOK
<1>1. CASE Insert(e)
  <2>1. UNCHANGED <<badges, observers>> /\ place' = [place EXCEPT ![e] = "page"]
        /\ place[e] \in {"alone", "limb"}
    BY <1>1 DEF Insert
  <2>2. Process(e)
    BY <1>1 DEF Insert
  <2> QED
    BY <1>0, <2>1, <2>2, ExamineType
<1>2. CASE TakeOut(e)
  BY <1>0, <1>2 DEF TakeOut, TypeOK
<1>3. CASE Load(e)
  <2>1. UNCHANGED <<place, badges, observers>> /\ stage[e] = "loading"
    BY <1>3 DEF Load
  <2>2. place[e] # "gone"
    BY <1>0, <2>1 DEF GoneInv
  <2>3. CASE GetVerdicts(e)
    BY <1>0, <2>1, <2>2, <2>3, ExamineType DEF Examine
  <2>4. CASE stage' = [stage EXCEPT ![e] = "new"] /\ UNCHANGED asked
    BY <1>0, <2>1, <2>2, <2>4 DEF TypeOK
  <2> QED
    BY <1>3, <2>3, <2>4 DEF Load
<1>4. CASE Refresh(e)
  BY <1>0, <1>4, ExamineType DEF Refresh
<1>5. ASSUME NEW cats \in SUBSET Categories, NEW icons \in SUBSET cats,
             Answer(e, cats, icons), cats = {} \/ place[e] = "alone"
      PROVE  /\ UNCHANGED <<badges, observers, place, stage>> /\ place[e] # "gone"
             /\ asked' \in [Elements -> 0..MaxAsked]
             /\ \A d \in Elements \ {e} : asked'[d] = asked[d]
  <2>1. UNCHANGED <<badges, observers, place, stage>> /\ asked[e] > 0
        /\ asked' = [asked EXCEPT ![e] = asked[e] - 1]
    BY <1>5 DEF Answer
  <2>2. asked[e] \in 0..MaxAsked /\ asked[e] - 1 \in 0..MaxAsked
    BY <1>0, <2>1, BoundsAssumption DEF TypeOK
  <2>3. place[e] # "gone"
    BY <1>0, <2>1 DEF GoneInv
  <2> QED
    BY <1>0, <2>1, <2>2, <2>3 DEF TypeOK
<1>6. CASE \E cats \in SUBSET Categories : \E icons \in SUBSET cats :
              Answer(e, cats, icons) /\ (cats = {} \/ place[e] = "alone")
  BY <1>0, <1>5, <1>6 DEF TypeOK
<1> QED
  BY <1>1, <1>2, <1>3, <1>4, <1>6 DEF Quiet

-----------------------------------------------------------------------------
\* Two elements have no badge in common, so that what happens to the badges one finds
\* leaves those of the others alone.
LEMMA OwnBadges ==
    ASSUME BaseInv, NEW d \in Elements, NEW id \in Range(targetToBadges[d])
    PROVE  id \in DOMAIN badgeRegistry /\ badgeRegistry[id].target = d
BY DEF BaseInv, MapInv, Range

\* Ids that were given stay given.
LEMMA IdsGrow ==
    ASSUME NEW m \in Nat, NEW n \in Nat, m <= n
    PROVE  0..(m - 1) \subseteq 0..(n - 1)
OBVIOUS

\* The maps keep their type when one of them is replaced.
LEMMA MapsType ==
    ASSUME TypeOK, nextBadgeId' \in Nat, nextBadgeId <= nextBadgeId', NEW e \in Elements,
           NEW cats \in SUBSET Categories, NEW map \in [cats -> 0..(nextBadgeId' - 1)],
           targetToBadges' = [targetToBadges EXCEPT ![e] = map]
    PROVE  /\ DOMAIN targetToBadges' = Elements
           /\ \A d \in Elements : \E cs \in SUBSET Categories :
                 targetToBadges'[d] \in [cs -> 0..(nextBadgeId' - 1)]
<1>1. DOMAIN targetToBadges = Elements /\ nextBadgeId \in Nat
  BY DEF TypeOK
<1>2. ASSUME NEW d \in Elements
      PROVE  \E cs \in SUBSET Categories : targetToBadges'[d] \in [cs -> 0..(nextBadgeId' - 1)]
  <2>1. CASE d = e
    BY <1>1, <2>1
  <2>2. CASE d # e
    <3>1. PICK cs \in SUBSET Categories : targetToBadges[d] \in [cs -> 0..(nextBadgeId - 1)]
      BY DEF TypeOK
    <3>2. 0..(nextBadgeId - 1) \subseteq 0..(nextBadgeId' - 1)
      BY <1>1, IdsGrow
    <3>3. targetToBadges'[d] \in [cs -> 0..(nextBadgeId' - 1)]
      BY <1>1, <2>2, <3>1, <3>2
    <3> QED
      BY <3>3
  <2> QED
    BY <2>1, <2>2
<1> QED
  BY <1>1, <1>2

\* The map of an element without badges is a map.
LEMMA NoBadgesType == NoBadges \in [{} -> 0..(nextBadgeId' - 1)] /\ DOMAIN NoBadges = {}
BY DEF NoBadges

\* The answer of an element without badges is an answer.
LEMMA NothingType == Nothing \in Answers
BY DEF Nothing, Answers

\* An element that leaves takes its badges with it; those of the others stay.
LEMMA RemoveKeeps ==
    ASSUME BaseInv, NEW e \in Elements, NEW to \in {"alone", "limb"}, Remove(e, to)
    PROVE  BaseInv'
<1> DEFINE ids == Range(targetToBadges[e])
<1>1. /\ place[e] = "page" /\ place' = [place EXCEPT ![e] = to]
      /\ badgeRegistry' = [id \in DOMAIN badgeRegistry \ ids |-> badgeRegistry[id]]
      /\ targetToBadges' = [targetToBadges EXCEPT ![e] = NoBadges]
      /\ seen' = [seen EXCEPT ![e] = IF ids = {} THEN @ ELSE "unobserved"]
      /\ shown' = [shown EXCEPT ![e] = Nothing]
      /\ UNCHANGED <<stage, asked, nextBadgeId, finalizers, report, updateScheduled, apart>>
  BY DEF Remove, RemoveBadgesForTarget, Restrict
<1>2. /\ place \in [Elements -> {"page", "limb", "alone", "gone"}]
      /\ seen \in [Elements -> {"unobserved", "unseen", "in", "out"}]
      /\ shown \in [Elements -> Answers]
      /\ DOMAIN targetToBadges = Elements /\ nextBadgeId \in Nat
  BY DEF BaseInv, TypeOK
<1>3. /\ ids = {} => DOMAIN targetToBadges[e] = {}
      /\ \A d \in Elements \ {e} : ids \intersect Range(targetToBadges[d]) = {}
  BY OwnBadges DEF Range
<1> HIDE DEF ids
<1>4. /\ targetToBadges'[e] = NoBadges /\ DOMAIN targetToBadges'[e] = {}
      /\ Range(targetToBadges'[e]) = {}
      /\ \A d \in Elements \ {e} : /\ targetToBadges'[d] = targetToBadges[d]
                                   /\ seen'[d] = seen[d] /\ place'[d] = place[d]
  BY <1>1, <1>2, NoBadgesType DEF Range
<1>5. /\ DOMAIN badgeRegistry' = DOMAIN badgeRegistry \ ids
      /\ \A id \in DOMAIN badgeRegistry' : badgeRegistry'[id] = badgeRegistry[id]
  BY <1>1
<1>6. TypeOK'
  <2>1. /\ DOMAIN targetToBadges' = Elements
        /\ \A d \in Elements : \E cs \in SUBSET Categories :
              targetToBadges'[d] \in [cs -> 0..(nextBadgeId' - 1)]
    <3>1. TypeOK /\ nextBadgeId' \in Nat /\ nextBadgeId <= nextBadgeId'
          /\ {} \in SUBSET Categories /\ NoBadges \in [{} -> 0..(nextBadgeId' - 1)]
      BY <1>1, <1>2, NoBadgesType DEF BaseInv
    <3> QED
      BY <1>1, <3>1, MapsType
  <2> QED
    BY <1>1, <1>2, <1>5, <2>1, NothingType DEF BaseInv, TypeOK
<1>7. MapInv'
  BY <1>3, <1>4, <1>5 DEF BaseInv, MapInv, Range
<1>8. GoneInv'
  BY <1>1, <1>2, <1>4 DEF BaseInv, GoneInv
<1>9. FinalizerInv'
  BY <1>1, <1>5 DEF BaseInv, FinalizerInv
<1>10. SeenInv'
  <2> SUFFICES ASSUME NEW d \in Elements PROVE SeenOK(d)'
    BY DEF SeenInv
  <2>1. CASE d = e
    BY <1>1, <1>2, <1>3, <1>4, <2>1 DEF BaseInv, SeenInv, SeenOK
  <2>2. CASE d # e
    <3>1. \A id \in Range(targetToBadges[d]) : badgeRegistry'[id] = badgeRegistry[id]
      BY <1>3, <1>5, <2>2, OwnBadges
    <3> QED
      BY <1>1, <1>4, <2>2, <3>1 DEF BaseInv, SeenInv, SeenOK
  <2> QED
    BY <2>1, <2>2
<1>11. VisibleInv'
  <2> SUFFICES ASSUME NEW id \in DOMAIN badgeRegistry', badgeRegistry[id].visible,
                      place'[badgeRegistry[id].target] # "gone"
               PROVE  id \in Range(targetToBadges'[badgeRegistry[id].target])
    BY <1>5 DEF VisibleInv
  <2> DEFINE d == badgeRegistry[id].target
  <2>1. d \in Elements /\ id \in DOMAIN badgeRegistry /\ id \notin ids
    BY <1>5 DEF BaseInv, TypeOK, Records
  <2>2. place[d] # "gone"
    BY <1>1, <1>4, <2>1
  <2>3. id \in Range(targetToBadges[d])
    BY <2>1, <2>2 DEF BaseInv, VisibleInv
  <2>4. d # e
    BY <2>1, <2>3 DEF ids
  <2> QED
    BY <1>4, <2>1, <2>3, <2>4
<1>12. DrawnOrScheduled'
  <2>1. \A d \in Elements : place'[d] = "gone" => place[d] = "gone"
    BY <1>1, <1>2
  <2>2. \A id \in DOMAIN badgeRegistry : badgeRegistry[id].target \in Elements
    BY DEF BaseInv, TypeOK, Records
  <2> QED
    BY <1>1, <1>5, <2>1, <2>2 DEF BaseInv, DrawnOrScheduled
<1> QED
  BY <1>6, <1>7, <1>8, <1>9, <1>10, <1>11, <1>12 DEF BaseInv

\* What TypeOK says about the badges.
LEMMA BadgeType ==
    ASSUME BaseInv, NEW id \in DOMAIN badgeRegistry
    PROVE  /\ badgeRegistry[id] \in Records
           /\ badgeRegistry[id].target \in Elements /\ badgeRegistry[id].visible \in BOOLEAN
           /\ badgeRegistry[id].catIndex \in Nat
BY DEF BaseInv, TypeOK, Records

\* Scrolling puts every badge out of place and schedules an update.
LEMMA ScrollKeeps == ASSUME BaseInv, Scroll PROVE BaseInv'
<1>1. /\ badgeRegistry' = [id \in DOMAIN badgeRegistry |->
                              [badgeRegistry[id] EXCEPT !.drawn = Undrawn]]
      /\ updateScheduled' = TRUE
      /\ UNCHANGED <<place, stage, asked, targetToBadges, nextBadgeId, finalizers,
                     seen, report, shown, apart>>
  BY DEF Scroll
<1>2. /\ DOMAIN badgeRegistry' = DOMAIN badgeRegistry
      /\ \A id \in DOMAIN badgeRegistry :
            LET b == badgeRegistry[id] IN
            /\ badgeRegistry'[id] \in Records
            /\ badgeRegistry'[id].target = b.target
            /\ badgeRegistry'[id].category = b.category
            /\ badgeRegistry'[id].visible = b.visible
  <2>1. ASSUME NEW id \in DOMAIN badgeRegistry
        PROVE  LET b == badgeRegistry[id]
                   d == [b EXCEPT !.drawn = Undrawn]
               IN  /\ d \in Records /\ d.target = b.target /\ d.category = b.category
                   /\ d.visible = b.visible
    BY <2>1, BadgeType DEF Records
  <2> QED
    BY <1>1, <2>1
<1>3. TypeOK'
  BY <1>1, <1>2 DEF BaseInv, TypeOK
<1>4. MapInv'
  BY <1>1, <1>2 DEF BaseInv, MapInv
<1>5. GoneInv'
  BY <1>1 DEF BaseInv, GoneInv
<1>6. FinalizerInv'
  BY <1>1, <1>2 DEF BaseInv, FinalizerInv
<1>7. SeenInv'
  BY <1>1, <1>2, OwnBadges DEF BaseInv, SeenInv, SeenOK
<1>8. VisibleInv'
  BY <1>1, <1>2 DEF BaseInv, VisibleInv
<1>9. DrawnOrScheduled'
  BY <1>1 DEF DrawnOrScheduled
<1> QED
  BY <1>3, <1>4, <1>5, <1>6, <1>7, <1>8, <1>9 DEF BaseInv

\* An entry shows or hides all badges of its element's map, and no others.
LEMMA IntersectionKeeps ==
    ASSUME BaseInv, NEW e \in Elements, Intersection(e)
    PROVE  BaseInv'
<1> DEFINE mine == Range(targetToBadges[e])
<1>1. /\ report[e] # "none" /\ report' = [report EXCEPT ![e] = "none"]
      /\ badgeRegistry' = [id \in DOMAIN badgeRegistry |->
            IF id \in mine THEN [badgeRegistry[id] EXCEPT !.visible = report[e] = "in"]
            ELSE badgeRegistry[id]]
      /\ updateScheduled' = (updateScheduled \/ (report[e] = "in" /\ DOMAIN targetToBadges[e] # {}))
      /\ UNCHANGED <<place, stage, asked, targetToBadges, nextBadgeId, finalizers, seen, shown,
                     apart>>
  BY DEF Intersection
<1>2. /\ report \in [Elements -> {"none", "in", "out"}] /\ updateScheduled \in BOOLEAN
  BY DEF BaseInv, TypeOK
<1>3. \A d \in Elements \ {e} : mine \intersect Range(targetToBadges[d]) = {}
  BY OwnBadges
<1>4. \A id \in mine : id \in DOMAIN badgeRegistry /\ badgeRegistry[id].target = e
  BY OwnBadges
<1>5. mine # {} => DOMAIN targetToBadges[e] # {}
  BY DEF Range
<1> HIDE DEF mine
<1>6. /\ DOMAIN badgeRegistry' = DOMAIN badgeRegistry
      /\ \A id \in DOMAIN badgeRegistry :
            LET b == badgeRegistry[id] IN
            /\ badgeRegistry'[id] \in Records
            /\ badgeRegistry'[id].target = b.target
            /\ badgeRegistry'[id].category = b.category
            /\ id \notin mine => badgeRegistry'[id] = b
            /\ id \in mine => badgeRegistry'[id].visible = (report[e] = "in")
  <2> DEFINE now == report[e] = "in"
  <2>1. now \in BOOLEAN
    OBVIOUS
  <2>2. badgeRegistry' = [id \in DOMAIN badgeRegistry |->
           IF id \in mine THEN [badgeRegistry[id] EXCEPT !.visible = now] ELSE badgeRegistry[id]]
    BY <1>1
  <2>3. \A id \in mine : id \in DOMAIN badgeRegistry
    BY <1>4
  <2> HIDE DEF now
  <2>4. ASSUME NEW id \in DOMAIN badgeRegistry
        PROVE  LET b == badgeRegistry[id]
                   s == [b EXCEPT !.visible = now]
               IN  /\ b \in Records /\ s \in Records /\ s.target = b.target
                   /\ s.category = b.category /\ s.visible = now
    BY <2>1, BadgeType DEF Records
  <2>5. /\ DOMAIN badgeRegistry' = DOMAIN badgeRegistry
        /\ \A id \in DOMAIN badgeRegistry :
              LET b == badgeRegistry[id] IN
              /\ badgeRegistry'[id] \in Records
              /\ badgeRegistry'[id].target = b.target
              /\ badgeRegistry'[id].category = b.category
              /\ id \notin mine => badgeRegistry'[id] = b
              /\ id \in mine => badgeRegistry'[id].visible = now
    BY <2>2, <2>4
  <2> USE DEF now
  <2> QED
    BY <2>5
<1>7. TypeOK'
  <2>1. report' \in [Elements -> {"none", "in", "out"}] /\ updateScheduled' \in BOOLEAN
    BY <1>1, <1>2
  <2> QED
    BY <1>1, <1>6, <2>1 DEF BaseInv, TypeOK
<1>8. MapInv'
  BY <1>1, <1>6 DEF BaseInv, MapInv
<1>9. GoneInv'
  BY <1>1, <1>2 DEF BaseInv, GoneInv
<1>10. FinalizerInv'
  BY <1>1, <1>6 DEF BaseInv, FinalizerInv
<1>11. SeenInv'
  <2> SUFFICES ASSUME NEW d \in Elements PROVE SeenOK(d)'
    BY DEF SeenInv
  <2>1. SeenOK(d) /\ (updateScheduled => updateScheduled')
    BY <1>1 DEF BaseInv, SeenInv
  <2>2. CASE d = e
    <3>1. report'[e] = "none" /\ (seen[e] \in {"in", "out"} => report[e] = seen[e])
      BY <1>1, <1>2, <2>1, <2>2 DEF SeenOK
    <3>2. \A id \in Range(targetToBadges[e]) : badgeRegistry'[id].visible = (report[e] = "in")
      BY <1>4, <1>6 DEF mine
    <3> QED
      BY <1>1, <2>1, <2>2, <3>1, <3>2 DEF SeenOK
  <2>3. CASE d # e
    <3>1. report'[d] = report[d]
      BY <1>1, <1>2, <2>3
    <3>2. \A id \in Range(targetToBadges[d]) : badgeRegistry'[id] = badgeRegistry[id]
      BY <1>3, <1>6, <2>3, OwnBadges
    <3> QED
      BY <1>1, <2>1, <3>1, <3>2 DEF SeenOK
  <2> QED
    BY <2>2, <2>3
<1>12. VisibleInv'
  <2> SUFFICES ASSUME NEW id \in DOMAIN badgeRegistry, badgeRegistry'[id].visible,
                      place[badgeRegistry[id].target] # "gone"
               PROVE  id \in Range(targetToBadges[badgeRegistry[id].target])
    BY <1>1, <1>6 DEF VisibleInv
  <2>1. CASE id \in mine
    BY <1>4, <2>1 DEF mine
  <2>2. CASE id \notin mine
    BY <1>6, <2>2 DEF BaseInv, VisibleInv
  <2> QED
    BY <2>1, <2>2
<1>13. DrawnOrScheduled'
  <2> SUFFICES ASSUME NEW id \in DOMAIN badgeRegistry, badgeRegistry'[id].visible,
                      \/ badgeRegistry'[id].drawn # badgeRegistry'[id].catIndex
                      \/ place[badgeRegistry[id].target] = "gone"
               PROVE  updateScheduled'
    BY <1>1, <1>6 DEF DrawnOrScheduled
  <2>1. CASE id \in mine
    BY <1>1, <1>5, <1>6, <2>1
  <2>2. CASE id \notin mine
    BY <1>1, <1>6, <2>2 DEF BaseInv, DrawnOrScheduled
  <2> QED
    BY <2>1, <2>2
<1> QED
  BY <1>7, <1>8, <1>9, <1>10, <1>11, <1>12, <1>13 DEF BaseInv

\* When an element is collected, a badge of its own that could be seen is scheduled to go:
\* the element was off the page, so the badge is in its map and only an update that was
\* scheduled when it was made can still find it visible.
LEMMA CollectKeeps ==
    ASSUME BaseInv, NEW e \in Elements, Collect(e)
    PROVE  BaseInv'
<1>1. /\ place[e] = "alone" \/ (place[e] = "limb" /\ BadgesOf(e) = {})
      /\ asked[e] = 0 /\ stage[e] # "loading" /\ report[e] = "none"
      /\ place' = [place EXCEPT ![e] = "gone"]
      /\ badgeRegistry' = [id \in DOMAIN badgeRegistry \ finalizers[e] |-> badgeRegistry[id]]
      /\ targetToBadges' = [targetToBadges EXCEPT ![e] = NoBadges]
      /\ finalizers' = [finalizers EXCEPT ![e] = {}]
      /\ seen' = [seen EXCEPT ![e] = "unobserved"]
      /\ shown' = [shown EXCEPT ![e] = Nothing]
      /\ UNCHANGED <<stage, asked, nextBadgeId, report, updateScheduled, apart>>
  BY DEF Collect, Restrict
<1>2. /\ place \in [Elements -> {"page", "limb", "alone", "gone"}]
      /\ seen \in [Elements -> {"unobserved", "unseen", "in", "out"}]
      /\ finalizers \in [Elements -> SUBSET (0..(nextBadgeId - 1))]
      /\ shown \in [Elements -> Answers]
      /\ DOMAIN targetToBadges = Elements /\ nextBadgeId \in Nat
  BY DEF BaseInv, TypeOK
<1>3. /\ DOMAIN badgeRegistry' \subseteq DOMAIN badgeRegistry
      /\ \A id \in DOMAIN badgeRegistry' : badgeRegistry'[id] = badgeRegistry[id]
      /\ \A id \in DOMAIN badgeRegistry :
            badgeRegistry[id].target # e => id \in DOMAIN badgeRegistry'
  BY <1>1 DEF BaseInv, FinalizerInv
<1>4. /\ DOMAIN targetToBadges'[e] = {} /\ Range(targetToBadges'[e]) = {}
      /\ seen'[e] = "unobserved" /\ place'[e] = "gone"
      /\ \A d \in Elements \ {e} : /\ targetToBadges'[d] = targetToBadges[d]
                                   /\ seen'[d] = seen[d] /\ place'[d] = place[d]
                                   /\ finalizers'[d] = finalizers[d]
  BY <1>1, <1>2, NoBadgesType DEF Range
<1>5. TypeOK'
  <2>1. /\ DOMAIN targetToBadges' = Elements
        /\ \A d \in Elements : \E cs \in SUBSET Categories :
              targetToBadges'[d] \in [cs -> 0..(nextBadgeId' - 1)]
    <3>1. TypeOK /\ nextBadgeId' \in Nat /\ nextBadgeId <= nextBadgeId'
          /\ {} \in SUBSET Categories /\ NoBadges \in [{} -> 0..(nextBadgeId' - 1)]
      BY <1>1, <1>2, NoBadgesType DEF BaseInv
    <3> QED
      BY <1>1, <3>1, MapsType
  <2>2. finalizers' \in [Elements -> SUBSET (0..(nextBadgeId' - 1))]
    BY <1>1, <1>2
  <2> QED
    BY <1>1, <1>2, <1>3, <2>1, <2>2, NothingType DEF BaseInv, TypeOK
<1>6. \A d \in Elements \ {e} : \A id \in Range(targetToBadges[d]) :
         id \in DOMAIN badgeRegistry' /\ badgeRegistry'[id] = badgeRegistry[id]
  BY <1>3, OwnBadges
<1>7. MapInv'
  BY <1>3, <1>4, <1>6 DEF BaseInv, MapInv, Range
<1>8. GoneInv'
  BY <1>1, <1>4 DEF BaseInv, GoneInv
<1>9. FinalizerInv'
  BY <1>1, <1>2, <1>3, <1>4 DEF BaseInv, FinalizerInv
<1>10. SeenInv'
  <2> SUFFICES ASSUME NEW d \in Elements PROVE SeenOK(d)'
    BY DEF SeenInv
  <2>1. CASE d = e
    BY <1>1, <1>4, <2>1 DEF SeenOK
  <2>2. CASE d # e
    <3>1. \A id \in Range(targetToBadges[d]) : badgeRegistry'[id] = badgeRegistry[id]
      BY <1>6, <2>2
    <3>2. /\ targetToBadges'[d] = targetToBadges[d] /\ seen'[d] = seen[d]
          /\ place'[d] = place[d] /\ report'[d] = report[d]
          /\ updateScheduled' = updateScheduled /\ apart' = apart
      BY <1>1, <1>4, <2>2
    <3>3. SeenOK(d)
      BY DEF BaseInv, SeenInv
    <3> QED
      BY <3>1, <3>2, <3>3 DEF SeenOK
  <2> QED
    BY <2>1, <2>2
<1>11. VisibleInv'
  <2> SUFFICES ASSUME NEW id \in DOMAIN badgeRegistry', badgeRegistry[id].visible,
                      place'[badgeRegistry[id].target] # "gone"
               PROVE  id \in Range(targetToBadges'[badgeRegistry[id].target])
    BY <1>3 DEF VisibleInv
  <2>1. badgeRegistry[id].target \in Elements \ {e}
    BY <1>3, <1>4, BadgeType
  <2> QED
    BY <1>3, <1>4, <2>1 DEF BaseInv, VisibleInv
<1>12. DrawnOrScheduled'
  <2> SUFFICES ASSUME NEW id \in DOMAIN badgeRegistry', badgeRegistry[id].visible,
                      \/ badgeRegistry[id].drawn # badgeRegistry[id].catIndex
                      \/ place'[badgeRegistry[id].target] = "gone"
               PROVE  updateScheduled
    BY <1>1, <1>3 DEF DrawnOrScheduled
  <2> DEFINE d == badgeRegistry[id].target
  <2>1. d \in Elements /\ id \in DOMAIN badgeRegistry
    BY <1>3, BadgeType
  <2>2. CASE d # e
    BY <1>4, <2>1, <2>2 DEF BaseInv, DrawnOrScheduled
  <2>3. CASE d = e
    <3>1. id \in Range(targetToBadges[e]) /\ place[e] # "gone"
      BY <1>1, <2>1, <2>3 DEF BaseInv, VisibleInv
    <3>2. DOMAIN targetToBadges[e] # {}
      BY <3>1 DEF Range
    <3>3. place[e] = "alone"
      BY <1>1, <2>1, <2>3 DEF BadgesOf
    <3>4. SeenOK(e) /\ seen[e] \in {"unobserved", "unseen", "in", "out"}
      BY <1>2 DEF BaseInv, SeenInv
    <3> QED
      BY <1>1, <3>1, <3>2, <3>3, <3>4 DEF SeenOK
  <2> QED
    BY <2>2, <2>3
<1> QED
  BY <1>5, <1>7, <1>8, <1>9, <1>10, <1>11, <1>12 DEF BaseInv

-----------------------------------------------------------------------------
\* A frame that redraws puts what is visible in its place and drops what has lost its
\* element; one that does not redraw changes no badge.
LEMMA FrameRegistry ==
    ASSUME BaseInv, NEW onScreen, Frame(onScreen)
    PROVE  /\ DOMAIN badgeRegistry' \subseteq DOMAIN badgeRegistry
           /\ \A id \in DOMAIN badgeRegistry' :
                 /\ badgeRegistry'[id] \in Records
                 /\ badgeRegistry'[id].target = badgeRegistry[id].target
                 /\ badgeRegistry'[id].category = badgeRegistry[id].category
                 /\ badgeRegistry'[id].catIndex = badgeRegistry[id].catIndex
                 /\ badgeRegistry'[id].visible = badgeRegistry[id].visible
                 /\ updateScheduled /\ badgeRegistry'[id].visible =>
                       /\ badgeRegistry'[id].drawn = badgeRegistry'[id].catIndex
                       /\ place[badgeRegistry[id].target] # "gone"
           /\ \A id \in DOMAIN badgeRegistry :
                 place[badgeRegistry[id].target] # "gone" => id \in DOMAIN badgeRegistry'
           /\ ~updateScheduled => badgeRegistry' = badgeRegistry
<1>1. badgeRegistry' = IF updateScheduled THEN Redraw ELSE badgeRegistry
  BY DEF Frame
<1>2. CASE ~updateScheduled
  BY <1>1, <1>2, BadgeType
<1>3. CASE updateScheduled
  <2> DEFINE left == {i \in DOMAIN badgeRegistry :
                         badgeRegistry[i].visible => place[badgeRegistry[i].target] # "gone"}
  <2>1. badgeRegistry' = [id \in left |->
           IF badgeRegistry[id].visible
           THEN [badgeRegistry[id] EXCEPT !.drawn = badgeRegistry[id].catIndex]
           ELSE badgeRegistry[id]]
    BY <1>1, <1>3 DEF Redraw
  <2>2. ASSUME NEW id \in DOMAIN badgeRegistry
        PROVE  LET b == badgeRegistry[id]
                   d == [b EXCEPT !.drawn = badgeRegistry[id].catIndex]
               IN  /\ d \in Records /\ d.target = b.target /\ d.category = b.category
                   /\ d.visible = b.visible /\ d.catIndex = b.catIndex /\ d.drawn = d.catIndex
                   /\ b \in Records
    BY BadgeType DEF Records
  <2> HIDE DEF left
  <2>3. /\ DOMAIN badgeRegistry' = left
        /\ \A id \in left : badgeRegistry'[id] =
              IF badgeRegistry[id].visible
              THEN [badgeRegistry[id] EXCEPT !.drawn = badgeRegistry[id].catIndex]
              ELSE badgeRegistry[id]
    BY <2>1
  <2> USE DEF left
  <2> QED
    BY <1>3, <2>2, <2>3
<1> QED
  BY <1>2, <1>3

\* A frame: whoever is observed gets news, if there is any, and its entry with it.
LEMMA FrameKeeps ==
    ASSUME BaseInv, NEW onScreen, Frame(onScreen)
    PROVE  BaseInv'
<1> DEFINE watched == {d \in Elements : seen[d] # "unobserved"}
           now(d)  == IF d \in onScreen THEN "in" ELSE "out"
           news    == {d \in watched : seen[d] # now(d)}
<1>1. /\ onScreen \subseteq {d \in watched : place[d] = "page"}
      /\ updateScheduled' \in {FALSE, watched # {}}
      /\ seen' = [d \in Elements |-> IF d \in news THEN now(d) ELSE seen[d]]
      /\ report' = [d \in Elements |-> IF d \in news THEN now(d) ELSE report[d]]
      /\ UNCHANGED <<place, stage, asked, targetToBadges, nextBadgeId, finalizers, shown, apart>>
  BY DEF Frame
<1>2. /\ seen \in [Elements -> {"unobserved", "unseen", "in", "out"}]
      /\ report \in [Elements -> {"none", "in", "out"}]
  BY DEF BaseInv, TypeOK
<1>3. ASSUME NEW d \in Elements
      PROVE  /\ \/ seen[d] = "unobserved" /\ seen'[d] = "unobserved" /\ report'[d] = report[d]
                \/ seen'[d] = seen[d] /\ report'[d] = report[d] /\ seen[d] \in {"in", "out"}
                \/ seen'[d] \in {"in", "out"} /\ report'[d] = seen'[d] /\ seen[d] # "unobserved"
             /\ seen'[d] = "in" => place[d] = "page"
  BY <1>1, <1>2
<1>4. TypeOK'
  <2>1. seen' \in [Elements -> {"unobserved", "unseen", "in", "out"}]
        /\ report' \in [Elements -> {"none", "in", "out"}]
    BY <1>1, <1>2
  <2>2. updateScheduled' \in BOOLEAN
    BY <1>1
  <2>3. /\ DOMAIN badgeRegistry' \subseteq 0..(nextBadgeId' - 1)
        /\ \A id \in DOMAIN badgeRegistry' : badgeRegistry'[id] \in Records
    BY <1>1, FrameRegistry DEF BaseInv, TypeOK
  <2> QED
    BY <1>1, <2>1, <2>2, <2>3 DEF BaseInv, TypeOK
<1> HIDE DEF watched, now, news
<1>5. \A d \in Elements : \A id \in Range(targetToBadges[d]) :
         /\ id \in DOMAIN badgeRegistry'
         /\ badgeRegistry'[id].target = d
         /\ badgeRegistry'[id].category = badgeRegistry[id].category
         /\ badgeRegistry'[id].visible = badgeRegistry[id].visible
  <2>1. \A d \in Elements : Range(targetToBadges[d]) # {} => place[d] # "gone"
    BY DEF BaseInv, GoneInv, Range
  <2> QED
    BY <2>1, OwnBadges, FrameRegistry
<1>6. MapInv'
  BY <1>1, <1>5 DEF BaseInv, MapInv, Range
<1>7. GoneInv'
  BY <1>1, <1>3 DEF BaseInv, GoneInv
<1>8. FinalizerInv'
  BY <1>1, FrameRegistry DEF BaseInv, FinalizerInv
<1>9. SeenInv'
  <2> SUFFICES ASSUME NEW d \in Elements PROVE SeenOK(d)'
    BY DEF SeenInv
  <2>1. SeenOK(d)
    BY DEF BaseInv, SeenInv
  <2> QED
    BY <1>1, <1>3, <1>5, <2>1 DEF SeenOK
<1>10. VisibleInv'
  BY <1>1, FrameRegistry DEF BaseInv, VisibleInv
<1>11. DrawnOrScheduled'
  BY <1>1, FrameRegistry DEF BaseInv, DrawnOrScheduled
<1> QED
  BY <1>4, <1>6, <1>7, <1>8, <1>9, <1>10, <1>11 DEF BaseInv

-----------------------------------------------------------------------------
\* The badges createBadges leaves for an element: one per category that stays or
\* is new, at its place in the answer if there is an icon for it; a new one is visible
\* exactly if one of those that stay is.
LEMMA CreatedBadges ==
    ASSUME BaseInv, NEW e \in Elements, NEW cats \in SUBSET Categories,
           NEW icons \in SUBSET cats, CreateBadges(e, cats, icons)
    PROVE  LET old  == targetToBadges[e]
               new  == NewCats(e, icons)
               ids  == NewIds(new)
               kept == KeptCats(e, cats)
               Fresh(id, c) ==
                   /\ id \in DOMAIN badgeRegistry'
                   /\ badgeRegistry'[id] \in Records
                   /\ badgeRegistry'[id].target = e /\ badgeRegistry'[id].category = c
                   /\ c \in icons => badgeRegistry'[id].catIndex = CatIndex(c, cats)
           IN  /\ \A c \in new :
                     /\ Fresh(ids[c], c) /\ ids[c] \notin DOMAIN badgeRegistry
                     /\ ids[c] \in 0..(nextBadgeId' - 1)
                     /\ badgeRegistry'[ids[c]].visible
                        <=> \E d \in kept : badgeRegistry[old[d]].visible
               /\ \A c \in kept :
                     /\ Fresh(old[c], c) /\ old[c] \in DOMAIN badgeRegistry
                     /\ old[c] \in 0..(nextBadgeId' - 1)
                     /\ badgeRegistry'[old[c]].visible = badgeRegistry[old[c]].visible
               /\ nextBadgeId' \in 0..MaxBadges /\ nextBadgeId <= nextBadgeId'
               /\ new # {} => nextBadgeId \in 0..(nextBadgeId' - 1)
<1> DEFINE old  == targetToBadges[e]
           new  == NewCats(e, icons)
           ids  == NewIds(new)
           kept == KeptCats(e, cats)
           k    == Restrict(old, kept)
<1>1. /\ new \in SUBSET Categories /\ kept \subseteq DOMAIN old /\ kept \subseteq cats
      /\ new \subseteq cats /\ new \subseteq icons /\ nextBadgeId \in Nat /\ MaxBadges \in Nat
      /\ TypeOK /\ MapInv
      /\ \A c \in kept : old[c] \in 0..(nextBadgeId - 1)
  BY MapType, BoundsAssumption DEF NewCats, KeptCats, BaseInv
<1>2. DOMAIN k = kept /\ \A d \in kept : k[d] = old[d]
  BY DEF Restrict
<1>3. /\ \A c \in new : /\ ids[c] \in DOMAIN badgeRegistry' /\ ids[c] \notin DOMAIN badgeRegistry
                        /\ badgeRegistry'[ids[c]] = NewBadge(e, c, cats, k)
      /\ \A c \in kept : /\ old[c] \in DOMAIN badgeRegistry'
                         /\ badgeRegistry'[old[c]] = Renumber(badgeRegistry[old[c]], cats, icons)
  <2>1. TypeOK /\ MapInv
    BY DEF BaseInv
  <2>2. RegistryAfter(e, cats, icons)
    BY <2>1, Created
  <2> QED
    BY <2>2 DEF RegistryAfter
<1>4. nextBadgeId' = nextBadgeId + Cardinality(new) /\ nextBadgeId' <= MaxBadges
  BY CreatedRest
<1>5. /\ Cardinality(new) \in Nat /\ (new # {} => Cardinality(new) > 0)
      /\ \A c \in new : ids[c] \in nextBadgeId..(nextBadgeId + Cardinality(new) - 1)
  BY <1>1, NewIdsFresh
<1>6. \A c \in cats : CatIndex(c, cats) \in Nat
  <2>1. /\ Cardinality(cats) \in Nat
        /\ \A c \in cats : CatIndex(c, cats) \in 0..(Cardinality(cats) - 1)
    BY CatIndexOrder
  <2> QED
    BY <2>1
<1> HIDE DEF new, ids, kept, k
<1>7. /\ nextBadgeId' \in 0..MaxBadges /\ nextBadgeId <= nextBadgeId'
      /\ new # {} => nextBadgeId \in 0..(nextBadgeId' - 1)
      /\ \A c \in new : ids[c] \in 0..(nextBadgeId' - 1)
      /\ \A c \in kept : old[c] \in 0..(nextBadgeId' - 1)
  BY <1>1, <1>4, <1>5
<1>8. ASSUME NEW c \in new
      PROVE  LET b == badgeRegistry'[ids[c]] IN
             /\ b \in Records /\ b.target = e /\ b.category = c /\ b.catIndex = CatIndex(c, cats)
             /\ b.visible <=> \E d \in kept : badgeRegistry[old[d]].visible
  <2> DEFINE some == \E d \in DOMAIN k : badgeRegistry[k[d]].visible
  <2>1. some <=> \E d \in kept : badgeRegistry[old[d]].visible
    BY <1>2
  <2>2. badgeRegistry'[ids[c]] = [target |-> e, category |-> c, catIndex |-> CatIndex(c, cats),
                                  drawn |-> Undrawn, visible |-> some]
    BY <1>3 DEF NewBadge
  <2>3. some \in BOOLEAN /\ c \in Categories /\ CatIndex(c, cats) \in Nat
    BY <1>1, <1>6
  <2> HIDE DEF some
  <2>4. LET b == badgeRegistry'[ids[c]] IN
        /\ b \in Records /\ b.target = e /\ b.category = c /\ b.catIndex = CatIndex(c, cats)
        /\ b.visible = some
    BY <2>2, <2>3 DEF Records
  <2> QED
    BY <2>1, <2>4
<1>9. ASSUME NEW c \in kept
      PROVE  LET b == badgeRegistry'[old[c]] IN
             /\ b \in Records /\ b.target = e /\ b.category = c
             /\ c \in icons => b.catIndex = CatIndex(c, cats)
             /\ b.visible = badgeRegistry[old[c]].visible /\ old[c] \in DOMAIN badgeRegistry
  <2> DEFINE b == badgeRegistry[old[c]]
  <2>1. b.target = e /\ b.category = c /\ old[c] \in DOMAIN badgeRegistry
    BY <1>1 DEF MapInv
  <2> DEFINE index == IF c \in icons THEN CatIndex(c, cats) ELSE b.catIndex
  <2>2. b \in Records /\ index \in Nat
    BY <1>1, <1>6, <2>1, BadgeType
  <2>3. badgeRegistry'[old[c]] = [b EXCEPT !.catIndex = index]
    BY <1>3, <2>1 DEF Renumber
  <2>4. c \in icons => index = CatIndex(c, cats)
    OBVIOUS
  <2> HIDE DEF b, index
  <2>5. LET n == badgeRegistry'[old[c]] IN
        /\ n \in Records /\ n.target = b.target /\ n.category = b.category
        /\ n.catIndex = index /\ n.visible = b.visible
    BY <2>2, <2>3 DEF Records
  <2> QED
    BY <2>1, <2>4, <2>5 DEF b
<1> USE DEF new, ids, kept
<1> QED
  BY <1>3, <1>7, <1>8, <1>9

\* An answer that shows badges.  Those of other elements are not touched; the element's own
\* are in its map, unless none stayed and it had some; when none stays, the new ones are
\* hidden.
LEMMA CreateKeeps ==
    ASSUME BaseInv, NEW e \in Elements, NEW cats \in SUBSET Categories,
           NEW icons \in SUBSET cats, Answer(e, cats, icons), cats # {}, place[e] # "alone"
    PROVE  BaseInv'
<1> DEFINE old  == targetToBadges[e]
           new  == NewCats(e, icons)
           ids  == NewIds(new)
           kept == KeptCats(e, cats)
<1>1. /\ asked[e] > 0 /\ asked' = [asked EXCEPT ![e] = asked[e] - 1]
      /\ CreateBadges(e, cats, icons) /\ UNCHANGED <<place, stage, report>>
  BY DEF Answer
<1>2. /\ asked \in [Elements -> 0..MaxAsked] /\ asked' \in [Elements -> 0..MaxAsked]
      /\ seen \in [Elements -> {"unobserved", "unseen", "in", "out"}]
      /\ finalizers \in [Elements -> SUBSET (0..(nextBadgeId - 1))]
      /\ shown \in [Elements -> Answers]
      /\ DOMAIN targetToBadges = Elements /\ nextBadgeId \in Nat
      /\ TypeOK /\ MapInv /\ place[e] # "gone"
  <2>1. asked \in [Elements -> 0..MaxAsked] /\ asked[e] - 1 \in 0..MaxAsked
    BY <1>1, BoundsAssumption DEF BaseInv, TypeOK
  <2>2. place[e] # "gone"
    BY <1>1 DEF BaseInv, GoneInv
  <2> QED
    BY <1>1, <2>1, <2>2 DEF BaseInv, TypeOK
<1>3. /\ \A c \in new :
            LET id == ids[c] IN
            /\ id \in DOMAIN badgeRegistry' /\ id \notin DOMAIN badgeRegistry
            /\ id \in 0..(nextBadgeId' - 1)
            /\ badgeRegistry'[id] \in Records
            /\ badgeRegistry'[id].target = e /\ badgeRegistry'[id].category = c
            /\ badgeRegistry'[id].visible <=> \E d \in kept : badgeRegistry[old[d]].visible
      /\ \A c \in kept :
            LET id == old[c] IN
            /\ id \in DOMAIN badgeRegistry' /\ id \in DOMAIN badgeRegistry
            /\ id \in 0..(nextBadgeId' - 1)
            /\ badgeRegistry'[id] \in Records
            /\ badgeRegistry'[id].target = e /\ badgeRegistry'[id].category = c
            /\ badgeRegistry'[id].visible = badgeRegistry[id].visible
      /\ nextBadgeId' \in 0..MaxBadges /\ nextBadgeId <= nextBadgeId'
      /\ new # {} => nextBadgeId \in 0..(nextBadgeId' - 1)
  BY <1>1, CreatedBadges
<1>4. /\ \A id \in DOMAIN badgeRegistry \ Range(old) :
            id \in DOMAIN badgeRegistry' /\ badgeRegistry'[id] = badgeRegistry[id]
      /\ DOMAIN badgeRegistry' =
            {ids[c] : c \in new} \union {old[c] : c \in kept}
            \union (DOMAIN badgeRegistry \ Range(old))
  <2>1. RegistryAfter(e, cats, icons)
    BY <1>1, <1>2, Created
  <2> QED
    BY <2>1 DEF RegistryAfter
<1>5. PICK map : /\ targetToBadges' = [targetToBadges EXCEPT ![e] = map]
                 /\ kept = {} /\ DOMAIN old # {} => map = NoBadges
                 /\ kept # {} \/ DOMAIN old = {} =>
                       map = [c \in kept \union new |-> IF c \in new THEN ids[c] ELSE old[c]]
  <2>1. MapAfter(e, cats, icons)
    BY <1>1, CreatedRest
  <2> QED
    BY <2>1 DEF MapAfter
<1>6. /\ kept = {} /\ new # {} => finalizers' = [finalizers EXCEPT ![e] = @ \union {nextBadgeId}]
      /\ kept # {} \/ new = {} => UNCHANGED finalizers
      /\ updateScheduled' = TRUE
      /\ apart' = IF kept = {} /\ DOMAIN old # {} THEN apart \union {e} ELSE apart
      /\ shown' = [shown EXCEPT ![e] = IF e \in apart' THEN Nothing
                                       ELSE [cats |-> cats, icons |-> icons]]
  BY <1>1, CreatedRest
<1>7. PICK now : /\ seen' = [seen EXCEPT ![e] = now]
                 /\ kept # {} => now = seen[e]
                 /\ kept = {} /\ new = {} /\ DOMAIN old = {} => now = seen[e]
                 /\ kept = {} /\ new = {} /\ DOMAIN old # {} => now = "unobserved"
                 /\ kept = {} /\ new # {} /\ DOMAIN old # {} => now = "unseen"
                 /\ kept = {} /\ new # {} /\ DOMAIN old = {} =>
                       now = IF seen[e] = "unobserved" THEN "unseen" ELSE seen[e]
  <2>1. SeenAfter(e, cats, icons)
    BY <1>1, CreatedRest
  <2> QED
    BY <2>1 DEF SeenAfter
<1>8. now \in {"unobserved", "unseen", "in", "out"} /\ seen'[e] = now
  BY <1>2, <1>7
<1>9. new \intersect kept = {} /\ kept \subseteq DOMAIN old /\ kept \union new \in SUBSET Categories
      /\ new \in SUBSET Categories
  <2>1. DOMAIN old \subseteq Categories
    BY <1>2, MapType
  <2> QED
    BY <2>1 DEF NewCats, KeptCats
<1>10. \A d \in Elements \ {e} :
         /\ targetToBadges'[d] = targetToBadges[d] /\ seen'[d] = seen[d]
         /\ finalizers'[d] = finalizers[d]
         /\ \A id \in Range(targetToBadges[d]) :
               /\ id \in DOMAIN badgeRegistry \ Range(old)
               /\ badgeRegistry'[id] = badgeRegistry[id] /\ id \in DOMAIN badgeRegistry'
  BY <1>2, <1>4, <1>5, <1>6, <1>7, OwnBadges
<1>11. \A id \in DOMAIN badgeRegistry' :
         \/ \E c \in new : id = ids[c]
         \/ \E c \in kept : id = old[c]
         \/ id \in DOMAIN badgeRegistry \ Range(old) /\ badgeRegistry'[id] = badgeRegistry[id]
  BY <1>4
<1>12. \/ kept = {} /\ DOMAIN old # {} /\ map = NoBadges
       \/ /\ DOMAIN map = kept \union new
          /\ (\A c \in new : map[c] = ids[c]) /\ (\A c \in kept : map[c] = old[c])
  BY <1>5, <1>9
<1>13. \/ map \in [{} -> 0..(nextBadgeId' - 1)]
       \/ map \in [kept \union new -> 0..(nextBadgeId' - 1)]
  <2>1. CASE map = NoBadges
    BY <2>1, NoBadgesType
  <2>2. CASE kept # {} \/ DOMAIN old = {}
    BY <1>3, <1>5, <1>9, <2>2
  <2> QED
    BY <1>12, <2>1, <2>2, <1>5
<1>14. targetToBadges'[e] = map
  BY <1>2, <1>5
<1> HIDE DEF new, ids, kept
<1>15. TypeOK'
  <2>1. nextBadgeId' \in Nat
    BY <1>3, BoundsAssumption
  <2>2. /\ DOMAIN targetToBadges' = Elements
        /\ \A d \in Elements : \E cs \in SUBSET Categories :
              targetToBadges'[d] \in [cs -> 0..(nextBadgeId' - 1)]
    <3>1. CASE map \in [{} -> 0..(nextBadgeId' - 1)]
      <4>1. TypeOK /\ nextBadgeId' \in Nat /\ nextBadgeId <= nextBadgeId'
            /\ {} \in SUBSET Categories /\ map \in [{} -> 0..(nextBadgeId' - 1)]
            /\ targetToBadges' = [targetToBadges EXCEPT ![e] = map]
        BY <1>2, <1>3, <1>5, <2>1, <3>1
      <4> QED
        BY <4>1, MapsType
    <3>2. CASE map \in [kept \union new -> 0..(nextBadgeId' - 1)]
      <4>1. TypeOK /\ nextBadgeId' \in Nat /\ nextBadgeId <= nextBadgeId'
            /\ kept \union new \in SUBSET Categories
            /\ map \in [kept \union new -> 0..(nextBadgeId' - 1)]
            /\ targetToBadges' = [targetToBadges EXCEPT ![e] = map]
        BY <1>2, <1>3, <1>5, <1>9, <2>1, <3>2
      <4> QED
        BY <4>1, MapsType
    <3> QED
      BY <1>13, <3>1, <3>2
  <2>3. 0..(nextBadgeId - 1) \subseteq 0..(nextBadgeId' - 1)
    BY <1>2, <1>3, <2>1, IdsGrow
  <2>4. /\ DOMAIN badgeRegistry' \subseteq 0..(nextBadgeId' - 1)
        /\ \A id \in DOMAIN badgeRegistry' : badgeRegistry'[id] \in Records
    <3>1. \A id \in DOMAIN badgeRegistry :
             id \in 0..(nextBadgeId - 1) /\ badgeRegistry[id] \in Records
      BY <1>2 DEF TypeOK
    <3> QED
      BY <1>3, <1>11, <2>3, <3>1
  <2>5. finalizers' \in [Elements -> SUBSET (0..(nextBadgeId' - 1))]
    <3>1. finalizers[e] \subseteq 0..(nextBadgeId' - 1)
          /\ finalizers \in [Elements -> SUBSET (0..(nextBadgeId' - 1))]
      BY <1>2, <2>3
    <3>2. new # {} => nextBadgeId \in 0..(nextBadgeId' - 1)
      BY <1>3
    <3> QED
      BY <1>6, <3>1, <3>2
  <2>6. /\ seen' \in [Elements -> {"unobserved", "unseen", "in", "out"}]
        /\ shown' \in [Elements -> Answers]
        /\ updateScheduled' \in BOOLEAN /\ apart' \subseteq Elements
    <3>1. [cats |-> cats, icons |-> icons] \in Answers
      BY DEF Answers
    <3>2. apart \subseteq Elements
      BY <1>2 DEF TypeOK
    <3> QED
      BY <1>2, <1>6, <1>7, <1>8, <3>1, <3>2, NothingType
  <2>7. /\ place' \in [Elements -> {"page", "limb", "alone", "gone"}]
        /\ stage' \in [Elements -> {"new", "loading", "processed"}]
        /\ report' \in [Elements -> {"none", "in", "out"}]
    BY <1>1, <1>2 DEF TypeOK
  <2> QED
    BY <1>2, <1>3, <2>2, <2>4, <2>5, <2>6, <2>7 DEF TypeOK
<1>16. MapInv'
  <2> SUFFICES ASSUME NEW d \in Elements, NEW c \in DOMAIN targetToBadges'[d]
               PROVE  LET id == targetToBadges'[d][c] IN
                      /\ id \in DOMAIN badgeRegistry'
                      /\ badgeRegistry'[id].target = d /\ badgeRegistry'[id].category = c
    BY DEF MapInv
  <2>1. CASE d # e
    <3>1. targetToBadges[d][c] \in Range(targetToBadges[d])
      BY <1>10, <2>1 DEF Range
    <3> QED
      BY <1>2, <1>10, <2>1, <3>1 DEF MapInv
  <2>2. CASE d = e
    <3>1. map # NoBadges
      BY <1>14, <2>2, NoBadgesType
    <3> QED
      BY <1>3, <1>9, <1>12, <1>14, <2>2, <3>1
  <2> QED
    BY <2>1, <2>2
<1>17. GoneInv'
  BY <1>1, <1>2, <1>10 DEF BaseInv, GoneInv
<1>18. FinalizerInv'
  <2> SUFFICES ASSUME NEW d \in Elements, NEW id \in finalizers'[d],
                      id \in DOMAIN badgeRegistry'
               PROVE  badgeRegistry'[id].target = d
    BY DEF FinalizerInv
  <2>1. id \in finalizers[d] \/ (d = e /\ id = nextBadgeId)
    BY <1>2, <1>6, <1>10
  <2>2. ASSUME NEW c \in new, id = ids[c]
        PROVE  d = e
    <3>1. id \notin 0..(nextBadgeId - 1)
      <4>1. new \in SUBSET Categories
        BY DEF new, NewCats
      <4>2. \A x \in new : ids[x] \in nextBadgeId..(nextBadgeId + Cardinality(new) - 1)
                           /\ Cardinality(new) \in Nat
        BY <1>2, <4>1, NewIdsFresh DEF ids
      <4> QED
        BY <1>2, <2>2, <4>2
    <3> QED
      BY <1>2, <2>1, <3>1
  <2>3. nextBadgeId \notin DOMAIN badgeRegistry
    BY <1>2 DEF TypeOK
  <2>4. id \in DOMAIN badgeRegistry => badgeRegistry[id].target = d
    BY <2>1, <2>3 DEF BaseInv, FinalizerInv
  <2>5. \A c \in kept : old[c] \in DOMAIN badgeRegistry /\ badgeRegistry[old[c]].target = e
    BY <1>2, <1>9 DEF MapInv
  <2>6. CASE \E c \in new : id = ids[c]
    BY <1>3, <2>2, <2>6
  <2>7. CASE \E c \in kept : id = old[c]
    BY <1>3, <2>4, <2>5, <2>7
  <2>8. CASE id \in DOMAIN badgeRegistry /\ badgeRegistry'[id] = badgeRegistry[id]
    BY <2>4, <2>8
  <2> QED
    BY <1>11, <2>6, <2>7, <2>8
<1>19. SeenInv'
  <2> SUFFICES ASSUME NEW d \in Elements PROVE SeenOK(d)'
    BY DEF SeenInv
  <2>1. SeenOK(d)
    BY DEF BaseInv, SeenInv
  <2>2. CASE d # e
    <3>1. /\ targetToBadges'[d] = targetToBadges[d] /\ seen'[d] = seen[d]
          /\ \A id \in Range(targetToBadges[d]) : badgeRegistry'[id] = badgeRegistry[id]
      BY <1>10, <2>2
    <3> QED
      BY <1>1, <1>6, <2>1, <2>2, <3>1 DEF SeenOK
  <2>3. CASE d = e /\ kept = {}
    <3>1. CASE new = {}
      <4>1. DOMAIN map = {} /\ Range(map) = {}
        BY <1>12, <2>3, <3>1, NoBadgesType DEF Range
      <4>2. DOMAIN old = {} => now = seen[e] /\ apart' = apart
        BY <1>6, <1>7, <2>3, <3>1
      <4>3. DOMAIN old # {} => now = "unobserved"
        BY <1>7, <2>3, <3>1
      <4> QED
        BY <1>1, <1>6, <1>14, <1>8, <2>1, <2>3, <4>1, <4>2, <4>3 DEF SeenOK
    <3>2. CASE new # {}
      <4>1. \A id \in Range(map) : badgeRegistry'[id].visible = FALSE
        <5>1. ASSUME NEW c \in new PROVE badgeRegistry'[ids[c]].visible = FALSE
          <6>1. badgeRegistry'[ids[c]] \in Records
                /\ (badgeRegistry'[ids[c]].visible
                    <=> \E k \in kept : badgeRegistry[old[k]].visible)
            BY <1>3, <5>1
          <6>2. badgeRegistry'[ids[c]].visible \in BOOLEAN
            BY <6>1 DEF Records
          <6> QED
            BY <2>3, <6>1, <6>2
        <5>2. ASSUME NEW id \in Range(map) PROVE \E c \in new : id = ids[c]
          BY <1>12, <2>3, <5>2, NoBadgesType DEF Range
        <5> QED
          BY <5>1, <5>2
      <4>2. now # "unobserved"
        BY <1>7, <2>3, <3>2
      <4>3. now = "unseen" \/ (DOMAIN old = {} /\ now = seen[e] /\ seen[e] # "unobserved")
        BY <1>7, <2>3, <3>2
      <4>4. DOMAIN old = {} /\ seen[e] # "unobserved" => e \in apart
        BY <2>1, <2>3 DEF SeenOK
      <4>5. e \in apart => e \in apart'
        BY <1>6
      <4>6. DOMAIN map # {} \/ e \in apart'
        BY <1>6, <1>12, <2>3, <3>2
      <4>7. CASE now = "unseen"
        BY <1>1, <1>6, <1>14, <1>8, <2>3, <4>6, <4>7 DEF SeenOK
      <4>8. CASE now # "unseen"
        BY <1>1, <1>6, <1>14, <1>8, <2>1, <2>3, <4>1, <4>3, <4>4, <4>5, <4>8 DEF SeenOK
      <4> QED
        BY <4>7, <4>8
    <3> QED
      BY <3>1, <3>2
  <2>4. CASE d = e /\ kept # {}
    <3>1. DOMAIN old # {} /\ now = seen[e] /\ apart' = apart
      BY <1>6, <1>9, <1>7, <2>4
    <3>2. /\ DOMAIN map = kept \union new
          /\ (\A c \in new : map[c] = ids[c]) /\ (\A c \in kept : map[c] = old[c])
      BY <1>12, <2>4
    <3>3. DOMAIN map # {}
      BY <2>4, <3>2
    <3>4. \A c \in kept : old[c] \in Range(old)
      BY <1>9 DEF Range
    <3>5. ASSUME NEW v \in BOOLEAN, \A c \in kept : badgeRegistry[old[c]].visible = v,
                 NEW id \in Range(map)
          PROVE  badgeRegistry'[id].visible = v
      <4>1. PICK c \in kept \union new : id = map[c]
        BY <3>2, <3>5 DEF Range
      <4>2. CASE c \in kept
        BY <1>3, <3>2, <3>5, <4>1, <4>2
      <4>3. CASE c \in new
        <5>1. badgeRegistry'[id].visible <=> v
          <6>1. \E k \in kept : TRUE
            BY <2>4
          <6>2. id = ids[c]
            BY <3>2, <4>1, <4>3
          <6>3. badgeRegistry'[id].visible <=> \E k \in kept : badgeRegistry[old[k]].visible
            BY <1>3, <4>3, <6>2
          <6>4. (\E k \in kept : badgeRegistry[old[k]].visible) <=> v
            BY <3>5, <6>1
          <6> QED
            BY <6>3, <6>4
        <5>2. badgeRegistry'[id].visible \in BOOLEAN
          BY <1>3, <3>2, <4>1, <4>3 DEF Records
        <5> QED
          BY <5>1, <5>2
      <4> QED
        BY <4>1, <4>2, <4>3
    <3>6. \A c \in kept : badgeRegistry[old[c]].visible \in BOOLEAN
      BY <1>3, BadgeType
    <3>7. ASSUME seen[e] = "out", report[e] = "none"
          PROVE  \A id \in Range(map) : ~badgeRegistry'[id].visible
      <4>1. \A c \in kept : badgeRegistry[old[c]].visible = FALSE
        BY <2>1, <2>4, <3>4, <3>6, <3>7 DEF SeenOK
      <4> QED
        BY <3>5, <4>1
    <3>8. ASSUME seen[e] = "in", report[e] = "none", e \notin apart
          PROVE  \A id \in Range(map) : badgeRegistry'[id].visible
      <4>1. \A c \in kept : badgeRegistry[old[c]].visible = TRUE
        BY <2>1, <2>4, <3>4, <3>6, <3>8 DEF SeenOK
      <4> QED
        BY <3>5, <4>1
    <3> QED
      BY <1>1, <1>6, <1>14, <1>8, <2>1, <2>4, <3>1, <3>3, <3>7, <3>8 DEF SeenOK
  <2> QED
    BY <2>2, <2>3, <2>4
<1>20. VisibleInv'
  <2> SUFFICES ASSUME NEW id \in DOMAIN badgeRegistry', badgeRegistry'[id].visible,
                      place'[badgeRegistry'[id].target] # "gone"
               PROVE  id \in Range(targetToBadges'[badgeRegistry'[id].target])
    BY DEF VisibleInv
  <2>1. CASE id \in DOMAIN badgeRegistry \ Range(old) /\ badgeRegistry'[id] = badgeRegistry[id]
    <3>1. badgeRegistry[id].target \in Elements
      BY <2>1, BadgeType
    <3>2. id \in Range(targetToBadges[badgeRegistry[id].target])
      BY <1>1, <2>1 DEF BaseInv, VisibleInv
    <3>3. badgeRegistry[id].target # e
      BY <2>1, <3>2
    <3> QED
      BY <1>10, <2>1, <3>1, <3>2, <3>3
  <2>2. CASE \E c \in kept \union new : id = IF c \in new THEN ids[c] ELSE old[c]
    <3>1. PICK c \in kept \union new : id = IF c \in new THEN ids[c] ELSE old[c]
      BY <2>2
    <3>2. kept # {} /\ badgeRegistry'[id].target = e
      BY <1>3, <1>9, <3>1
    <3>3. c \in DOMAIN map /\ map[c] = id
      BY <1>9, <1>12, <3>1, <3>2
    <3> QED
      BY <1>14, <3>2, <3>3 DEF Range
  <2>3. (\E c \in new : id = ids[c]) \/ (\E c \in kept : id = old[c])
        => \E c \in kept \union new : id = IF c \in new THEN ids[c] ELSE old[c]
    BY <1>9
  <2> QED
    BY <1>11, <2>1, <2>2, <2>3
<1>21. DrawnOrScheduled'
  BY <1>6 DEF DrawnOrScheduled
<1> QED
  BY <1>15, <1>16, <1>17, <1>18, <1>19, <1>20, <1>21 DEF BaseInv

\* At the start there is no badge and nobody knows an element.
LEMMA BaseInit == ASSUME Init PROVE BaseInv
<1>1. /\ DOMAIN badgeRegistry = {} /\ DOMAIN targetToBadges = Elements
      /\ \A e \in Elements : DOMAIN targetToBadges[e] = {} /\ Range(targetToBadges[e]) = {}
  BY DEF Init, NoBadges, Range
<1>2. TypeOK
  <2>1. \A e \in Elements : targetToBadges[e] \in [{} -> 0..(nextBadgeId - 1)]
    BY DEF Init, NoBadges
  <2>2. \A e \in Elements : \E cats \in SUBSET Categories :
           targetToBadges[e] \in [cats -> 0..(nextBadgeId - 1)]
    BY <2>1
  <2>3. nextBadgeId \in 0..MaxBadges /\ finalizers \in [Elements -> SUBSET (0..(nextBadgeId - 1))]
    BY BoundsAssumption DEF Init
  <2>4. /\ place \in [Elements -> {"page", "limb", "alone", "gone"}]
        /\ stage \in [Elements -> {"new", "loading", "processed"}]
        /\ asked \in [Elements -> 0..MaxAsked]
    BY BoundsAssumption DEF Init
  <2>5. /\ seen \in [Elements -> {"unobserved", "unseen", "in", "out"}]
        /\ report \in [Elements -> {"none", "in", "out"}]
        /\ updateScheduled \in BOOLEAN
        /\ shown \in [Elements -> Answers] /\ apart \subseteq Elements
    BY NothingType DEF Init
  <2> QED
    BY <1>1, <2>2, <2>3, <2>4, <2>5 DEF TypeOK
<1>3. MapInv /\ GoneInv /\ FinalizerInv /\ VisibleInv /\ DrawnOrScheduled
  BY <1>1 DEF Init, MapInv, GoneInv, FinalizerInv, VisibleInv, DrawnOrScheduled
<1>4. SeenInv
  BY <1>1 DEF Init, SeenInv, SeenOK
<1> QED
  BY <1>2, <1>3, <1>4 DEF BaseInv

\* A step is one of those treated above, or leaves everything as it is.
LEMMA BaseStep == ASSUME BaseInv, [Next]_vars PROVE BaseInv'
<1>1. CASE UNCHANGED vars
  BY <1>1 DEF BaseInv, TypeOK, MapInv, GoneInv, FinalizerInv, SeenInv, SeenOK, VisibleInv,
      DrawnOrScheduled, vars, badges, observers
<1>2. ASSUME NEW e \in Elements, Quiet(e) PROVE BaseInv'
  <2>1. /\ UNCHANGED <<badges, observers>>
        /\ place' \in [Elements -> {"page", "limb", "alone", "gone"}]
        /\ stage' \in [Elements -> {"new", "loading", "processed"}]
        /\ asked' \in [Elements -> 0..MaxAsked]
        /\ \A d \in Elements \ {e} : place'[d] = place[d] /\ stage'[d] = stage[d]
                                     /\ asked'[d] = asked[d]
        /\ place[e] # "gone" /\ place'[e] # "gone"
        /\ place[e] = "page" => place'[e] = "page"
    BY <1>2, QuietStep
  <2> QED
    BY <2>1, QuietKeeps
<1>3. ASSUME NEW e \in Elements, NEW cats \in SUBSET Categories, NEW icons \in SUBSET cats,
             Answer(e, cats, icons)
      PROVE  BaseInv'
  <2>1. CASE cats = {} \/ place[e] = "alone"
    BY <1>2, <1>3, <2>1 DEF Quiet
  <2>2. CASE cats # {} /\ place[e] # "alone"
    BY <1>3, <2>2, CreateKeeps
  <2> QED
    BY <2>1, <2>2
<1>4. ASSUME NEW e \in Elements,
             \/ Insert(e) \/ TakeOut(e) \/ Load(e) \/ Refresh(e) \/ Intersection(e) \/ Collect(e)
             \/ \E to \in {"alone", "limb"} : Remove(e, to)
             \/ \E cats \in SUBSET Categories : \E none \in SUBSET (cats \intersect Iconless) :
                   Answer(e, cats, cats \ none)
      PROVE  BaseInv'
  BY <1>2, <1>3, <1>4, IntersectionKeeps, CollectKeeps, RemoveKeeps DEF Quiet
<1>5. ASSUME NEW onScreen \in SUBSET Elements, Frame(onScreen) PROVE BaseInv'
  BY <1>5, FrameKeeps
<1> QED
  BY <1>1, <1>4, <1>5, ScrollKeeps DEF Next

\* The base holds in every state, whatever lookups answer.
THEOREM BaseInductive == Spec => []BaseInv
<1>1. Init => BaseInv
  BY BaseInit
<1>2. BaseInv /\ [Next]_vars => BaseInv'
  BY BaseStep
<1> QED
  BY <1>1, <1>2, PTL DEF Spec

\* The type invariant.
THEOREM TypeCorrect == Spec => []TypeOK
<1>1. BaseInv => TypeOK
  BY DEF BaseInv
<1> QED
  BY <1>1, BaseInductive, PTL

\* No visible badge is out of place for longer than a frame, nor stays when its image has
\* been collected, whatever lookups answer: each way to make a badge visible, to move it or
\* to lose its image schedules an update or comes when one is scheduled
\* (content.js:700-742, scheduleUpdate and its callers).
THEOREM AlwaysDrawnOrScheduled == Spec => []DrawnOrScheduled
<1>1. BaseInv => DrawnOrScheduled
  BY DEF BaseInv
<1> QED
  BY <1>1, BaseInductive, PTL

-----------------------------------------------------------------------------
\* An element's map leads to all its badges, one for each category of the answer it shows
\* that has an icon, at its place in the answer, and none for other categories.  What is left
\* of the badges of a collected element still has one per category.
HeldOK(e) ==
    e \notin apart =>
        /\ place[e] # "gone" =>
              /\ BadgesOf(e) \subseteq Range(targetToBadges[e])
              /\ shown[e].icons \subseteq DOMAIN targetToBadges[e]
              /\ DOMAIN targetToBadges[e] \subseteq shown[e].cats
              /\ \A id \in BadgesOf(e) : badgeRegistry[id].category \in shown[e].icons =>
                    badgeRegistry[id].catIndex
                    = CatIndex(badgeRegistry[id].category, shown[e].cats)
        /\ \A i, j \in BadgesOf(e) :
              badgeRegistry[i].category = badgeRegistry[j].category => i = j

HeldInv == \A e \in Elements : HeldOK(e)

\* An element keeps this when no badge of its own is new or changes category or place.
LEMMA HeldStays ==
    ASSUME NEW e \in Elements, HeldOK(e),
           targetToBadges'[e] = targetToBadges[e], shown'[e] = shown[e],
           e \in apart => e \in apart',
           place[e] = "gone" => place'[e] = "gone",
           \A id \in DOMAIN badgeRegistry' : badgeRegistry'[id].target = e =>
              /\ id \in DOMAIN badgeRegistry /\ badgeRegistry[id].target = e
              /\ badgeRegistry'[id].category = badgeRegistry[id].category
              /\ badgeRegistry'[id].catIndex = badgeRegistry[id].catIndex
    PROVE  HeldOK(e)'
<1>1. \A id \in BadgesOf(e)' :
         /\ id \in BadgesOf(e)
         /\ badgeRegistry'[id].category = badgeRegistry[id].category
         /\ badgeRegistry'[id].catIndex = badgeRegistry[id].catIndex
  BY DEF BadgesOf
<1>2. CASE place'[e] = "gone"
  BY <1>1, <1>2 DEF HeldOK
<1>3. CASE place'[e] # "gone"
  BY <1>1, <1>3 DEF HeldOK
<1> QED
  BY <1>2, <1>3

\* An element that has no badge and shows no answer holds none.
LEMMA HeldNone ==
    ASSUME NEW e \in Elements, BadgesOf(e)' = {},
           DOMAIN targetToBadges'[e] = {}, shown'[e] = Nothing
    PROVE  HeldOK(e)'
BY DEF HeldOK, Nothing

\* A removed element holds no badge, the others what they held.
LEMMA RemoveHeld ==
    ASSUME BaseInv, HeldInv, NEW e \in Elements, NEW to \in {"alone", "limb"}, Remove(e, to)
    PROVE  HeldInv'
<1> DEFINE ids == Range(targetToBadges[e])
<1>1. /\ place[e] = "page" /\ place' = [place EXCEPT ![e] = to]
      /\ badgeRegistry' = [id \in DOMAIN badgeRegistry \ ids |-> badgeRegistry[id]]
      /\ targetToBadges' = [targetToBadges EXCEPT ![e] = NoBadges]
      /\ shown' = [shown EXCEPT ![e] = Nothing] /\ apart' = apart
  BY DEF Remove, RemoveBadgesForTarget, Restrict
<1>2. /\ place \in [Elements -> {"page", "limb", "alone", "gone"}]
      /\ shown \in [Elements -> Answers] /\ DOMAIN targetToBadges = Elements
  BY DEF BaseInv, TypeOK
<1> SUFFICES ASSUME NEW d \in Elements PROVE HeldOK(d)'
  BY DEF HeldInv
<1>4. HeldOK(d)
  BY DEF HeldInv
<1>5. CASE d = e
  <2>1. CASE e \in apart
    BY <1>1, <1>5, <2>1 DEF HeldOK
  <2>2. CASE e \notin apart
    <3>1. BadgesOf(e) \subseteq ids
      BY <1>1, <1>4, <1>5, <2>2 DEF HeldOK
    <3> HIDE DEF ids
    <3>2. BadgesOf(e)' = {}
      BY <1>1, <3>1 DEF BadgesOf
    <3>3. DOMAIN targetToBadges'[e] = {} /\ shown'[e] = Nothing
      BY <1>1, <1>2, NoBadgesType
    <3> QED
      BY <1>5, <3>2, <3>3, HeldNone
  <2> QED
    BY <2>1, <2>2
<1>6. CASE d # e
  <2> HIDE DEF ids
  <2>1. /\ targetToBadges'[d] = targetToBadges[d] /\ shown'[d] = shown[d]
        /\ apart' = apart /\ place'[d] = place[d]
        /\ \A id \in DOMAIN badgeRegistry' : /\ id \in DOMAIN badgeRegistry
                                             /\ badgeRegistry'[id] = badgeRegistry[id]
    BY <1>1, <1>2, <1>6
  <2> QED
    BY <1>4, <2>1, HeldStays
<1> QED
  BY <1>5, <1>6

\* A collected element may leave badges, but no new ones; the others hold what they held.
LEMMA CollectHeld ==
    ASSUME BaseInv, HeldInv, NEW e \in Elements, Collect(e)
    PROVE  HeldInv'
<1>1. /\ place' = [place EXCEPT ![e] = "gone"]
      /\ badgeRegistry' = [id \in DOMAIN badgeRegistry \ finalizers[e] |-> badgeRegistry[id]]
      /\ targetToBadges' = [targetToBadges EXCEPT ![e] = NoBadges]
      /\ shown' = [shown EXCEPT ![e] = Nothing] /\ apart' = apart
  BY DEF Collect, Restrict
<1>2. /\ place \in [Elements -> {"page", "limb", "alone", "gone"}]
      /\ shown \in [Elements -> Answers] /\ DOMAIN targetToBadges = Elements
  BY DEF BaseInv, TypeOK
<1> SUFFICES ASSUME NEW d \in Elements PROVE HeldOK(d)'
  BY DEF HeldInv
<1>3. HeldOK(d)
  BY DEF HeldInv
<1>4. \A id \in DOMAIN badgeRegistry' : /\ id \in DOMAIN badgeRegistry
                                        /\ badgeRegistry'[id] = badgeRegistry[id]
  BY <1>1
<1>5. CASE d = e
  <2>1. place'[d] = "gone" /\ apart' = apart
    BY <1>1, <1>2, <1>5
  <2>2. \A id \in BadgesOf(d)' : id \in BadgesOf(d) /\ badgeRegistry'[id] = badgeRegistry[id]
    BY <1>4 DEF BadgesOf
  <2> QED
    BY <1>3, <2>1, <2>2 DEF HeldOK
<1>6. CASE d # e
  <2>1. /\ targetToBadges'[d] = targetToBadges[d] /\ shown'[d] = shown[d]
        /\ apart' = apart /\ place'[d] = place[d]
    BY <1>1, <1>2, <1>6
  <2> QED
    BY <1>3, <1>4, <2>1, HeldStays
<1> QED
  BY <1>5, <1>6

\* Frames, entries and scrolling change which badges are visible and where they are drawn,
\* never whose they are, their category or their place; a frame drops badges only.
LEMMA DrawnHeld ==
    ASSUME BaseInv, HeldInv,
           \/ \E e \in Elements : Intersection(e)
           \/ \E onScreen \in SUBSET Elements : Frame(onScreen)
           \/ Scroll
    PROVE  HeldInv'
<1> SUFFICES ASSUME NEW d \in Elements PROVE HeldOK(d)'
  BY DEF HeldInv
<1>0. HeldOK(d) /\ \A id \in DOMAIN badgeRegistry : badgeRegistry[id] \in Records
  BY BadgeType DEF HeldInv
<1>1. ASSUME NEW e \in Elements, Intersection(e) PROVE HeldOK(d)'
  <2> DEFINE now == report[e] = "in"
  <2>1. /\ badgeRegistry' = [id \in DOMAIN badgeRegistry |->
              IF id \in Range(targetToBadges[e]) THEN [badgeRegistry[id] EXCEPT !.visible = now]
              ELSE badgeRegistry[id]]
        /\ UNCHANGED <<place, targetToBadges, shown, apart>>
    BY <1>1 DEF Intersection
  <2> HIDE DEF now
  <2>2. ASSUME NEW id \in DOMAIN badgeRegistry
        PROVE  LET b == badgeRegistry[id]
                   s == [b EXCEPT !.visible = now]
               IN  s.target = b.target /\ s.category = b.category /\ s.catIndex = b.catIndex
    BY <1>0 DEF Records
  <2>3. \A id \in DOMAIN badgeRegistry' :
           /\ id \in DOMAIN badgeRegistry
           /\ badgeRegistry'[id].target = badgeRegistry[id].target
           /\ badgeRegistry'[id].category = badgeRegistry[id].category
           /\ badgeRegistry'[id].catIndex = badgeRegistry[id].catIndex
    BY <2>1, <2>2
  <2> QED
    BY <1>0, <2>1, <2>3, HeldStays
<1>2. ASSUME NEW onScreen \in SUBSET Elements, Frame(onScreen) PROVE HeldOK(d)'
  <2>1. UNCHANGED <<place, targetToBadges, shown, apart>>
    BY <1>2 DEF Frame
  <2>2. \A id \in DOMAIN badgeRegistry' :
           /\ id \in DOMAIN badgeRegistry
           /\ badgeRegistry'[id].target = badgeRegistry[id].target
           /\ badgeRegistry'[id].category = badgeRegistry[id].category
           /\ badgeRegistry'[id].catIndex = badgeRegistry[id].catIndex
    BY <1>2, FrameRegistry
  <2> QED
    BY <1>0, <2>1, <2>2, HeldStays
<1>3. ASSUME Scroll PROVE HeldOK(d)'
  <2>1. /\ badgeRegistry' = [id \in DOMAIN badgeRegistry |->
                                [badgeRegistry[id] EXCEPT !.drawn = Undrawn]]
        /\ UNCHANGED <<place, targetToBadges, shown, apart>>
    BY <1>3 DEF Scroll
  <2>2. ASSUME NEW id \in DOMAIN badgeRegistry
        PROVE  LET b == badgeRegistry[id]
                   s == [b EXCEPT !.drawn = Undrawn]
               IN  s.target = b.target /\ s.category = b.category /\ s.catIndex = b.catIndex
    BY <1>0 DEF Records
  <2>3. \A id \in DOMAIN badgeRegistry' :
           /\ id \in DOMAIN badgeRegistry
           /\ badgeRegistry'[id].target = badgeRegistry[id].target
           /\ badgeRegistry'[id].category = badgeRegistry[id].category
           /\ badgeRegistry'[id].catIndex = badgeRegistry[id].catIndex
    BY <2>1, <2>2
  <2> QED
    BY <1>0, <2>1, <2>3, HeldStays
<1> QED
  BY <1>1, <1>2, <1>3

\* An answer leaves the element with one badge for each of its own categories that has an
\* icon, all of them in the map, and with none of another category, unless it has no category
\* in common with the badges there are.
LEMMA CreateHeld ==
    ASSUME BaseInv, HeldInv, NEW e \in Elements, NEW cats \in SUBSET Categories,
           NEW icons \in SUBSET cats, Answer(e, cats, icons), cats # {}, place[e] # "alone"
    PROVE  HeldInv'
<1> DEFINE old  == targetToBadges[e]
           new  == NewCats(e, icons)
           ids  == NewIds(new)
           kept == KeptCats(e, cats)
<1>1. /\ CreateBadges(e, cats, icons) /\ place' = place
      /\ TypeOK /\ MapInv /\ HeldOK(e) /\ place[e] # "gone"
      /\ shown \in [Elements -> Answers] /\ DOMAIN targetToBadges = Elements
  <2>1. asked[e] > 0 /\ CreateBadges(e, cats, icons) /\ place' = place
    BY DEF Answer
  <2>2. place[e] # "gone"
    BY <2>1 DEF BaseInv, GoneInv
  <2> QED
    BY <2>1, <2>2 DEF BaseInv, TypeOK, HeldInv
<1>2. /\ apart' = IF kept = {} /\ DOMAIN old # {} THEN apart \union {e} ELSE apart
      /\ shown' = [shown EXCEPT ![e] = IF e \in apart' THEN Nothing
                                       ELSE [cats |-> cats, icons |-> icons]]
  BY <1>1, CreatedRest
<1>3. /\ \A c \in new :
            /\ ids[c] \in DOMAIN badgeRegistry'
            /\ badgeRegistry'[ids[c]].target = e /\ badgeRegistry'[ids[c]].category = c
            /\ c \in icons => badgeRegistry'[ids[c]].catIndex = CatIndex(c, cats)
      /\ \A c \in kept :
            /\ old[c] \in DOMAIN badgeRegistry'
            /\ badgeRegistry'[old[c]].target = e /\ badgeRegistry'[old[c]].category = c
            /\ c \in icons => badgeRegistry'[old[c]].catIndex = CatIndex(c, cats)
  BY <1>1, CreatedBadges
<1>4. /\ \A id \in DOMAIN badgeRegistry \ Range(old) :
            id \in DOMAIN badgeRegistry' /\ badgeRegistry'[id] = badgeRegistry[id]
      /\ DOMAIN badgeRegistry' =
            {ids[c] : c \in new} \union {old[c] : c \in kept}
            \union (DOMAIN badgeRegistry \ Range(old))
  <2>1. RegistryAfter(e, cats, icons)
    BY <1>1, Created
  <2> QED
    BY <2>1 DEF RegistryAfter
<1>5. PICK map : /\ targetToBadges' = [targetToBadges EXCEPT ![e] = map]
                 /\ kept # {} \/ DOMAIN old = {} =>
                       map = [c \in kept \union new |-> IF c \in new THEN ids[c] ELSE old[c]]
  <2>1. MapAfter(e, cats, icons)
    BY <1>1, CreatedRest
  <2> QED
    BY <2>1 DEF MapAfter
<1>6. /\ icons \subseteq kept \union new /\ kept \union new \subseteq cats
      /\ new \intersect kept = {}
  BY DEF NewCats, KeptCats
<1> SUFFICES ASSUME NEW d \in Elements PROVE HeldOK(d)'
  BY DEF HeldInv
<1> HIDE DEF new, ids, kept
<1>7. CASE d = e /\ e \in apart'
  BY <1>7 DEF HeldOK
<1>8. CASE d = e /\ e \notin apart'
  <2>0. e \notin apart /\ (kept # {} \/ DOMAIN old = {})
    BY <1>2, <1>8
  <2>1. /\ targetToBadges'[e] = map /\ DOMAIN map = kept \union new
        /\ shown'[e].cats = cats /\ shown'[e].icons = icons
        /\ \A c \in new : map[c] = ids[c]
        /\ \A c \in kept : map[c] = old[c]
    BY <1>1, <1>2, <1>5, <1>6, <1>8, <2>0
  <2>2. BadgesOf(e) \subseteq Range(old)
    BY <1>1, <2>0 DEF HeldOK
  <2>3. ASSUME NEW id \in BadgesOf(e)'
        PROVE  \E c \in kept \union new :
                  /\ id = map[c] /\ badgeRegistry'[id].category = c
                  /\ c \in icons => badgeRegistry'[id].catIndex = CatIndex(c, cats)
    <3>1. id \in DOMAIN badgeRegistry' /\ badgeRegistry'[id].target = e
      BY <2>3 DEF BadgesOf
    <3>2. CASE id \in DOMAIN badgeRegistry \ Range(old)
      <4>1. badgeRegistry[id].target = e
        BY <1>4, <3>1, <3>2
      <4> QED
        BY <2>2, <3>2, <4>1 DEF BadgesOf
    <3>3. CASE \E c \in new : id = ids[c]
      BY <1>3, <2>1, <3>3
    <3>4. CASE \E c \in kept : id = old[c]
      BY <1>3, <2>1, <3>4
    <3> QED
      BY <1>4, <3>1, <3>2, <3>3, <3>4
  <2>4. BadgesOf(e)' \subseteq Range(map)
    BY <2>1, <2>3 DEF Range
  <2>5. \A id \in BadgesOf(e)' : badgeRegistry'[id].category \in icons =>
           badgeRegistry'[id].catIndex = CatIndex(badgeRegistry'[id].category, cats)
    BY <2>3
  <2>6. \A i, j \in BadgesOf(e)' :
           badgeRegistry'[i].category = badgeRegistry'[j].category => i = j
    <3> SUFFICES ASSUME NEW i \in BadgesOf(e)', NEW j \in BadgesOf(e)',
                        badgeRegistry'[i].category = badgeRegistry'[j].category
                 PROVE  i = j
      OBVIOUS
    <3>1. PICK c \in kept \union new : i = map[c] /\ badgeRegistry'[i].category = c
      BY <2>3
    <3>2. PICK b \in kept \union new : j = map[b] /\ badgeRegistry'[j].category = b
      BY <2>3
    <3> QED
      BY <3>1, <3>2
  <2>7. icons \subseteq DOMAIN map /\ DOMAIN map \subseteq cats
    BY <1>6, <2>1
  <2> QED
    BY <1>8, <2>1, <2>4, <2>5, <2>6, <2>7 DEF HeldOK
<1>9. CASE d # e
  <2>1. /\ targetToBadges'[d] = targetToBadges[d] /\ shown'[d] = shown[d]
        /\ d \in apart => d \in apart'
        /\ place'[d] = place[d]
    BY <1>1, <1>2, <1>5, <1>9
  <2>2. \A id \in DOMAIN badgeRegistry' : badgeRegistry'[id].target = d =>
           id \in DOMAIN badgeRegistry /\ badgeRegistry'[id] = badgeRegistry[id]
    BY <1>3, <1>4, <1>9
  <2>3. HeldOK(d)
    BY DEF HeldInv
  <2> QED
    BY <2>1, <2>2, <2>3, HeldStays
<1> QED
  BY <1>7, <1>8, <1>9

\* Every step keeps it.
LEMMA HeldStep == ASSUME BaseInv, HeldInv, [Next]_vars PROVE HeldInv'
<1>1. CASE UNCHANGED vars
  BY <1>1 DEF HeldInv, HeldOK, BadgesOf, vars, badges, observers
<1>2. ASSUME NEW e \in Elements, Quiet(e) PROVE HeldInv'
  <2>1. /\ UNCHANGED <<badges, observers>> /\ place[e] # "gone"
        /\ \A d \in Elements \ {e} : place'[d] = place[d]
    BY <1>2, QuietStep
  <2> SUFFICES ASSUME NEW d \in Elements PROVE HeldOK(d)'
    BY DEF HeldInv
  <2>2. place[d] = "gone" => place'[d] = "gone"
    BY <2>1
  <2>3. HeldOK(d) /\ UNCHANGED <<badgeRegistry, targetToBadges, shown, apart>>
    BY <2>1 DEF HeldInv, badges, observers
  <2> QED
    BY <2>2, <2>3, HeldStays
<1>3. ASSUME NEW e \in Elements, NEW cats \in SUBSET Categories, NEW icons \in SUBSET cats,
             Answer(e, cats, icons)
      PROVE  HeldInv'
  <2>1. CASE cats = {} \/ place[e] = "alone"
    BY <1>2, <1>3, <2>1 DEF Quiet
  <2>2. CASE cats # {} /\ place[e] # "alone"
    BY <1>3, <2>2, CreateHeld
  <2> QED
    BY <2>1, <2>2
<1>4. ASSUME NEW e \in Elements,
             \/ Insert(e) \/ TakeOut(e) \/ Load(e) \/ Refresh(e) \/ Collect(e)
             \/ \E to \in {"alone", "limb"} : Remove(e, to)
             \/ \E cats \in SUBSET Categories : \E none \in SUBSET (cats \intersect Iconless) :
                   Answer(e, cats, cats \ none)
      PROVE  HeldInv'
  BY <1>2, <1>3, <1>4, CollectHeld, RemoveHeld DEF Quiet
<1> QED
  BY <1>1, <1>4, DrawnHeld DEF Next

\* At the start no element holds anything.
LEMMA HeldInit == ASSUME Init PROVE HeldInv
BY DEF Init, HeldInv, HeldOK, BadgesOf, NoBadges, Nothing

\* Every element that has not been collected finds all its badges in its map, for any answers,
\* unless one of them had only other categories than those of the badges it met: the badges
\* it brought are in a map that nobody finds (content.js:546).
THEOREM HeldInductive == Spec => [](BaseInv /\ HeldInv)
<1>1. Init => BaseInv /\ HeldInv
  BY BaseInit, HeldInit
<1>2. BaseInv /\ HeldInv /\ [Next]_vars => BaseInv' /\ HeldInv'
  BY BaseStep, HeldStep
<1> QED
  BY <1>1, <1>2, PTL DEF Spec

\* An element that has not been collected shows the categories of the last answer that had
\* any, in their order, one badge for each that has an icon, however many answers it got
\* (content.js:525-616, createBadges), unless one of them had only other categories than
\* those of the badges it met.
THEOREM AlwaysOnePerCategory == Spec => []OnePerCategory
<1>1. ASSUME BaseInv, HeldInv PROVE OnePerCategory
  <2> SUFFICES ASSUME NEW e \in Elements \ apart
               PROVE  /\ place[e] # "gone" =>
                            LET cats == {badgeRegistry[id].category : id \in BadgesOf(e)} IN
                            shown[e].icons \subseteq cats /\ cats \subseteq shown[e].cats
                      /\ \A i, j \in BadgesOf(e) :
                            /\ badgeRegistry[i].category = badgeRegistry[j].category => i = j
                            /\ place[e] # "gone" /\ badgeRegistry[i].category \in shown[e].icons =>
                                  badgeRegistry[i].catIndex
                                  = CatIndex(badgeRegistry[i].category, shown[e].cats)
    BY DEF OnePerCategory
  <2>1. HeldOK(e) /\ MapInv
    BY <1>1 DEF HeldInv, BaseInv
  <2>2. ASSUME place[e] # "gone"
        PROVE  /\ shown[e].icons \subseteq {badgeRegistry[id].category : id \in BadgesOf(e)}
               /\ \A id \in BadgesOf(e) : badgeRegistry[id].category \in shown[e].cats
    <3>1. \A c \in shown[e].icons : /\ targetToBadges[e][c] \in BadgesOf(e)
                                    /\ badgeRegistry[targetToBadges[e][c]].category = c
      BY <2>1, <2>2 DEF HeldOK, MapInv, BadgesOf
    <3>2. ASSUME NEW id \in BadgesOf(e) PROVE badgeRegistry[id].category \in shown[e].cats
      <4>1. PICK c \in DOMAIN targetToBadges[e] : id = targetToBadges[e][c]
        BY <2>1, <2>2 DEF HeldOK, Range
      <4>2. badgeRegistry[id].category = c
        BY <2>1, <4>1 DEF MapInv
      <4> QED
        BY <2>1, <2>2, <4>2 DEF HeldOK
    <3> QED
      BY <3>1, <3>2
  <2> QED
    BY <2>1, <2>2 DEF HeldOK
<1> QED
  BY <1>1, HeldInductive, PTL

\* When intersectionObs has told what it has seen, all badges of an element are visible or
\* none, as it is on the screen or not: those that came later, which it has no entry for,
\* and those whose entry is from before the element was removed (content.js:572-602 and
\* 730-742), unless an answer had only other categories than those of the badges it met.
THEOREM AlwaysVisibleAsSeen == Spec => []VisibleAsSeen
<1>1. ASSUME BaseInv, HeldInv PROVE VisibleAsSeen
  <2> SUFFICES ASSUME NEW e \in Elements \ apart, seen[e] \in {"in", "out"},
                      report[e] = "none", NEW id \in BadgesOf(e)
               PROVE  badgeRegistry[id].visible = (seen[e] = "in")
    BY DEF VisibleAsSeen
  <2>1. HeldOK(e) /\ SeenOK(e) /\ place[e] # "gone"
    BY <1>1 DEF HeldInv, BaseInv, SeenInv, GoneInv
  <2>2. id \in Range(targetToBadges[e])
    BY <2>1 DEF HeldOK
  <2>3. badgeRegistry[id].visible \in BOOLEAN
    BY <1>1, BadgeType DEF BadgesOf
  <2> QED
    BY <2>1, <2>2, <2>3 DEF SeenOK
<1> QED
  BY <1>1, HeldInductive, PTL

\* An element that has left the page takes its badges with it: any it has were given to it
\* later and are seen on no screen (content.js:637-648, removeBadgesForTarget), unless an
\* answer had only other categories than those of the badges it met.
THEOREM AlwaysLeavesNothing == Spec => []LeavesNothing
<1>1. ASSUME BaseInv, HeldInv PROVE LeavesNothing
  <2> SUFFICES ASSUME NEW e \in Elements \ apart, place[e] \notin {"page", "gone"},
                      NEW id \in BadgesOf(e)
               PROVE  seen[e] # "in"
    BY DEF LeavesNothing
  <2>1. HeldOK(e) /\ SeenOK(e)
    BY <1>1 DEF HeldInv, BaseInv, SeenInv
  <2>2. DOMAIN targetToBadges[e] # {}
    BY <2>1 DEF HeldOK, Range
  <2> QED
    BY <2>1, <2>2 DEF SeenOK
<1> QED
  BY <1>1, HeldInductive, PTL

\* The registry and the maps of the elements agree, so that every badge can be found from
\* its image, to be updated, shown, hidden and removed, and an element is observed exactly
\* while it has badges (content.js:517-518), unless an answer had only other categories than
\* those of the badges it met.
THEOREM RegistryAlwaysAgrees == Spec => []RegistryAgrees
<1>1. ASSUME BaseInv, HeldInv PROVE RegistryAgrees
  <2> SUFFICES ASSUME NEW e \in Elements \ apart, place[e] # "gone"
               PROVE  LET map == targetToBadges[e] IN
                      /\ Range(map) = BadgesOf(e)
                      /\ \A a \in DOMAIN map : badgeRegistry[map[a]].category = a
                      /\ seen[e] # "unobserved" <=> BadgesOf(e) # {}
    BY DEF RegistryAgrees
  <2>1. HeldOK(e) /\ SeenOK(e) /\ MapInv
    BY <1>1 DEF HeldInv, BaseInv, SeenInv
  <2>2. \A a \in DOMAIN targetToBadges[e] : /\ targetToBadges[e][a] \in BadgesOf(e)
                                            /\ badgeRegistry[targetToBadges[e][a]].category = a
    BY <2>1 DEF MapInv, BadgesOf
  <2>3. Range(targetToBadges[e]) = BadgesOf(e)
    BY <2>1, <2>2 DEF HeldOK, Range
  <2>4. DOMAIN targetToBadges[e] # {} <=> BadgesOf(e) # {}
    BY <2>2, <2>3 DEF Range
  <2>5. seen[e] # "unobserved" <=> DOMAIN targetToBadges[e] # {}
    BY <2>1 DEF SeenOK
  <2> QED
    BY <2>2, <2>3, <2>4, <2>5
<1> QED
  BY <1>1, HeldInductive, PTL
=============================================================================
