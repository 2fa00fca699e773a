------------------------------- MODULE Badges -------------------------------
(* The badges of a page: the part of extension/content/content.js below "Multi-category  *)
(* badge overlay".  A badge is a record in badgeRegistry; targetToBadges says which       *)
(* badges an element has.  The rest of the page inserts, removes and drops elements as    *)
(* it likes; the browser reports on intersections, draws frames and collects garbage.     *)
(*                                                                                         *)
(* A step is a task with the microtasks it leaves behind, so the MutationObserver has run   *)
(* when the page's change of the DOM is over.  What a lookup answers is a set of            *)
(* categories, and for which of them there is an icon; which verdict, icon and title they     *)
(* have is left out, and so is where on the screen an element is.  An element with an empty   *)
(* map, left by an answer without any icon, is taken for one without a map.                   *)
(* Definitions whose names end in Mutant are no part of the model: each is the one after it  *)
(* with a plausible bug, to show that a property notices it.                                *)
EXTENDS Integers, FiniteSets, Functions

CONSTANTS
    Images, Backgrounds,   \* elements: <img>, and others with a background-image
    Categories,            \* CATEGORY_ORDER, as numbers in this order
    Iconless,              \* those of which a verdict may have no icon
    MaxAsked,              \* lookups one element may have under way
    MaxBadges              \* badges ever created

Elements == Images \union Backgrounds
Ids      == 0..(MaxBadges - 1)

ASSUME ElementsAssumption == Images \intersect Backgrounds = {}
ASSUME CategoriesAssumption ==
    Categories \subseteq Nat /\ IsFiniteSet(Categories) /\ Iconless \subseteq Categories
ASSUME BoundsAssumption == MaxAsked \in Nat /\ MaxBadges \in Nat

VARIABLES
    place,           \* per element: "page", "limb" (in a subtree cut off from the page),
                     \* "alone" (without a parent), "gone" (collected)
    stage,           \* per element: "new", "loading", or in processedImages/-Backgrounds
    asked,           \* per element: get_verdicts without an answer yet
    badgeRegistry,   \* id -> [target, category, visible, catIndex, drawn]: drawn is where
                     \* the badge was last put
    targetToBadges,  \* per element: category -> id, empty when the element has no map
    nextBadgeId,
    finalizers,      \* per element: ids that cleanupRegistry removes when it is collected
    seen,            \* per element: what intersectionObs last found: "unobserved",
                     \* "unseen", "in", "out"
    report,          \* per element: the entry it has not been told yet, or "none"
    updateScheduled,
    shown,           \* history, per element: the answer its badges show, [cats, icons]
    apart            \* history: elements for which an answer had no category of which they
                     \* had a badge, while they had some

badges    == <<badgeRegistry, targetToBadges, nextBadgeId, finalizers, shown, apart>>
observers == <<seen, report, updateScheduled>>
vars      == <<place, stage, asked, badges, observers>>

NoBadges == [c \in {} |-> 0]
Undrawn  == -1
Nothing  == [cats |-> {}, icons |-> {}]

Init ==
    /\ place = [e \in Elements |-> "alone"]
    /\ stage = [e \in Elements |-> "new"]
    /\ asked = [e \in Elements |-> 0]
    /\ badgeRegistry = NoBadges
    /\ targetToBadges = [e \in Elements |-> NoBadges]
    /\ nextBadgeId = 0
    /\ finalizers = [e \in Elements |-> {}]
    /\ seen = [e \in Elements |-> "unobserved"]
    /\ report = [e \in Elements |-> "none"]
    /\ updateScheduled = FALSE
    /\ shown = [e \in Elements |-> Nothing]
    /\ apart = {}

\* The ids of the badges that are on the page for e, whatever targetToBadges says.
BadgesOf(e) == {id \in DOMAIN badgeRegistry : badgeRegistry[id].target = e}

-----------------------------------------------------------------------------
\* The place of category c among those of an answer.
CatIndex(c, cats) == Cardinality({d \in cats : d < c})

\* A badge that stays keeps its place.
RenumberNotMutant(b, cats, icons) == b

\* A badge that stays, at its place among the categories of the answer, or where it was
\* when there is no icon for it.
Renumber(b, cats, icons) ==
    [b EXCEPT !.catIndex = IF b.category \in icons THEN CatIndex(b.category, cats) ELSE @]

\* A new badge waits for the observer to show it, which has nothing new to say.
NewBadgeHiddenMutant(e, c, cats, kept) ==
    [target |-> e, category |-> c, catIndex |-> CatIndex(c, cats), drawn |-> Undrawn,
     visible |-> FALSE]

\* A new badge; it is visible at once when another of the target is.
NewBadge(e, c, cats, kept) ==
    [target |-> e, category |-> c, catIndex |-> CatIndex(c, cats), drawn |-> Undrawn,
     visible |-> \E d \in DOMAIN kept : badgeRegistry[kept[d]].visible]

\* cleanupRegistry.register, with the first badge of a target only.
Register(e) == finalizers[e] \union {nextBadgeId}

\* The counter is raised before it is used.
NewIdsFromOneMutant(new) == [c \in new |-> nextBadgeId + 1 + CatIndex(c, new)]

\* A badge gets the size of the registry for an id.
NewIdsFromSizeMutant(new) == [c \in new |-> Cardinality(DOMAIN badgeRegistry) + CatIndex(c, new)]

NewIds(new) == [c \in new |-> nextBadgeId + CatIndex(c, new)]

(* createBadges with categories, those in icons with an icon.  Badges of other categories  *)
(* are removed; those that stay are renumbered; the others are created, if there is an icon   *)
(* for them.  When none stays, removeBadge takes the map out of targetToBadges and ends the   *)
(* observation; the new badges go into a map that nobody finds.                               *)
CreateBadges(e, cats, icons) ==
    LET old   == targetToBadges[e]
        kept  == Restrict(old, DOMAIN old \intersect cats)
        new   == icons \ DOMAIN kept
        ids   == NewIds(new)
        lost  == DOMAIN old # {} /\ DOMAIN kept = {}
        first == DOMAIN kept = {} /\ new # {}
        was   == IF lost THEN "unobserved" ELSE seen[e]
        stay  == DOMAIN badgeRegistry \ {old[c] : c \in DOMAIN old \ cats}
    IN  /\ nextBadgeId + Cardinality(new) <= MaxBadges
        /\ badgeRegistry' = [id \in stay \union Range(ids) |->
              IF id \in Range(ids) THEN NewBadge(e, CHOOSE c \in new : ids[c] = id, cats, kept)
              ELSE IF id \in Range(kept) THEN Renumber(badgeRegistry[id], cats, icons)
              ELSE badgeRegistry[id]]
        /\ targetToBadges' = [targetToBadges EXCEPT ![e] =
              IF lost THEN NoBadges
              ELSE [c \in DOMAIN kept \union new |-> IF c \in new THEN ids[c] ELSE kept[c]]]
        /\ nextBadgeId' = nextBadgeId + Cardinality(new)
        /\ finalizers' = IF first THEN [finalizers EXCEPT ![e] = Register(e)] ELSE finalizers
        /\ seen' = [seen EXCEPT ![e] = IF first /\ was = "unobserved" THEN "unseen" ELSE was]
        /\ updateScheduled' = TRUE
        /\ apart' = IF lost THEN apart \union {e} ELSE apart
        /\ shown' = [shown EXCEPT ![e] =
              IF e \in apart' THEN Nothing ELSE [cats |-> cats, icons |-> icons]]

\* removeBadgesForTarget: what the MutationObserver does about a removed element and
\* those below it.
RemoveBadgesForTarget(e) ==
    LET ids == Range(targetToBadges[e]) IN
    /\ badgeRegistry' = Restrict(badgeRegistry, DOMAIN badgeRegistry \ ids)
    /\ targetToBadges' = [targetToBadges EXCEPT ![e] = NoBadges]
    /\ seen' = [seen EXCEPT ![e] = IF ids = {} THEN @ ELSE "unobserved"]
    /\ shown' = [shown EXCEPT ![e] = Nothing]
    /\ UNCHANGED <<nextBadgeId, finalizers, report, updateScheduled, apart>>

\* Asks for the verdicts of e and puts it into the processed set.
GetVerdicts(e) ==
    /\ asked[e] < MaxAsked
    /\ asked' = [asked EXCEPT ![e] = @ + 1]
    /\ stage' = [stage EXCEPT ![e] = "processed"]

(* What is done about an element that is not in the processed set: an image that is not   *)
(* loaded yet waits to be; without a source, or too small, an element is passed over.       *)
Examine(e) ==
    \/ GetVerdicts(e)
    \/ e \in Images /\ stage' = [stage EXCEPT ![e] = "loading"] /\ UNCHANGED asked
    \/ stage' = [stage EXCEPT ![e] = IF @ = "processed" THEN "new" ELSE @] /\ UNCHANGED asked

\* processSingleImage and processSingleBackground.
Process(e) == IF stage[e] = "processed" THEN UNCHANGED <<stage, asked>> ELSE Examine(e)

\* The page inserts an element, or the subtree it is in.
Insert(e) ==
    /\ place[e] \in {"alone", "limb"}
    /\ place' = [place EXCEPT ![e] = "page"]
    /\ Process(e)
    /\ UNCHANGED <<badges, observers>>

\* Only the removed element itself loses its badges, not what is below it.
RemoveOneMutant(e, to) ==
    /\ place[e] = "page"
    /\ place' = [place EXCEPT ![e] = to]
    /\ IF to = "alone" THEN RemoveBadgesForTarget(e) ELSE UNCHANGED <<badges, observers>>
    /\ UNCHANGED <<stage, asked>>

\* The page removes an element, or a subtree it is in.
Remove(e, to) ==
    /\ place[e] = "page"
    /\ place' = [place EXCEPT ![e] = to]
    /\ RemoveBadgesForTarget(e)
    /\ UNCHANGED <<stage, asked>>

\* The page takes an element out of a subtree that is not part of it: nobody observes that.
TakeOut(e) ==
    /\ place[e] = "limb"
    /\ place' = [place EXCEPT ![e] = "alone"]
    /\ UNCHANGED <<stage, asked, badges, observers>>

\* The listener is there once: an image that is too small is not examined again.
Load(e) ==
    /\ stage[e] = "loading"
    /\ GetVerdicts(e) \/ (stage' = [stage EXCEPT ![e] = "new"] /\ UNCHANGED asked)
    /\ UNCHANGED <<place, badges, observers>>

\* The attest dialog takes the image out of processedImages and has it processed again.
Refresh(e) ==
    /\ e \in Images /\ place[e] = "page"
    /\ Examine(e)
    /\ UNCHANGED <<place, badges, observers>>

\* The answer to one of the lookups.  Without categories, or for an element without a
\* parent, it is dropped and the badges stay as they are.
Answer(e, cats, icons) ==
    /\ asked[e] > 0
    /\ asked' = [asked EXCEPT ![e] = @ - 1]
    /\ IF cats = {} \/ place[e] = "alone" THEN UNCHANGED <<badges, observers>>
       ELSE CreateBadges(e, cats, icons) /\ UNCHANGED report
    /\ UNCHANGED <<place, stage>>

-----------------------------------------------------------------------------
\* updateAllBadgePositions: visible badges are put where they belong, and those of
\* targets that have been collected are removed.
Redraw ==
    [id \in {i \in DOMAIN badgeRegistry :
                badgeRegistry[i].visible => place[badgeRegistry[i].target] # "gone"} |->
        IF badgeRegistry[id].visible
        THEN [badgeRegistry[id] EXCEPT !.drawn = badgeRegistry[id].catIndex]
        ELSE badgeRegistry[id]]

(* A frame: the scheduled update runs, then the browser sees which of the observed      *)
(* elements are on the screen and queues an entry for those for which this is news.  In    *)
(* between resizeObs may ask for another update, as it does about an element it was told to *)
(* observe, also for the second time.                                                       *)
Frame(onScreen) ==
    LET watched == {e \in Elements : seen[e] # "unobserved"}
        now(e)  == IF e \in onScreen THEN "in" ELSE "out"
        news    == {e \in watched : seen[e] # now(e)}
    IN  /\ onScreen \subseteq {e \in watched : place[e] = "page"}
        /\ badgeRegistry' = IF updateScheduled THEN Redraw ELSE badgeRegistry
        /\ updateScheduled' \in {FALSE, watched # {}}
        /\ seen' = [e \in Elements |-> IF e \in news THEN now(e) ELSE seen[e]]
        /\ report' = [e \in Elements |-> IF e \in news THEN now(e) ELSE report[e]]
        /\ UNCHANGED <<place, stage, asked, targetToBadges, nextBadgeId, finalizers, shown, apart>>

\* No update is scheduled for badges that come into view.
IntersectionUnscheduledMutant(e) ==
    /\ report[e] # "none"
    /\ report' = [report EXCEPT ![e] = "none"]
    /\ badgeRegistry' = [id \in DOMAIN badgeRegistry |->
          IF id \in Range(targetToBadges[e])
          THEN [badgeRegistry[id] EXCEPT !.visible = report[e] = "in"]
          ELSE badgeRegistry[id]]
    /\ UNCHANGED <<place, stage, asked, targetToBadges, nextBadgeId, finalizers, seen,
                   updateScheduled, shown, apart>>

\* The callback of intersectionObs for one element.
Intersection(e) ==
    /\ report[e] # "none"
    /\ report' = [report EXCEPT ![e] = "none"]
    /\ badgeRegistry' = [id \in DOMAIN badgeRegistry |->
          IF id \in Range(targetToBadges[e])
          THEN [badgeRegistry[id] EXCEPT !.visible = report[e] = "in"]
          ELSE badgeRegistry[id]]
    /\ updateScheduled' = (updateScheduled \/ (report[e] = "in" /\ DOMAIN targetToBadges[e] # {}))
    /\ UNCHANGED <<place, stage, asked, targetToBadges, nextBadgeId, finalizers, seen, shown,
                   apart>>

\* Something scrolls, is resized or restyled: every badge may be out of place.
Scroll ==
    /\ badgeRegistry' = [id \in DOMAIN badgeRegistry |->
                            [badgeRegistry[id] EXCEPT !.drawn = Undrawn]]
    /\ updateScheduled' = TRUE
    /\ UNCHANGED <<place, stage, asked, targetToBadges, nextBadgeId, finalizers, seen, report,
                   shown, apart>>

\* An element nobody can reach is collected and its finalizers run.  A badge keeps the
\* subtree it was put into, so an element that is still there with one can be reached.
Collect(e) ==
    /\ place[e] = "alone" \/ (place[e] = "limb" /\ BadgesOf(e) = {})
    /\ asked[e] = 0 /\ stage[e] # "loading" /\ report[e] = "none"
    /\ place' = [place EXCEPT ![e] = "gone"]
    /\ badgeRegistry' = Restrict(badgeRegistry, DOMAIN badgeRegistry \ finalizers[e])
    /\ targetToBadges' = [targetToBadges EXCEPT ![e] = NoBadges]
    /\ finalizers' = [finalizers EXCEPT ![e] = {}]
    /\ seen' = [seen EXCEPT ![e] = "unobserved"]
    /\ shown' = [shown EXCEPT ![e] = Nothing]
    /\ UNCHANGED <<stage, asked, nextBadgeId, report, updateScheduled, apart>>

Next ==
    \/ \E e \in Elements :
          \/ Insert(e) \/ TakeOut(e) \/ Load(e) \/ Refresh(e) \/ Intersection(e) \/ Collect(e)
          \/ \E to \in {"alone", "limb"} : Remove(e, to)
          \/ \E cats \in SUBSET Categories : \E none \in SUBSET (cats \intersect Iconless) :
                Answer(e, cats, cats \ none)
    \/ \E onScreen \in SUBSET Elements : Frame(onScreen)
    \/ Scroll

Spec == Init /\ [][Next]_vars

-----------------------------------------------------------------------------
Records == [target : Elements, category : Categories, visible : BOOLEAN,
            catIndex : Nat, drawn : Nat \union {Undrawn}]
Answers == [cats : SUBSET Categories, icons : SUBSET Categories]

TypeOK ==
    /\ place \in [Elements -> {"page", "limb", "alone", "gone"}]
    /\ stage \in [Elements -> {"new", "loading", "processed"}]
    /\ asked \in [Elements -> 0..MaxAsked]
    /\ nextBadgeId \in 0..MaxBadges
    /\ DOMAIN badgeRegistry \subseteq 0..(nextBadgeId - 1)
    /\ \A id \in DOMAIN badgeRegistry : badgeRegistry[id] \in Records
    /\ DOMAIN targetToBadges = Elements
    /\ \A e \in Elements : \E cats \in SUBSET Categories :
          targetToBadges[e] \in [cats -> 0..(nextBadgeId - 1)]
    /\ finalizers \in [Elements -> SUBSET (0..(nextBadgeId - 1))]
    /\ seen \in [Elements -> {"unobserved", "unseen", "in", "out"}]
    /\ report \in [Elements -> {"none", "in", "out"}]
    /\ updateScheduled \in BOOLEAN
    /\ shown \in [Elements -> Answers]
    /\ apart \subseteq Elements

\* The registry and the maps of the elements agree: a badge can be found from its image,
\* so that it can be updated, shown, hidden and removed (content.js:517-518), and an element
\* is observed exactly while it has badges.  So for every element none of whose answers had
\* only categories of which it had no badge, while it had some: such an answer makes
\* createBadges put badges into a map that has just been taken out (content.js:546).
RegistryAgrees ==
    \A e \in Elements \ apart : place[e] # "gone" =>
        LET map == targetToBadges[e] IN
        /\ Range(map) = BadgesOf(e)
        /\ \A c \in DOMAIN map : badgeRegistry[map[c]].category = c
        /\ seen[e] # "unobserved" <=> BadgesOf(e) # {}

\* An element shows the categories of the last answer that had any, in their order, one badge
\* for each that has an icon (content.js:513, "horizontal 16px badges, one per category"),
\* however many answers it got and in whatever order; a category that has lost its icon
\* keeps the badge it has.  As above, none of the answers had only other categories than
\* those of the badges it met.
OnePerCategory ==
    \A e \in Elements \ apart :
        /\ place[e] # "gone" =>
              LET cats == {badgeRegistry[id].category : id \in BadgesOf(e)} IN
              shown[e].icons \subseteq cats /\ cats \subseteq shown[e].cats
        /\ \A i, j \in BadgesOf(e) :
              /\ badgeRegistry[i].category = badgeRegistry[j].category => i = j
              /\ place[e] # "gone" /\ badgeRegistry[i].category \in shown[e].icons =>
                    badgeRegistry[i].catIndex = CatIndex(badgeRegistry[i].category, shown[e].cats)

\* When intersectionObs has told what it has seen, all badges of an element are visible or
\* none, as it is on the screen or not: badges that came later have no entry of their own,
\* and entries may have been queued before the element was removed and shown again.  Again
\* for elements no answer for which had only other categories than the badges it met: what
\* is in a lost map is never shown.
VisibleAsSeen ==
    \A e \in Elements \ apart : seen[e] \in {"in", "out"} /\ report[e] = "none" =>
        \A id \in BadgesOf(e) : badgeRegistry[id].visible = (seen[e] = "in")

\* No visible badge is out of place for longer than a frame, nor stays when its image
\* has been collected.
DrawnOrScheduled ==
    \A id \in DOMAIN badgeRegistry :
        LET b == badgeRegistry[id] IN
        b.visible /\ (b.drawn # b.catIndex \/ place[b.target] = "gone") => updateScheduled

\* An element that has left the page takes its badges with it, unless an answer had only
\* other categories than the badges it met (a removal does not find those of a lost map);
\* only an answer that comes later gives it new ones, and those are seen on no screen.
LeavesNothing ==
    \A e \in Elements \ apart : place[e] \notin {"page", "gone"} /\ BadgesOf(e) # {} =>
        seen[e] # "in"
=============================================================================
