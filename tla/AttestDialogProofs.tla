------------------------- MODULE AttestDialogProofs -------------------------
(* Theorems about AttestDialog, for any number of dialogs, keys, categories and verdicts, *)
(* and however often the user chooses and submissions fail.                                *)
EXTENDS AttestDialog, FiniteSetTheorems, WellFoundedInduction, TLAPS

\* What the dialog shows, and has not found, the user has touched; so is what it submits.
Touched(x) ==
    /\ x.actions \union x.posted \subseteq x.touched
    /\ x.stage \in {"open", "signing"} =>
          \A c \in Categories : x.before[c] # x.after[c] => c \in x.touched

\* What holds of every dialog by itself.
Sound(x) == x \in DialogType /\ AtHand(x) /\ Touched(x)

AllSound(ds) == ds \in [Dialogs -> DialogType] /\ \A d \in Dialogs : Sound(ds[d])

\* Closing a dialog, or giving it up, leaves it sound.
LEMMA NewIsSound ==
    /\ Nothing \in Selections
    /\ Sound(New) /\ Sound(Over)
    /\ \A x \in DialogType : Sound(Keyless(x))
<1>1. Nothing \in Selections
  BY DEF Nothing, Selections, Offered
<1>2. New \in DialogType
  BY <1>1 DEF New, DialogType, Stages
<1>3. Over \in DialogType
  BY <1>2 DEF Over, DialogType, Stages
<1>4. ASSUME NEW x \in DialogType PROVE Keyless(x) \in DialogType
  BY <1>2 DEF Keyless, DialogType, Stages
<1>5. AtHand(New) /\ Touched(New)
  BY DEF New, AtHand, Touched
<1>6. AtHand(Over) /\ Touched(Over)
  BY DEF New, Over, AtHand, Touched
<1>7. ASSUME NEW x \in DialogType PROVE AtHand(Keyless(x)) /\ Touched(Keyless(x))
  BY DEF New, Keyless, AtHand, Touched
<1> QED
  BY <1>1, <1>2, <1>3, <1>4, <1>5, <1>6, <1>7 DEF Sound

\* A sound dialog in the place of another leaves all of them sound.
LEMMA ReplaceIsSound ==
    ASSUME NEW ds, AllSound(ds), NEW d \in Dialogs, NEW x, Sound(x)
    PROVE  AllSound([ds EXCEPT ![d] = x])
BY DEF AllSound, Sound

\* closeAttestDialog leaves every dialog sound.
LEMMA CloseIsSound ==
    ASSUME NEW ds, AllSound(ds), activeDialog \in Dialogs \union {NoDialog}
    PROVE  AllSound(CloseActive(ds))
<1>1. CASE activeDialog = NoDialog
  BY <1>1 DEF CloseActive
<1>2. CASE activeDialog # NoDialog
  <2> DEFINE x == ds[activeDialog]
             y == IF x.stage \in {"signing", "signed"} THEN [x EXCEPT !.inDocument = FALSE] ELSE Over
  <2>1. x \in DialogType /\ AtHand(x) /\ Touched(x)
    BY <1>2 DEF AllSound, Sound
  <2>2. [x EXCEPT !.inDocument = FALSE] \in DialogType
    BY <2>1 DEF DialogType
  <2>3. AtHand([x EXCEPT !.inDocument = FALSE])
    BY <2>1 DEF DialogType, AtHand
  <2>4. Touched([x EXCEPT !.inDocument = FALSE])
    BY <2>1 DEF DialogType, Touched
  <2>5. Sound(y)
    BY <2>2, <2>3, <2>4, NewIsSound DEF Sound
  <2>6. CloseActive(ds) = [ds EXCEPT ![activeDialog] = y]
    BY <1>2 DEF CloseActive
  <2> HIDE DEF y
  <2>7. AllSound([ds EXCEPT ![activeDialog] = y])
    BY <2>5, <1>2, ReplaceIsSound
  <2> QED
    BY <2>6, <2>7
<1> QED
  BY <1>1, <1>2

\* A call that joins leaves every dialog sound.
LEMMA JoinIsSound ==
    ASSUME NEW ds, AllSound(ds), NEW d \in Dialogs
    PROVE  AllSound(Join(d, ds))
<1>1. ASSUME NEW q \in Dialogs PROVE Sound(Join(d, ds)[q])
  <2>1. ds[q] \in DialogType /\ AtHand(ds[q]) /\ Touched(ds[q])
    BY DEF AllSound, Sound
  <2>2. CASE q = d
    <3> DEFINE y(b) == [ds[d] EXCEPT !.stage = "opening", !.overlapped = b]
    <3>1. ASSUME NEW b \in BOOLEAN PROVE y(b) \in DialogType
      BY <2>1, <2>2 DEF DialogType, Stages
    <3>2. ASSUME NEW b \in BOOLEAN PROVE AtHand(y(b)) /\ Touched(y(b))
      BY <2>1, <2>2 DEF DialogType, AtHand, Touched
    <3>3. Join(d, ds)[q] = y(Opening # {})
      BY <2>2 DEF Join
    <3>4. (Opening # {}) \in BOOLEAN
      OBVIOUS
    <3> HIDE DEF y
    <3> QED
      BY <3>1, <3>2, <3>3, <3>4 DEF Sound
  <2>3. CASE q # d /\ q \in Opening
    <3>1. Join(d, ds)[q] = [ds[q] EXCEPT !.overlapped = TRUE]
      BY <2>3 DEF Join
    <3>2. [ds[q] EXCEPT !.overlapped = TRUE] \in DialogType
      BY <2>1 DEF DialogType
    <3>3. AtHand([ds[q] EXCEPT !.overlapped = TRUE])
      BY <2>1 DEF DialogType, AtHand
    <3>4. Touched([ds[q] EXCEPT !.overlapped = TRUE])
      BY <2>1 DEF DialogType, Touched
    <3> QED
      BY <3>1, <3>2, <3>3, <3>4 DEF Sound
  <2>4. CASE q # d /\ q \notin Opening
    BY <2>1, <2>4 DEF Join, Sound
  <2> QED
    BY <2>2, <2>3, <2>4
<1> QED
  BY <1>1 DEF AllSound, Sound, Join

-----------------------------------------------------------------------------
\* What a step leaves of TypeOK and Touched, but for the active dialog.
Others ==
    /\ published \in [Keys -> Selections]
    /\ selectedKeyID \in Keys \union {NoKey}
    /\ defaults \in {"start", "none stored", "outrun", "done"}
    /\ activeDialog \in Dialogs \union {NoDialog}
    /\ inputs \in 0..MaxInputs /\ failures \in 0..MaxFailures

\* TypeOK made inductive.
Inv == Others /\ AllSound(dialog)

\* The answers a call waits for leave it sound.
LEMMA AnswerIsSound ==
    ASSUME Inv, NEW d \in Dialogs, Answered(d)
    PROVE  AllSound(dialog')
<1> DEFINE x == dialog[d]
<1>1. x \in DialogType /\ AtHand(x) /\ Touched(x) /\ x.stage = "opening"
  BY DEF Inv, AllSound, Sound, Answered, At, GetKey, GetMyKey, GetMyVerdicts, ShowDialog, ShowKeyless
<1>2. CASE GetKey(d)
  <2> DEFINE y == [x EXCEPT !.keySelect = selectedKeyID]
  <2>1. y \in DialogType
    BY <1>1 DEF Inv, Others, DialogType
  <2>2. AtHand(y) /\ Touched(y)
    BY <1>1 DEF DialogType, AtHand, Touched
  <2>3. dialog' = [dialog EXCEPT ![d] = y]
    BY <1>2 DEF GetKey
  <2> HIDE DEF y
  <2> QED
    BY <2>1, <2>2, <2>3, ReplaceIsSound DEF Sound, Inv
<1>3. CASE GetMyKey(d)
  <2> DEFINE y(b) == [x EXCEPT !.mine = selectedKeyID, !.read = b]
  <2>1. ASSUME NEW b \in BOOLEAN PROVE y(b) \in DialogType
    BY <1>1 DEF Inv, Others, DialogType
  <2>2. ASSUME NEW b \in BOOLEAN PROVE AtHand(y(b)) /\ Touched(y(b))
    BY <1>1 DEF DialogType, AtHand, Touched
  <2>3. dialog' = [dialog EXCEPT ![d] = y(selectedKeyID = NoKey)]
    BY <1>3 DEF GetMyKey
  <2>4. (selectedKeyID = NoKey) \in BOOLEAN
    OBVIOUS
  <2> HIDE DEF y
  <2>5. Sound(y(selectedKeyID = NoKey))
    BY <2>1, <2>2, <2>4 DEF Sound
  <2> QED
    BY <2>3, <2>5, ReplaceIsSound DEF Inv
<1>4. CASE GetMyVerdicts(d)
  <2> DEFINE y(k, v) == [x EXCEPT !.read = TRUE, !.mine = k, !.before = v]
  <2>1. ASSUME NEW k \in Keys \union {NoKey}, NEW v \in Selections
        PROVE  Sound(y(k, v))
    <3>1. y(k, v) \in DialogType
      BY <1>1 DEF DialogType
    <3>2. AtHand(y(k, v)) /\ Touched(y(k, v))
      BY <1>1 DEF DialogType, AtHand, Touched
    <3> QED
      BY <3>1, <3>2 DEF Sound
  <2>2. x.mine \in Keys /\ published[x.mine] \in Selections /\ x.before \in Selections
    BY <1>1, <1>4 DEF GetMyVerdicts, Inv, Others, DialogType
  <2>3. \/ dialog' = [dialog EXCEPT ![d] = y(x.mine, published[x.mine])]
        \/ dialog' = [dialog EXCEPT ![d] = y(NoKey, x.before)]
    BY <1>1, <1>4 DEF GetMyVerdicts, DialogType
  <2> HIDE DEF y
  <2>4. Sound(y(x.mine, published[x.mine])) /\ Sound(y(NoKey, x.before))
    BY <2>1, <2>2
  <2> QED
    BY <2>3, <2>4, ReplaceIsSound DEF Inv
<1>5. CASE ShowDialog(d)
  <2> DEFINE y(k) == [x EXCEPT !.stage = "open", !.inDocument = TRUE, !.keySelect = k, !.after = x.before]
  <2>1. x.read
    BY <1>5 DEF ShowDialog
  <2>2. ASSUME NEW k \in Keys PROVE Sound(y(k))
    <3>1. y(k) \in DialogType
      BY <1>1 DEF DialogType, Stages
    <3>2. AtHand(y(k))
      BY <1>1, <2>1 DEF DialogType, AtHand
    <3>3. Touched(y(k))
      BY <1>1 DEF DialogType, Touched
    <3> QED
      BY <3>1, <3>2, <3>3 DEF Sound
  <2>3. dialog' = [dialog EXCEPT ![d] = y(IF x.keySelect \in Keys THEN x.keySelect ELSE FirstKey)]
    BY <1>5 DEF ShowDialog
  <2> HIDE DEF y
  <2> QED
    BY <2>2, <2>3, ReplaceIsSound, KeysAssumption DEF Inv
<1>6. CASE ShowKeyless(d)
  <2>1. dialog' = [dialog EXCEPT ![d] = Keyless(x)]
    BY <1>6 DEF ShowKeyless
  <2> QED
    BY <1>1, <2>1, NewIsSound, ReplaceIsSound DEF Inv
<1> QED
  BY <1>2, <1>3, <1>4, <1>5, <1>6 DEF Answered

\* What the user does in a dialog leaves it sound.
LEMMA InputIsSound ==
    ASSUME Inv, NEW d \in Dialogs, Input(d) \/ Sign(d)
    PROVE  AllSound(dialog')
<1> DEFINE x == dialog[d]
<1>1. x \in DialogType /\ AtHand(x) /\ Touched(x) /\ x.stage = "open"
  BY DEF Inv, AllSound, Sound, Input, At, Choose, ChooseKey, Sign
<1>2. ASSUME NEW s \in Selections, Choose(d, s) PROVE AllSound(dialog')
  <2> DEFINE y == [x EXCEPT !.after = s, !.touched = @ \union {c \in Categories : s[c] # x.after[c]}]
  <2>1. y \in DialogType
    BY <1>1 DEF DialogType
  <2>2. AtHand(y)
    BY <1>1 DEF DialogType, AtHand
  <2>3. Touched(y)
    BY <1>1 DEF DialogType, Touched
  <2>4. dialog' = [dialog EXCEPT ![d] = y]
    BY <1>2 DEF Choose
  <2> HIDE DEF y
  <2> QED
    BY <2>1, <2>2, <2>3, <2>4, ReplaceIsSound DEF Sound, Inv
<1>3. ASSUME NEW k \in Keys, ChooseKey(d, k) PROVE AllSound(dialog')
  <2> DEFINE y == [x EXCEPT !.keySelect = k]
  <2>1. y \in DialogType
    BY <1>1 DEF DialogType
  <2>2. AtHand(y) /\ Touched(y)
    BY <1>1 DEF DialogType, AtHand, Touched
  <2>3. dialog' = [dialog EXCEPT ![d] = y]
    BY <1>3 DEF ChooseKey
  <2> HIDE DEF y
  <2> QED
    BY <2>1, <2>2, <2>3, ReplaceIsSound DEF Sound, Inv
<1>4. CASE Sign(d)
  <2> DEFINE y == [x EXCEPT !.stage = "signing", !.keyID = x.keySelect, !.wanted = x.after,
                            !.actions = Actions(x)]
  <2>1. CASE Actions(x) = {}
    BY <1>4, <2>1 DEF Sign, Inv
  <2>2. CASE Actions(x) # {}
    <3>1. x.keySelect \in Keys /\ x.read
      BY <1>1 DEF AtHand
    <3>2. Actions(x) \subseteq Categories
      BY DEF Actions
    <3>3. y \in DialogType
      BY <1>1, <3>1, <3>2 DEF DialogType, Stages
    <3>4. AtHand(y)
      BY <1>1, <3>1, <2>2 DEF DialogType, AtHand
    <3>5. Touched(y)
      BY <1>1 DEF DialogType, Touched, Actions
    <3>6. dialog' = [dialog EXCEPT ![d] = y]
      BY <1>4, <2>2 DEF Sign
    <3> HIDE DEF y
    <3> QED
      BY <3>3, <3>4, <3>5, <3>6, ReplaceIsSound DEF Sound, Inv
  <2> QED
    BY <2>1, <2>2
<1> QED
  BY <1>2, <1>3, <1>4 DEF Input

\* A submission is for a category the user has touched: what becomes of it leaves the
\* dialog and all others sound.
LEMMA PostedIsSound ==
    ASSUME Inv, NEW d \in Dialogs, NEW c \in Categories, At(d, "signing"), IsNext(d, c)
    PROVE  AllSound(Posted(d, c))
<1>1. ASSUME NEW q \in Dialogs PROVE Sound(Posted(d, c)[q])
  <2> DEFINE x == dialog[q]
  <2>1. x \in DialogType /\ AtHand(x) /\ Touched(x)
    BY DEF Inv, AllSound, Sound
  <2>2. CASE q = d
    <3> DEFINE y == [x EXCEPT !.posted = @ \union {c}]
    <3>1. c \in x.touched
      BY <2>1, <2>2 DEF IsNext, Touched
    <3>2. y \in DialogType
      BY <2>1 DEF DialogType
    <3>3. AtHand(y)
      BY <2>1 DEF DialogType, AtHand
    <3>4. Touched(y)
      BY <2>1, <3>1 DEF DialogType, Touched
    <3>5. Posted(d, c)[q] = y
      BY <2>2 DEF Posted
    <3> HIDE DEF y
    <3> QED
      BY <3>2, <3>3, <3>4, <3>5 DEF Sound
  <2>3. CASE q # d
    <3> DEFINE y(b) == [x EXCEPT !.disturbed = b]
               b0 == x.disturbed \/ (x.read /\ x.mine = dialog[d].keyID)
    <3>1. ASSUME NEW b \in BOOLEAN PROVE Sound(y(b))
      <4>1. y(b) \in DialogType
        BY <2>1 DEF DialogType
      <4>2. AtHand(y(b)) /\ Touched(y(b))
        BY <2>1 DEF DialogType, AtHand, Touched
      <4> QED
        BY <4>1, <4>2 DEF Sound
    <3>2. Posted(d, c)[q] = y(b0)
      BY <2>3 DEF Posted
    <3>3. b0 \in BOOLEAN
      OBVIOUS
    <3> HIDE DEF y, b0
    <3> QED
      BY <3>1, <3>2, <3>3
  <2> QED
    BY <2>2, <2>3
<1> QED
  BY <1>1 DEF AllSound, Sound, Posted

\* A failure leaves every dialog sound: the one that fails goes back to what it was.
LEMMA FailedIsSound ==
    ASSUME NEW ds, AllSound(ds), NEW d \in Dialogs, ds[d].stage = "signing"
    PROVE  AllSound(Failed(ds, d))
<1> DEFINE x == ds[d]
           y == [x EXCEPT !.stage = "open", !.keyID = NoKey, !.wanted = Nothing, !.actions = {}]
<1>1. x \in DialogType /\ AtHand(x) /\ Touched(x)
  BY DEF AllSound, Sound
<1>2. y \in DialogType
  BY <1>1, NewIsSound DEF DialogType, Stages
<1>3. AtHand(y)
  BY <1>1 DEF DialogType, AtHand
<1>4. Touched(y)
  BY <1>1 DEF DialogType, Touched
<1> DEFINE z == IF x.inDocument THEN y ELSE Over
<1>5. Failed(ds, d) = [ds EXCEPT ![d] = z]
  BY DEF Failed
<1> HIDE DEF y
<1>6. Sound(z)
  BY <1>2, <1>3, <1>4, NewIsSound DEF Sound
<1> HIDE DEF z
<1>7. AllSound([ds EXCEPT ![d] = z])
  BY <1>6, ReplaceIsSound
<1> QED
  BY <1>5, <1>7

\* So does what becomes of a submission.
LEMMA SigningIsSound ==
    ASSUME Inv, NEW d \in Dialogs, Signing(d)
    PROVE  AllSound(dialog')
<1>1. At(d, "signing")
  BY DEF Signing, Submitted, SubmissionFails
<1>2. ASSUME NEW c \in Categories, IsNext(d, c)
      PROVE  AllSound(Posted(d, c)) /\ Posted(d, c)[d].stage = "signing"
             /\ Posted(d, c)[d].actions = dialog[d].actions
  <2>1. dialog[d] \in DialogType
    BY DEF Inv, AllSound
  <2> QED
    BY <1>1, <1>2, <2>1, PostedIsSound DEF Posted, At, DialogType
<1>3. CASE Submitted(d)
  <2>1. PICK c \in Categories :
           /\ IsNext(d, c)
           /\ dialog' = [Posted(d, c) EXCEPT ![d].actions = @ \ {c},
                           ![d].stage = IF dialog[d].actions = {c} THEN "signed" ELSE @]
    BY <1>3 DEF Submitted
  <2> DEFINE ds == Posted(d, c)
             x == ds[d]
             y(s) == [x EXCEPT !.actions = @ \ {c}, !.stage = s]
             s0 == IF dialog[d].actions = {c} THEN "signed" ELSE "signing"
  <2>2. AllSound(ds) /\ x.stage = "signing" /\ x.actions = dialog[d].actions
    BY <1>2, <2>1
  <2>3. x \in DialogType /\ AtHand(x) /\ Touched(x)
    BY <2>2 DEF AllSound, Sound
  <2> HIDE DEF ds
  <2>4. ASSUME NEW s \in {"signing", "signed"}, s = "signing" => x.actions \ {c} # {}
        PROVE  Sound(y(s))
    <3>1. y(s) \in DialogType
      BY <2>3 DEF DialogType, Stages
    <3>2. AtHand(y(s))
      BY <2>2, <2>3, <2>4 DEF DialogType, AtHand
    <3>3. Touched(y(s))
      BY <2>2, <2>3 DEF DialogType, Touched
    <3> QED
      BY <3>1, <3>2, <3>3 DEF Sound
  <2>5. dialog' = [ds EXCEPT ![d] = y(s0)]
    BY <2>1, <2>2, <2>3 DEF ds, AllSound, DialogType
  <2>6. s0 \in {"signing", "signed"} /\ (s0 = "signing" => x.actions \ {c} # {})
    BY <2>1, <2>2 DEF IsNext
  <2>7. Sound(y(s0))
    BY <2>4, <2>6
  <2> HIDE DEF y, s0
  <2> QED
    BY <2>2, <2>5, <2>7, ReplaceIsSound
<1>4. CASE SubmissionFails(d)
  <2>1. CASE dialog' = Failed(dialog, d)
    BY <1>1, <2>1, FailedIsSound DEF Inv, At
  <2>2. ASSUME NEW c \in Categories, IsNext(d, c), dialog' = Failed(Posted(d, c), d)
        PROVE  AllSound(dialog')
    BY <1>2, <2>2, FailedIsSound
  <2> QED
    BY <1>4, <2>1, <2>2 DEF SubmissionFails
<1> QED
  BY <1>3, <1>4 DEF Signing

\* So does the timer.
LEMMA TimerIsSound ==
    ASSUME Inv, NEW d \in Dialogs, Timer(d)
    PROVE  AllSound(dialog')
<1> DEFINE ds == CloseActive(dialog)
           z == IF ds[d].inDocument /\ activeDialog # d THEN Keyless(ds[d]) ELSE Over
<1>1. AllSound(ds)
  BY CloseIsSound DEF Inv, Others
<1>2. dialog' = [ds EXCEPT ![d] = z]
  BY <1>1 DEF Timer, AllSound
<1>3. Sound(z)
  BY <1>1, NewIsSound DEF AllSound, Sound
<1> HIDE DEF ds, z
<1> QED
  BY <1>1, <1>2, <1>3, ReplaceIsSound

\* The bounds keep the counters within them.
LEMMA CountersType ==
    ASSUME Others
    PROVE  /\ MayChoose => inputs' \in 0..MaxInputs
           /\ MayFail => failures' \in 0..MaxFailures
<1>1. MaxInputs \in Nat /\ inputs \in 0..MaxInputs
  BY BoundsAssumption DEF Others
<1>2. MaxFailures \in Nat /\ failures \in 0..MaxFailures
  BY BoundsAssumption DEF Others
<1>3. MayChoose => inputs' \in 0..MaxInputs
  BY <1>1 DEF MayChoose
<1>4. MayFail => failures' \in 0..MaxFailures
  BY <1>2 DEF MayFail
<1> QED
  BY <1>3, <1>4

\* No step makes a dialog unsound, or leaves the types.
LEMMA InvStep == Inv /\ [Next]_vars => Inv'
<1> SUFFICES ASSUME Inv, [Next]_vars PROVE Inv'
  OBVIOUS
<1>1. CASE UNCHANGED vars
  BY <1>1 DEF vars, Inv, Others, AllSound, Sound, AtHand, Touched
<1>2. ASSUME NEW d \in Dialogs, Open(d) PROVE Inv'
  <2>1. AllSound(dialog')
    BY <1>2, CloseIsSound, JoinIsSound DEF Open, Inv, Others
  <2>2. activeDialog' = NoDialog /\ UNCHANGED <<published, selectedKeyID, defaults, inputs, failures>>
    BY <1>2 DEF Open
  <2> QED
    BY <2>1, <2>2 DEF Inv, Others, AllSound
<1>3. ASSUME NEW d \in Dialogs, Answered(d) PROVE Inv'
  <2>1. AllSound(dialog')
    BY <1>3, AnswerIsSound
  <2>2. /\ UNCHANGED <<published, selectedKeyID, defaults, inputs>>
        /\ activeDialog' \in {activeDialog, d}
        /\ UNCHANGED failures \/ MayFail
    BY <1>3 DEF Answered, GetKey, GetMyKey, GetMyVerdicts, ShowDialog, ShowKeyless
  <2> QED
    BY <2>1, <2>2, CountersType DEF Inv, Others, AllSound
<1>4. ASSUME NEW d \in Dialogs, Input(d) \/ Sign(d) PROVE Inv'
  <2>1. AllSound(dialog')
    BY <1>4, InputIsSound
  <2>2. dialog[d].keySelect \in Keys \/ ~Sign(d)
    BY DEF Inv, AllSound, Sound, AtHand, Sign, At
  <2>3. /\ UNCHANGED <<published, activeDialog, failures>>
        /\ UNCHANGED inputs \/ MayChoose
        /\ UNCHANGED <<selectedKeyID, defaults>> \/ SetKey(dialog[d].keySelect)
    BY <1>4 DEF Input, Choose, ChooseKey, Sign
  <2>4. UNCHANGED <<selectedKeyID, defaults>> \/ dialog[d].keySelect \in Keys
    BY <1>4, <2>2 DEF Input, Choose, ChooseKey
  <2> QED
    BY <2>1, <2>3, <2>4, CountersType DEF Inv, Others, AllSound, SetKey
<1>5. ASSUME NEW d \in Dialogs, Signing(d) PROVE Inv'
  <2>1. AllSound(dialog')
    BY <1>5, SigningIsSound
  <2>2. dialog[d].keyID \in Keys /\ dialog[d].wanted \in Selections
    BY <1>5 DEF Inv, AllSound, Sound, AtHand, DialogType, Signing, Submitted, SubmissionFails, At
  <2>3. ASSUME NEW c \in Categories, IsNext(d, c), Record(d, c)
        PROVE  published' \in [Keys -> Selections]
    <3> DEFINE k == dialog[d].keyID
               s == [published[k] EXCEPT ![c] = dialog[d].wanted[c]]
    <3>1. published[k] \in Selections
      BY <2>2 DEF Inv, Others
    <3>2. s \in Selections
      BY <2>2, <3>1 DEF Selections
    <3>3. published' = [published EXCEPT ![k] = s]
      BY <2>3 DEF Record
    <3> HIDE DEF s
    <3> QED
      BY <2>2, <3>2, <3>3 DEF Inv, Others
  <2>4. published' \in [Keys -> Selections]
    BY <1>5, <2>3 DEF Inv, Others, Signing, Submitted, SubmissionFails
  <2>5. /\ UNCHANGED <<selectedKeyID, defaults, activeDialog, inputs>>
        /\ UNCHANGED failures \/ MayFail
    BY <1>5 DEF Signing, Submitted, SubmissionFails
  <2> QED
    BY <2>1, <2>4, <2>5, CountersType DEF Inv, Others, AllSound
<1>6. ASSUME NEW d \in Dialogs, Timer(d) PROVE Inv'
  <2>1. AllSound(dialog')
    BY <1>6, TimerIsSound
  <2>2. activeDialog' = NoDialog /\ UNCHANGED <<published, selectedKeyID, defaults, inputs, failures>>
    BY <1>6 DEF Timer
  <2> QED
    BY <2>1, <2>2 DEF Inv, Others, AllSound
<1>7. CASE Cancel
  <2>1. AllSound(dialog')
    BY <1>7, CloseIsSound DEF Cancel, Inv, Others
  <2>2. activeDialog' = NoDialog /\ UNCHANGED <<published, selectedKeyID, defaults, inputs, failures>>
    BY <1>7 DEF Cancel
  <2> QED
    BY <2>1, <2>2 DEF Inv, Others, AllSound
<1>8. ASSUME NEW k \in Keys, ChooseStoredKey(k) PROVE Inv'
  <2>1. UNCHANGED <<published, activeDialog, dialog, failures>> /\ MayChoose /\ SetKey(k)
    BY <1>8 DEF ChooseStoredKey
  <2> QED
    BY <2>1, CountersType DEF SetKey, Inv, Others, AllSound
<1>9. CASE Defaults
  <2>1. /\ UNCHANGED <<published, activeDialog, dialog, inputs>>
        /\ UNCHANGED failures \/ MayFail
        /\ selectedKeyID' \in {selectedKeyID, FirstKey}
        /\ defaults' \in {"none stored", "done"}
    BY <1>9 DEF Defaults, ReadDefaults, WriteDefaults, DefaultsFail
  <2> QED
    BY <2>1, KeysAssumption, CountersType DEF Inv, Others, AllSound
<1> QED
  BY <1>1, <1>2, <1>3, <1>4, <1>5, <1>6, <1>7, <1>8, <1>9 DEF Next, Step

-----------------------------------------------------------------------------
\* The fields of a dialog that is over, and of one that cannot sign.
LEMMA FieldsOfEnd ==
    /\ Over.stage = "over" /\ ~Over.inDocument /\ ~Over.read
    /\ \A x : /\ Keyless(x).stage = "keyless" /\ Keyless(x).inDocument
             /\ Keyless(x).overlapped = x.overlapped /\ ~Keyless(x).read
BY DEF Over, Keyless, New

\* What the user does in a dialog x, which becomes y, changes nothing of what it has found
\* and done.
Uses(x, y) ==
    /\ x.stage = "open" /\ y.stage \in {"open", "signing"}
    /\ y.inDocument = x.inDocument /\ y.overlapped = x.overlapped
    /\ y.mine = x.mine /\ y.read = x.read /\ y.before = x.before
    /\ y.posted = x.posted /\ y.disturbed = x.disturbed
    /\ y.stage = "signing" => y.wanted = x.after /\ y.actions = Actions(x)

\* Nor does it change the other dialogs.
LEMMA InputChanges ==
    ASSUME Inv, NEW d \in Dialogs, Input(d) \/ Sign(d)
    PROVE  /\ Uses(dialog[d], dialog'[d])
           /\ \A q \in Dialogs : q # d => dialog'[q] = dialog[q]
           /\ UNCHANGED <<published, activeDialog>>
<1>1. dialog \in [Dialogs -> DialogType] /\ dialog[d] \in DialogType
  BY DEF Inv, AllSound
<1> DEFINE x == dialog[d]
           t(s) == x.touched \union {c \in Categories : s[c] # x.after[c]}
           chosen(s) == [x EXCEPT !.after = s, !.touched = t(s)]
           keyed(k) == [x EXCEPT !.keySelect = k]
           signs(a) == [x EXCEPT !.stage = "signing", !.keyID = x.keySelect, !.wanted = x.after,
                                 !.actions = a]
<1>2. ASSUME x.stage = "open" PROVE Uses(x, x)
  BY <1>2 DEF Uses
<1>3. ASSUME NEW s \in Selections, Choose(d, s)
      PROVE  /\ x.stage = "open" /\ UNCHANGED <<published, activeDialog>>
             /\ dialog' = [dialog EXCEPT ![d] = chosen(s)]
  BY <1>3 DEF Choose, At
<1>4. ASSUME NEW k \in Keys, ChooseKey(d, k)
      PROVE  /\ x.stage = "open" /\ UNCHANGED <<published, activeDialog>>
             /\ dialog' = [dialog EXCEPT ![d] = keyed(k)]
  BY <1>4 DEF ChooseKey, At
<1>5. ASSUME Sign(d)
      PROVE  /\ x.stage = "open" /\ UNCHANGED <<published, activeDialog>>
             /\ dialog' = dialog \/ dialog' = [dialog EXCEPT ![d] = signs(Actions(x))]
  BY <1>5 DEF Sign, At
<1>6. ASSUME NEW s \in Selections, x.stage = "open" PROVE Uses(x, chosen(s))
  <2> HIDE DEF t
  <2> QED
    BY <1>1, <1>6 DEF Uses, DialogType
<1>7. ASSUME NEW k \in Keys, x.stage = "open" PROVE Uses(x, keyed(k))
  BY <1>1, <1>7 DEF Uses, DialogType
<1>8. ASSUME x.stage = "open" PROVE Uses(x, signs(Actions(x)))
  BY <1>1, <1>8 DEF Uses, DialogType
<1> HIDE DEF chosen, keyed, signs
<1>9. ASSUME NEW y, dialog' = [dialog EXCEPT ![d] = y]
      PROVE  dialog'[d] = y /\ \A q \in Dialogs : q # d => dialog'[q] = dialog[q]
  BY <1>1, <1>9
<1>10. CASE \E s \in Selections : Choose(d, s)
  BY <1>3, <1>6, <1>9, <1>10
<1>11. CASE \E k \in Keys : ChooseKey(d, k)
  BY <1>4, <1>7, <1>9, <1>11
<1>12. CASE Sign(d)
  BY <1>2, <1>5, <1>8, <1>9, <1>12
<1> QED
  BY <1>10, <1>11, <1>12 DEF Input

\* A submission that succeeds, told field by field.
LEMMA SubmittedChanges ==
    ASSUME Inv, NEW d \in Dialogs, Submitted(d)
    PROVE  /\ dialog[d].stage = "signing" /\ activeDialog' = activeDialog
           /\ \E c \in Categories :
                 /\ IsNext(d, c) /\ Record(d, c)
                 /\ \E s \in {"signing", "signed"} :
                       /\ s = "signed" => dialog[d].actions = {c}
                       /\ dialog'[d] = [dialog[d] EXCEPT !.posted = @ \union {c},
                                          !.actions = @ \ {c}, !.stage = s]
                 /\ \A q \in Dialogs : q # d => dialog'[q] = Posted(d, c)[q]
<1>1. dialog \in [Dialogs -> DialogType] /\ dialog[d] \in DialogType
  BY DEF Inv, AllSound
<1>2. dialog[d].stage = "signing" /\ activeDialog' = activeDialog
  BY DEF Submitted, At
<1>3. PICK c \in Categories :
         /\ IsNext(d, c) /\ Record(d, c)
         /\ dialog' = [Posted(d, c) EXCEPT ![d].actions = @ \ {c},
                         ![d].stage = IF dialog[d].actions = {c} THEN "signed" ELSE @]
  BY DEF Submitted
<1>4. \A q \in Dialogs : q # d => dialog'[q] = Posted(d, c)[q]
  BY <1>3 DEF Posted
<1>5. Posted(d, c)[d] = [dialog[d] EXCEPT !.posted = @ \union {c}]
  BY DEF Posted
<1> DEFINE s == IF dialog[d].actions = {c} THEN "signed" ELSE "signing"
<1>6. dialog'[d] = [dialog[d] EXCEPT !.posted = @ \union {c}, !.actions = @ \ {c}, !.stage = s]
  <2> DEFINE x == [dialog[d] EXCEPT !.posted = @ \union {c}]
  <2>1. dialog'[d] = [x EXCEPT !.actions = @ \ {c},
                               !.stage = IF dialog[d].actions = {c} THEN "signed" ELSE @]
    BY <1>3, <1>5 DEF Posted
  <2> QED
    BY <1>1, <1>2, <2>1 DEF DialogType
<1> QED
  BY <1>2, <1>3, <1>4, <1>6

\* A submission that fails, told likewise.
LEMMA FailureChanges ==
    ASSUME Inv, NEW d \in Dialogs, SubmissionFails(d)
    PROVE  /\ dialog[d].stage = "signing" /\ activeDialog' = activeDialog
           /\ \/ dialog'[d] = Over /\ ~dialog[d].inDocument
              \/ \E p \in SUBSET Categories :
                    dialog'[d] = [dialog[d] EXCEPT !.posted = p, !.stage = "open", !.keyID = NoKey,
                                     !.wanted = Nothing, !.actions = {}]
           /\ \/ /\ published' = published
                 /\ dialog'[d] = Over \/ dialog'[d].posted = dialog[d].posted
                 /\ \A q \in Dialogs : q # d => dialog'[q] = dialog[q]
              \/ \E c \in Categories :
                    /\ Record(d, c)
                    /\ dialog'[d] = Over \/ dialog'[d].posted = dialog[d].posted \union {c}
                    /\ \A q \in Dialogs : q # d => dialog'[q] = Posted(d, c)[q]
<1>1. dialog \in [Dialogs -> DialogType] /\ dialog[d] \in DialogType
  BY DEF Inv, AllSound
<1>2. dialog[d].stage = "signing" /\ activeDialog' = activeDialog
  BY DEF SubmissionFails, At
<1>3. CASE published' = published /\ dialog' = Failed(dialog, d)
  <2>1. \A q \in Dialogs : q # d => dialog'[q] = dialog[q]
    BY <1>1, <1>3 DEF Failed
  <2>2. dialog'[d] = IF dialog[d].inDocument
                     THEN [dialog[d] EXCEPT !.stage = "open", !.keyID = NoKey, !.wanted = Nothing,
                                            !.actions = {}]
                     ELSE Over
    BY <1>1, <1>3 DEF Failed
  <2>3. CASE dialog[d].inDocument
    <3>1. dialog'[d] = [dialog[d] EXCEPT !.posted = dialog[d].posted, !.stage = "open",
                           !.keyID = NoKey, !.wanted = Nothing, !.actions = {}]
      <4>1. \A x \in DialogType : [x EXCEPT !.posted = x.posted] = x
        BY DEF DialogType
      <4> QED
        BY <1>1, <2>2, <2>3, <4>1
    <3>2. dialog[d].posted \in SUBSET Categories
      BY <1>1 DEF DialogType
    <3>3. dialog'[d].posted = dialog[d].posted
      BY <1>1, <2>2, <2>3 DEF DialogType
    <3> QED
      BY <1>2, <1>3, <2>1, <3>1, <3>2, <3>3
  <2> QED
    BY <1>2, <1>3, <2>1, <2>2, <2>3
<1>4. ASSUME NEW c \in Categories, Record(d, c), dialog' = Failed(Posted(d, c), d)
      PROVE  /\ \A q \in Dialogs : q # d => dialog'[q] = Posted(d, c)[q]
             /\ \/ dialog'[d] = Over /\ ~dialog[d].inDocument
                \/ dialog'[d] = [dialog[d] EXCEPT !.posted = dialog[d].posted \union {c},
                       !.stage = "open", !.keyID = NoKey, !.wanted = Nothing, !.actions = {}]
  <2> DEFINE x == [dialog[d] EXCEPT !.posted = @ \union {c}]
  <2>1. Posted(d, c)[d] = x
    BY DEF Posted
  <2>2. \A q \in Dialogs : q # d => dialog'[q] = Posted(d, c)[q]
    BY <1>4 DEF Failed, Posted
  <2>3. x.inDocument = dialog[d].inDocument
    BY <1>1 DEF DialogType
  <2>4. dialog'[d] = IF x.inDocument
                     THEN [x EXCEPT !.stage = "open", !.keyID = NoKey, !.wanted = Nothing,
                                    !.actions = {}]
                     ELSE Over
    BY <1>4, <2>1 DEF Failed, Posted
  <2> QED
    BY <1>1, <2>2, <2>3, <2>4 DEF DialogType
<1> DEFINE y(p) == [dialog[d] EXCEPT !.posted = p, !.stage = "open", !.keyID = NoKey,
                                      !.wanted = Nothing, !.actions = {}]
<1>5. \A p \in SUBSET Categories : y(p).posted = p
  BY <1>1 DEF DialogType
<1>6. ASSUME NEW c \in Categories
      PROVE  dialog[d].posted \union {c} \in SUBSET Categories
  BY <1>1 DEF DialogType
<1>7. CASE \E c \in Categories :
              IsNext(d, c) /\ Record(d, c) /\ dialog' = Failed(Posted(d, c), d)
  <2>1. PICK c \in Categories : Record(d, c) /\ dialog' = Failed(Posted(d, c), d)
    BY <1>7
  <2> DEFINE p == dialog[d].posted \union {c}
  <2>2. p \in SUBSET Categories
    BY <1>6
  <2>3. /\ \A q \in Dialogs : q # d => dialog'[q] = Posted(d, c)[q]
        /\ (dialog'[d] = Over /\ ~dialog[d].inDocument) \/ dialog'[d] = y(p)
    BY <1>4, <2>1
  <2>4. y(p).posted = p
    BY <1>5, <2>2
  <2> HIDE DEF y, p
  <2>5. \/ dialog'[d] = Over /\ ~dialog[d].inDocument
        \/ \E r \in SUBSET Categories : dialog'[d] = y(r)
    BY <2>2, <2>3
  <2>6. dialog'[d] = Over \/ dialog'[d].posted = p
    BY <2>3, <2>4
  <2> QED
    BY <1>2, <2>1, <2>3, <2>5, <2>6 DEF y, p
<1> QED
  BY <1>3, <1>7 DEF SubmissionFails

-----------------------------------------------------------------------------
\* Whoever is on the page without being active has overlapped another opening; for this to
\* last, so have two that are being opened, and the one that is active meanwhile.
Visible ==
    /\ activeDialog # NoDialog => dialog[activeDialog].inDocument
    /\ \A d \in Dialogs : dialog[d].stage \in {"new", "opening", "over"} => ~dialog[d].inDocument
    /\ StrayDialogs
    /\ \A d \in Opening :
          /\ activeDialog # NoDialog => dialog[activeDialog].overlapped
          /\ \A q \in Opening : q # d => dialog[d].overlapped

\* What closeAttestDialog leaves on the page, and what it does not change.
LEMMA CloseLeaves ==
    ASSUME Inv, Visible, NEW q \in Dialogs
    PROVE  /\ CloseActive(dialog)[q].inDocument =>
                 dialog[q].inDocument /\ q # activeDialog /\ CloseActive(dialog)[q] = dialog[q]
           /\ dialog[q].stage \in {"new", "opening", "signed"} =>
                 /\ CloseActive(dialog)[q].stage = dialog[q].stage
                 /\ CloseActive(dialog)[q].overlapped = dialog[q].overlapped
           /\ CloseActive(dialog)[q].stage \in {"new", "opening", "over"} =>
                 ~CloseActive(dialog)[q].inDocument
           /\ CloseActive(dialog)[q].stage = "opening" => dialog[q].stage = "opening"
<1>1. CASE activeDialog = NoDialog \/ q # activeDialog
  BY <1>1 DEF CloseActive, Visible, Inv, AllSound, NoDialog, Dialogs
<1>2. CASE activeDialog # NoDialog /\ q = activeDialog
  <2>1. dialog[q] \in DialogType /\ dialog[q].inDocument
    BY <1>2 DEF Inv, AllSound, Visible
  <2>2. dialog[q].stage \notin {"new", "opening", "over"}
    BY <2>1 DEF Visible
  <2>3. CASE dialog[q].stage \in {"signing", "signed"}
    <3>1. CloseActive(dialog)[q] = [dialog[q] EXCEPT !.inDocument = FALSE]
      BY <1>2, <2>3 DEF CloseActive, Inv, AllSound
    <3> QED
      BY <2>1, <2>3, <3>1 DEF DialogType
  <2>4. CASE dialog[q].stage \notin {"signing", "signed"}
    <3>1. CloseActive(dialog)[q] = Over
      BY <1>2, <2>4 DEF CloseActive, Inv, AllSound
    <3> QED
      BY <2>2, <2>4, <3>1 DEF Over, New
  <2> QED
    BY <2>3, <2>4
<1> QED
  BY <1>1, <1>2

\* No step lets a dialog that has overlapped none out of reach.
LEMMA VisibleStep == Inv /\ Visible /\ [Next]_vars => Visible'
<1> SUFFICES ASSUME Inv, Visible, [Next]_vars PROVE Visible'
  OBVIOUS
<1>0. \A q \in Dialogs : dialog[q] \in DialogType /\ q # NoDialog
  BY DEF Inv, AllSound, Dialogs, NoDialog
<1>a. activeDialog \in Dialogs \union {NoDialog} /\ dialog \in [Dialogs -> DialogType]
  BY DEF Inv, Others, AllSound
<1>1. CASE UNCHANGED <<activeDialog, dialog>>
  BY <1>1 DEF Visible, StrayDialogs, Opening, At
<1>2. ASSUME NEW d \in Dialogs, Open(d) PROVE Visible'
  <2> DEFINE ds == CloseActive(dialog)
  <2>1. /\ ds \in [Dialogs -> DialogType]
        /\ dialog' = Join(d, ds) /\ activeDialog' = NoDialog /\ dialog[d].stage = "new"
    BY <1>2, CloseIsSound DEF Open, At, Inv, Others, AllSound
  <2>2. ASSUME NEW q \in Dialogs
        PROVE  /\ dialog'[q].inDocument = ds[q].inDocument
               /\ q # d => dialog'[q].stage = ds[q].stage
               /\ dialog'[q].stage = "opening" => q = d \/ dialog[q].stage = "opening"
               /\ q # d /\ dialog[q].stage # "opening" => dialog'[q].overlapped = ds[q].overlapped
               /\ q # d /\ dialog[q].stage = "opening" => dialog'[q].overlapped
               /\ q = d => dialog'[q].stage = "opening" /\ dialog'[q].overlapped = (Opening # {})
    <3>1. ds[q] \in DialogType
      BY <2>1
    <3>2. ds[q].stage = "opening" => dialog[q].stage = "opening"
      BY CloseLeaves
    <3> HIDE DEF ds
    <3>3. CASE q = d
      BY <2>1, <3>1, <3>3 DEF Join, DialogType
    <3>4. CASE q # d /\ q \in Opening
      BY <2>1, <3>1, <3>2, <3>4 DEF Join, DialogType, Opening, At
    <3>5. CASE q # d /\ q \notin Opening
      BY <2>1, <3>1, <3>2, <3>5 DEF Join, Opening, At
    <3> QED
      BY <3>3, <3>4, <3>5
  <2>3. ASSUME NEW q \in Dialogs, dialog'[q].inDocument
        PROVE  dialog'[q].overlapped /\ dialog'[q].stage \notin {"new", "opening", "over"}
    <3>1. ds[q].inDocument /\ dialog[q].inDocument /\ q # activeDialog /\ ds[q] = dialog[q]
      BY <2>2, <2>3, CloseLeaves
    <3>2. dialog[q].overlapped /\ dialog[q].stage \notin {"new", "opening", "over"}
      BY <3>1 DEF Visible, StrayDialogs
    <3> QED
      BY <2>1, <2>2, <3>1, <3>2
  <2>4. ASSUME NEW q \in Dialogs, NEW r \in Dialogs, q # r,
               dialog'[q].stage = "opening", dialog'[r].stage = "opening"
        PROVE  dialog'[q].overlapped
    BY <2>2, <2>4 DEF Opening, At
  <2> QED
    BY <2>1, <2>3, <2>4 DEF Visible, StrayDialogs, Opening, At
<1>3. ASSUME NEW d \in Dialogs, GetKey(d) \/ GetMyKey(d) \/ GetMyVerdicts(d) PROVE Visible'
  <2>1. \A q \in Dialogs : /\ dialog'[q].stage = dialog[q].stage
                           /\ dialog'[q].inDocument = dialog[q].inDocument
                           /\ dialog'[q].overlapped = dialog[q].overlapped
    BY <1>0, <1>a, <1>3 DEF GetKey, GetMyKey, GetMyVerdicts, DialogType
  <2>2. activeDialog' = activeDialog
    BY <1>3 DEF GetKey, GetMyKey, GetMyVerdicts
  <2> QED
    BY <1>a, <2>1, <2>2 DEF Visible, StrayDialogs, Opening, At
<1>4. ASSUME NEW d \in Dialogs, ShowDialog(d) \/ ShowKeyless(d) PROVE Visible'
  <2>1. dialog[d].stage = "opening" /\ activeDialog' = d
    BY <1>4 DEF ShowDialog, ShowKeyless, At
  <2>2. /\ dialog'[d].stage \in {"open", "keyless"} /\ dialog'[d].inDocument
        /\ dialog'[d].overlapped = dialog[d].overlapped
        /\ \A q \in Dialogs : q # d => dialog'[q] = dialog[q]
    <3>1. CASE ShowDialog(d)
      BY <1>0, <1>a, <3>1 DEF ShowDialog, DialogType
    <3>2. CASE ShowKeyless(d)
      BY <1>a, <3>2, FieldsOfEnd DEF ShowKeyless
    <3> QED
      BY <1>4, <3>1, <3>2
  <2>3. ASSUME NEW q \in Dialogs, q # d, dialog'[q].inDocument
        PROVE  dialog'[q].overlapped
    BY <1>0, <1>a, <2>1, <2>2, <2>3 DEF Visible, StrayDialogs, Opening, At
  <2>4. ASSUME NEW q \in Dialogs, dialog'[q].stage = "opening"
        PROVE  dialog'[d].overlapped
               /\ \A r \in Dialogs : r # q /\ dialog'[r].stage = "opening" => dialog'[q].overlapped
    BY <2>1, <2>2, <2>4 DEF Visible, Opening, At
  <2>5. \A q \in Dialogs : dialog'[q].stage \in {"new", "opening", "over"} => ~dialog'[q].inDocument
    BY <2>2 DEF Visible
  <2> QED
    BY <2>1, <2>2, <2>3, <2>4, <2>5 DEF Visible, StrayDialogs, Opening, At
<1>5. ASSUME NEW d \in Dialogs, Input(d) \/ Sign(d) \/ Signing(d) PROVE Visible'
  <2>1. /\ dialog[d].stage \in {"open", "signing"}
        /\ dialog'[d].stage \in {"open", "signing", "signed", "over"}
        /\ \/ /\ dialog'[d].inDocument = dialog[d].inDocument
              /\ dialog'[d].overlapped = dialog[d].overlapped
              /\ dialog'[d].stage # "over"
           \/ ~dialog'[d].inDocument /\ ~dialog[d].inDocument
    <3>1. CASE Input(d) \/ Sign(d)
      BY <3>1, InputChanges DEF Uses
    <3>2. CASE Submitted(d)
      <4>0. PICK c \in Categories :
               \E s \in {"signing", "signed"} :
                  dialog'[d] = [dialog[d] EXCEPT !.posted = @ \union {c}, !.actions = @ \ {c},
                                                 !.stage = s]
        <5>1. PICK c \in Categories :
                 \E s \in {"signing", "signed"} :
                    /\ s = "signed" => dialog[d].actions = {c}
                    /\ dialog'[d] = [dialog[d] EXCEPT !.posted = @ \union {c},
                                       !.actions = @ \ {c}, !.stage = s]
          BY <3>2, SubmittedChanges, Zenon
        <5> QED
          BY <5>1, Zenon
      <4>1. PICK s \in {"signing", "signed"} :
               dialog'[d] = [dialog[d] EXCEPT !.posted = @ \union {c}, !.actions = @ \ {c},
                                              !.stage = s]
        BY <4>0
      <4>2. dialog[d].stage = "signing"
        BY <3>2, SubmittedChanges
      <4> QED
        BY <1>0, <4>1, <4>2 DEF DialogType
    <3>3. CASE SubmissionFails(d)
      <4>1. dialog[d].stage = "signing"
        BY <3>3, FailureChanges
      <4>2. CASE dialog'[d] = Over /\ ~dialog[d].inDocument
        BY <4>1, <4>2, FieldsOfEnd
      <4>3. ASSUME NEW p \in SUBSET Categories,
                   dialog'[d] = [dialog[d] EXCEPT !.posted = p, !.stage = "open",
                                    !.keyID = NoKey, !.wanted = Nothing, !.actions = {}]
            PROVE  /\ dialog'[d].stage = "open"
                   /\ dialog'[d].inDocument = dialog[d].inDocument
                   /\ dialog'[d].overlapped = dialog[d].overlapped
        BY <1>0, <4>3 DEF DialogType
      <4> QED
        BY <3>3, <4>1, <4>2, <4>3, FailureChanges
    <3> QED
      BY <1>5, <3>1, <3>2, <3>3 DEF Signing
  <2>2. \A q \in Dialogs : q # d => /\ dialog'[q].stage = dialog[q].stage
                                    /\ dialog'[q].inDocument = dialog[q].inDocument
                                    /\ dialog'[q].overlapped = dialog[q].overlapped
    <3>1. ASSUME NEW q \in Dialogs, q # d, NEW c \in Categories
          PROVE  /\ Posted(d, c)[q].stage = dialog[q].stage
                 /\ Posted(d, c)[q].inDocument = dialog[q].inDocument
                 /\ Posted(d, c)[q].overlapped = dialog[q].overlapped
      BY <1>0, <3>1 DEF Posted, DialogType
    <3>2. CASE Submitted(d)
      <4>1. PICK c \in Categories : \A q \in Dialogs : q # d => dialog'[q] = Posted(d, c)[q]
        BY <3>2, SubmittedChanges
      <4> QED
        BY <3>1, <4>1
    <3>3. CASE SubmissionFails(d)
      <4>1. \/ \A q \in Dialogs : q # d => dialog'[q] = dialog[q]
            \/ \E c \in Categories : \A q \in Dialogs : q # d => dialog'[q] = Posted(d, c)[q]
        BY <3>3, FailureChanges
      <4> QED
        BY <3>1, <4>1
    <3> QED
      BY <1>5, <3>2, <3>3, InputChanges DEF Signing
  <2>3. activeDialog' = activeDialog
    BY <1>5 DEF Input, Choose, ChooseKey, Sign, Signing, Submitted, SubmissionFails
  <2> QED
    BY <1>a, <2>1, <2>2, <2>3 DEF Visible, StrayDialogs, Opening, At
<1>6. ASSUME Cancel \/ \E d \in Dialogs : Timer(d) PROVE Visible'
  <2> DEFINE ds == CloseActive(dialog)
  <2>1. activeDialog' = NoDialog /\ ds \in [Dialogs -> DialogType]
    BY <1>6, CloseIsSound DEF Cancel, Timer, Inv, Others, AllSound
  <2>2. ASSUME NEW q \in Dialogs
        PROVE  \/ dialog'[q] = ds[q]
               \/ /\ dialog[q].stage = "signed"
                  /\ \/ dialog'[q] = Keyless(ds[q]) /\ ds[q].inDocument
                     \/ dialog'[q] = Over
    <3> HIDE DEF ds
    <3> QED
      BY <1>6, <2>1 DEF Cancel, Timer, At, ds
  <2>3. ASSUME NEW q \in Dialogs, dialog'[q].inDocument
        PROVE  dialog'[q].overlapped /\ dialog'[q].stage \notin {"new", "opening", "over"}
    <3>1. ds[q].inDocument
      BY <2>2, <2>3, FieldsOfEnd
    <3>2. dialog[q].inDocument /\ q # activeDialog /\ ds[q] = dialog[q]
      BY <3>1, CloseLeaves
    <3>3. dialog[q].overlapped /\ dialog[q].stage \notin {"new", "opening", "over"}
      BY <3>2 DEF Visible, StrayDialogs
    <3> QED
      BY <2>2, <2>3, <3>2, <3>3, FieldsOfEnd
  <2>4. ASSUME NEW q \in Dialogs, dialog'[q].stage = "opening"
        PROVE  dialog[q].stage = "opening" /\ dialog'[q].overlapped = dialog[q].overlapped
    <3>1. dialog'[q] = ds[q]
      BY <2>2, <2>4, FieldsOfEnd
    <3> QED
      BY <2>4, <3>1, CloseLeaves
  <2> QED
    BY <2>1, <2>3, <2>4 DEF Visible, StrayDialogs, Opening, At
<1>7. CASE Defaults \/ \E k \in Keys : ChooseStoredKey(k)
  BY <1>1, <1>7 DEF Defaults, ReadDefaults, WriteDefaults, DefaultsFail, ChooseStoredKey
<1> QED
  BY <1>1, <1>2, <1>3, <1>4, <1>5, <1>6, <1>7 DEF Next, Step, Answered, vars

-----------------------------------------------------------------------------
\* What the log has of the key whose verdicts a dialog has read is what it found, unless it
\* has posted something itself; what it signs with that key, and has not left to submit, is
\* in the log as it was wanted, or was taken for unchanged.
Faithful(x, pub) ==
    /\ x.read /\ x.mine \in Keys /\ ~x.disturbed =>
          \A c \in Categories : pub[x.mine][c] = x.before[c] \/ c \in x.posted
    /\ x.stage \in {"signing", "signed"} /\ x.keyID = x.mine /\ ~x.disturbed =>
          \A c \in Categories \ x.actions :
             pub[x.keyID][c] = x.wanted[c] \/ (c \in x.posted /\ x.wanted[c] = x.before[c])
    /\ x.stage = "signed" => x.actions = {}

AllFaithful == \A d \in Dialogs : Faithful(dialog[d], published)

\* A dialog that has read nothing is faithful.
LEMMA EndIsFaithful ==
    ASSUME NEW pub
    PROVE  Faithful(New, pub) /\ Faithful(Over, pub) /\ \A x : Faithful(Keyless(x), pub)
BY DEF Faithful, New, Over, Keyless

\* A dialog stays so as long as it has the same work at hand, or none.
LEMMA SameWork ==
    ASSUME NEW pub, NEW x, Faithful(x, pub), NEW y,
           y.read = x.read /\ y.mine = x.mine /\ y.before = x.before /\ y.posted = x.posted,
           y.disturbed = x.disturbed,
           \/ y.stage \notin {"signing", "signed"}
           \/ /\ y.stage = x.stage /\ y.keyID = x.keyID
              /\ y.wanted = x.wanted /\ y.actions = x.actions
    PROVE  Faithful(y, pub)
BY DEF Faithful

\* closeAttestDialog leaves every dialog faithful.
LEMMA CloseIsFaithful ==
    ASSUME Inv, AllFaithful, NEW q \in Dialogs
    PROVE  Faithful(CloseActive(dialog)[q], published)
<1>1. dialog \in [Dialogs -> DialogType] /\ dialog[q] \in DialogType
  BY DEF Inv, AllSound
<1> DEFINE y == [dialog[q] EXCEPT !.inDocument = FALSE]
<1>2. CloseActive(dialog)[q] \in {dialog[q], y, Over}
  BY <1>1 DEF CloseActive
<1>3. Faithful(y, published)
  <2>1. /\ y.read = dialog[q].read /\ y.mine = dialog[q].mine /\ y.before = dialog[q].before
        /\ y.posted = dialog[q].posted /\ y.disturbed = dialog[q].disturbed
        /\ y.stage = dialog[q].stage /\ y.keyID = dialog[q].keyID
        /\ y.wanted = dialog[q].wanted /\ y.actions = dialog[q].actions
    BY <1>1 DEF DialogType
  <2>2. Faithful(dialog[q], published)
    BY DEF AllFaithful
  <2> HIDE DEF y
  <2> QED
    BY <2>1, <2>2, SameWork
<1> QED
  BY <1>2, <1>3, EndIsFaithful DEF AllFaithful

\* What the log holds after one verdict.
LEMMA RecordAt ==
    ASSUME Inv, NEW d \in Dialogs, dialog[d].keyID \in Keys, NEW c \in Categories, Record(d, c)
    PROVE  /\ published'[dialog[d].keyID][c] = dialog[d].wanted[c]
           /\ \A k \in Keys, b \in Categories :
                 k # dialog[d].keyID \/ b # c => published'[k][b] = published[k][b]
<1>1. published \in [Keys -> Selections]
  BY DEF Inv, Others
<1>2. \A k \in Keys : published[k] \in [Categories -> UNION {Offered(b) : b \in Categories}]
  BY <1>1 DEF Selections
<1> QED
  BY <1>1, <1>2 DEF Record

\* Another dialog's submission leaves a dialog faithful: it has none of its keys, or disturbs it.
LEMMA OtherIsFaithful ==
    ASSUME Inv, AllFaithful, NEW d \in Dialogs, dialog[d].stage = "signing",
           NEW c \in Categories, Record(d, c), NEW q \in Dialogs, q # d
    PROVE  Faithful(Posted(d, c)[q], published')
<1> DEFINE x == dialog[q]
           hit == x.disturbed \/ (x.read /\ x.mine = dialog[d].keyID)
           y == [x EXCEPT !.disturbed = hit]
<1>1. x \in DialogType /\ AtHand(x) /\ Faithful(x, published)
  BY DEF Inv, AllSound, Sound, AllFaithful
<1>2. dialog[d].keyID \in Keys
  BY DEF Inv, AllSound, Sound, AtHand
<1>3. Posted(d, c)[q] = y
  BY DEF Posted
<1>4. /\ y.read = x.read /\ y.mine = x.mine /\ y.before = x.before /\ y.posted = x.posted
      /\ y.stage = x.stage /\ y.keyID = x.keyID /\ y.wanted = x.wanted /\ y.actions = x.actions
      /\ y.disturbed = hit
  BY <1>1 DEF DialogType
<1>5. \A k \in Keys, b \in Categories : k # dialog[d].keyID => published'[k][b] = published[k][b]
  BY <1>2, RecordAt
<1>6. x.stage \in {"signing", "signed"} => x.read /\ x.keyID \in Keys
  BY <1>1 DEF AtHand
<1>7. y.disturbed \/ (~x.disturbed /\ ~(x.read /\ x.mine = dialog[d].keyID))
  BY <1>4, Zenon
<1> HIDE DEF y
<1>8. /\ y.read /\ y.mine \in Keys /\ ~y.disturbed =>
            \A b \in Categories : published'[y.mine][b] = y.before[b] \/ b \in y.posted
      /\ y.stage \in {"signing", "signed"} /\ y.keyID = y.mine /\ ~y.disturbed =>
            \A b \in Categories \ y.actions :
               published'[y.keyID][b] = y.wanted[b] \/ (b \in y.posted /\ y.wanted[b] = y.before[b])
  <2>1. CASE y.disturbed
    BY <2>1
  <2>2. CASE ~x.disturbed /\ ~(x.read /\ x.mine = dialog[d].keyID)
    <3>1. ASSUME y.read, y.mine \in Keys, NEW b \in Categories
          PROVE  published'[y.mine][b] = y.before[b] \/ b \in y.posted
      BY <1>1, <1>4, <1>5, <2>2, <3>1 DEF Faithful
    <3>2. ASSUME y.stage \in {"signing", "signed"}, y.keyID = y.mine,
                 NEW b \in Categories \ y.actions
          PROVE  \/ published'[y.keyID][b] = y.wanted[b]
                 \/ b \in y.posted /\ y.wanted[b] = y.before[b]
      BY <1>1, <1>4, <1>5, <1>6, <2>2, <3>2 DEF Faithful
    <3> QED
      BY <3>1, <3>2
  <2> QED
    BY <1>7, <2>1, <2>2
<1>9. y.stage = "signed" => y.actions = {}
  BY <1>1, <1>4 DEF Faithful
<1> QED
  BY <1>3, <1>8, <1>9, Zenon DEF Faithful

\* Its own submission leaves a dialog x faithful: y is x after it.
LEMMA OwnIsFaithful ==
    ASSUME Inv, AllFaithful, NEW d \in Dialogs, dialog[d].stage = "signing",
           NEW c \in Categories, Record(d, c), NEW y,
           y.read = dialog[d].read /\ y.mine = dialog[d].mine /\ y.before = dialog[d].before,
           y.disturbed = dialog[d].disturbed /\ y.posted = dialog[d].posted \union {c},
           \/ y.stage = "open"
           \/ /\ y.keyID = dialog[d].keyID /\ y.wanted = dialog[d].wanted
              /\ y.actions = dialog[d].actions \ {c}
              /\ y.stage = "signing" \/ (y.stage = "signed" /\ dialog[d].actions = {c})
    PROVE  Faithful(y, published')
<1> DEFINE x == dialog[d]
<1>1. x \in DialogType /\ x.keyID \in Keys /\ Faithful(x, published)
  BY DEF Inv, AllSound, Sound, AtHand, AllFaithful
<1>2. /\ published'[x.keyID][c] = x.wanted[c]
      /\ \A k \in Keys, b \in Categories : b # c => published'[k][b] = published[k][b]
  BY <1>1, RecordAt
<1>3. ASSUME y.read, y.mine \in Keys, ~y.disturbed, NEW b \in Categories
      PROVE  published'[y.mine][b] = y.before[b] \/ b \in y.posted
  BY <1>1, <1>2, <1>3 DEF Faithful
<1>4. ASSUME y.stage \in {"signing", "signed"}, y.keyID = y.mine, ~y.disturbed,
             NEW b \in Categories \ y.actions
      PROVE  \/ published'[y.keyID][b] = y.wanted[b]
             \/ b \in y.posted /\ y.wanted[b] = y.before[b]
  <2>1. CASE b = c
    BY <1>1, <1>2, <1>4, <2>1
  <2>2. CASE b # c
    BY <1>1, <1>2, <1>4, <2>2 DEF Faithful
  <2> QED
    BY <2>1, <2>2
<1>5. y.stage = "signed" => y.actions = {}
  OBVIOUS
<1>6. y.read /\ y.mine \in Keys /\ ~y.disturbed =>
         \A b \in Categories : published'[y.mine][b] = y.before[b] \/ b \in y.posted
  BY <1>3, Zenon
<1>7. y.stage \in {"signing", "signed"} /\ y.keyID = y.mine /\ ~y.disturbed =>
         \A b \in Categories \ y.actions :
            published'[y.keyID][b] = y.wanted[b] \/ (b \in y.posted /\ y.wanted[b] = y.before[b])
  BY <1>4, Zenon
<1> QED
  BY <1>5, <1>6, <1>7, Zenon DEF Faithful

\* A dialog that has found x, and is asked to sign it, is faithful: it submits the difference.
LEMMA SignIsFaithful ==
    ASSUME Inv, NEW x, Faithful(x, published), AtHand(x), NEW y, Uses(x, y),
           y.stage = "signing" => y.keyID \in Keys
    PROVE  Faithful(y, published)
<1>1. y.stage # "signed" /\ x.read
  BY DEF Uses, AtHand
<1>2. ASSUME y.stage = "signing", y.keyID = y.mine, ~y.disturbed, NEW c \in Categories \ y.actions
      PROVE  \/ published[y.keyID][c] = y.wanted[c]
             \/ c \in y.posted /\ y.wanted[c] = y.before[c]
  <2>1. x.before[c] = x.after[c]
    BY <1>2 DEF Uses, Actions
  <2>2. published[x.mine][c] = x.before[c] \/ c \in x.posted
    BY <1>1, <1>2 DEF Uses, Faithful
  <2> QED
    BY <1>2, <2>1, <2>2 DEF Uses
<1>3. y.read /\ y.mine \in Keys /\ ~y.disturbed =>
         \A c \in Categories : published[y.mine][c] = y.before[c] \/ c \in y.posted
  BY DEF Uses, Faithful
<1> QED
  BY <1>1, <1>2, <1>3 DEF Faithful

\* A submission leaves every dialog faithful, whether it succeeds or fails.
LEMMA SigningIsFaithful ==
    ASSUME Inv, AllFaithful, NEW d \in Dialogs, Signing(d)
    PROVE  AllFaithful'
<1>1. dialog \in [Dialogs -> DialogType] /\ dialog[d] \in DialogType
  BY DEF Inv, AllSound
<1>2. dialog[d].stage = "signing"
  BY SubmittedChanges, FailureChanges DEF Signing
<1> DEFINE open(p) == [dialog[d] EXCEPT !.posted = p, !.stage = "open", !.keyID = NoKey,
                                         !.wanted = Nothing, !.actions = {}]
<1>3. ASSUME NEW p \in SUBSET Categories
      PROVE  /\ open(p).stage = "open" /\ open(p).read = dialog[d].read
             /\ open(p).mine = dialog[d].mine /\ open(p).before = dialog[d].before
             /\ open(p).posted = p /\ open(p).disturbed = dialog[d].disturbed
  BY <1>1 DEF DialogType
<1>4. CASE Submitted(d)
  <2>1. PICK c \in Categories :
           /\ Record(d, c)
           /\ \E s \in {"signing", "signed"} :
                 /\ s = "signed" => dialog[d].actions = {c}
                 /\ dialog'[d] = [dialog[d] EXCEPT !.posted = @ \union {c},
                                    !.actions = @ \ {c}, !.stage = s]
           /\ \A q \in Dialogs : q # d => dialog'[q] = Posted(d, c)[q]
    BY <1>4, SubmittedChanges, Zenon
  <2>2. PICK s \in {"signing", "signed"} :
           /\ s = "signed" => dialog[d].actions = {c}
           /\ dialog'[d] = [dialog[d] EXCEPT !.posted = @ \union {c}, !.actions = @ \ {c},
                                             !.stage = s]
    BY <2>1, Zenon
  <2> DEFINE y == dialog'[d]
  <2>3. /\ y.read = dialog[d].read /\ y.mine = dialog[d].mine /\ y.before = dialog[d].before
        /\ y.disturbed = dialog[d].disturbed /\ y.posted = dialog[d].posted \union {c}
        /\ y.keyID = dialog[d].keyID /\ y.wanted = dialog[d].wanted
        /\ y.actions = dialog[d].actions \ {c}
        /\ y.stage = s
    BY <1>1, <2>2 DEF DialogType
  <2> HIDE DEF y
  <2>4. Faithful(y, published')
    BY <1>2, <2>1, <2>2, <2>3, OwnIsFaithful
  <2>5. \A q \in Dialogs : q # d => Faithful(dialog'[q], published')
    BY <1>2, <2>1, OtherIsFaithful
  <2> QED
    BY <2>4, <2>5 DEF AllFaithful, y
<1>5. CASE SubmissionFails(d)
  <2>1. dialog'[d] = Over \/ \E p \in SUBSET Categories : dialog'[d] = open(p)
    BY <1>5, FailureChanges
  <2> HIDE DEF open
  <2>2. \/ dialog'[d] = Over
        \/ dialog'[d] = open(dialog'[d].posted) /\ dialog'[d].posted \in SUBSET Categories
    BY <1>3, <2>1
  <2> DEFINE y == dialog'[d]
  <2>3. \/ y = Over
        \/ /\ y.stage = "open" /\ y.read = dialog[d].read /\ y.mine = dialog[d].mine
           /\ y.before = dialog[d].before /\ y.disturbed = dialog[d].disturbed
    BY <1>3, <2>2
  <2>4. CASE /\ published' = published
             /\ y = Over \/ y.posted = dialog[d].posted
             /\ \A q \in Dialogs : q # d => dialog'[q] = dialog[q]
    <3>1. Faithful(dialog[d], published)
      BY DEF AllFaithful
    <3> HIDE DEF y
    <3>2. Faithful(y, published)
      BY <2>3, <2>4, <3>1, EndIsFaithful, SameWork
    <3> QED
      BY <2>4, <3>2 DEF AllFaithful, y
  <2>5. ASSUME NEW c \in Categories, Record(d, c),
               y = Over \/ y.posted = dialog[d].posted \union {c},
               \A q \in Dialogs : q # d => dialog'[q] = Posted(d, c)[q]
        PROVE  AllFaithful'
    <3>1. \A q \in Dialogs : q # d => Faithful(dialog'[q], published')
      BY <1>2, <2>5, OtherIsFaithful
    <3> HIDE DEF y
    <3>2. Faithful(y, published')
      BY <1>2, <2>3, <2>5, EndIsFaithful, OwnIsFaithful
    <3> QED
      BY <3>1, <3>2 DEF AllFaithful, y
  <2> QED
    BY <1>5, <2>4, <2>5, FailureChanges
<1> QED
  BY <1>4, <1>5 DEF Signing

\* Every step leaves every dialog faithful.
LEMMA FaithfulStep == Inv /\ AllFaithful /\ [Next]_vars => AllFaithful'
<1> SUFFICES ASSUME Inv, AllFaithful, [Next]_vars PROVE AllFaithful'
  OBVIOUS
<1>0. dialog \in [Dialogs -> DialogType] /\ \A q \in Dialogs : dialog[q] \in DialogType
  BY DEF Inv, AllSound
<1>1. CASE UNCHANGED <<published, dialog>>
  BY <1>1 DEF AllFaithful
<1>2. ASSUME NEW d \in Dialogs, NEW y, dialog' = [dialog EXCEPT ![d] = y],
             Faithful(y, published), UNCHANGED published
      PROVE  AllFaithful'
  <2>1. dialog'[d] = y /\ \A q \in Dialogs : q # d => dialog'[q] = dialog[q]
    BY <1>0, <1>2
  <2> QED
    BY <1>2, <2>1 DEF AllFaithful
<1>3. ASSUME NEW d \in Dialogs, Open(d) PROVE AllFaithful'
  <2> DEFINE ds == CloseActive(dialog)
  <2>1. ds \in [Dialogs -> DialogType] /\ \A q \in Dialogs : ds[q] \in DialogType
    BY CloseIsSound DEF Inv, Others, AllSound
  <2>2. dialog' = Join(d, ds) /\ UNCHANGED published
    BY <1>3 DEF Open
  <2>3. ASSUME NEW q \in Dialogs PROVE Faithful(dialog'[q], published)
    <3>1. Faithful(ds[q], published)
      BY CloseIsFaithful
    <3> DEFINE opened == [ds[q] EXCEPT !.stage = "opening", !.overlapped = Opening # {}]
               overlap == [ds[q] EXCEPT !.overlapped = TRUE]
    <3>2. dialog'[q] \in {ds[q], opened, overlap}
      BY <2>2 DEF Join
    <3> HIDE DEF ds
    <3>3. Faithful(opened, published)
      <4>1. /\ opened.read = ds[q].read /\ opened.mine = ds[q].mine
            /\ opened.before = ds[q].before /\ opened.posted = ds[q].posted
            /\ opened.disturbed = ds[q].disturbed /\ opened.stage = "opening"
        BY <2>1 DEF DialogType
      <4> HIDE DEF opened
      <4> QED
        BY <3>1, <4>1, SameWork
    <3>4. Faithful(overlap, published)
      <4>1. /\ overlap.read = ds[q].read /\ overlap.mine = ds[q].mine
            /\ overlap.before = ds[q].before /\ overlap.posted = ds[q].posted
            /\ overlap.disturbed = ds[q].disturbed /\ overlap.stage = ds[q].stage
            /\ overlap.keyID = ds[q].keyID /\ overlap.wanted = ds[q].wanted
            /\ overlap.actions = ds[q].actions
        BY <2>1 DEF DialogType
      <4> HIDE DEF overlap
      <4> QED
        BY <3>1, <4>1, SameWork
    <3> QED
      BY <3>1, <3>2, <3>3, <3>4
  <2> QED
    BY <2>2, <2>3 DEF AllFaithful
<1>4. ASSUME NEW d \in Dialogs, Answered(d) PROVE AllFaithful'
  <2> DEFINE x == dialog[d]
  <2>1. x \in DialogType /\ Faithful(x, published) /\ x.stage = "opening" /\ UNCHANGED published
    BY <1>0, <1>4 DEF AllFaithful, Answered, At, GetKey, GetMyKey, GetMyVerdicts, ShowDialog,
                      ShowKeyless
  <2>2. CASE GetKey(d)
    <3> DEFINE y == [x EXCEPT !.keySelect = selectedKeyID]
    <3>1. /\ y.read = x.read /\ y.mine = x.mine /\ y.before = x.before /\ y.posted = x.posted
          /\ y.disturbed = x.disturbed /\ y.stage = "opening"
      BY <2>1 DEF DialogType
    <3>2. dialog' = [dialog EXCEPT ![d] = y]
      BY <2>2 DEF GetKey
    <3> HIDE DEF y
    <3> QED
      BY <1>2, <2>1, <3>1, <3>2, SameWork
  <2>3. CASE GetMyKey(d)
    <3> DEFINE y(b) == [x EXCEPT !.mine = selectedKeyID, !.read = b]
    <3>1. ASSUME NEW b \in BOOLEAN
          PROVE  y(b).read = b /\ y(b).mine = selectedKeyID /\ y(b).stage = "opening"
      BY <2>1, <3>1 DEF DialogType
    <3>2. dialog' = [dialog EXCEPT ![d] = y(selectedKeyID = NoKey)]
      BY <2>3 DEF GetMyKey
    <3> HIDE DEF y
    <3>3. Faithful(y(selectedKeyID = NoKey), published)
      BY <3>1, KeysAssumption DEF Faithful
    <3> QED
      BY <1>2, <2>1, <3>2, <3>3
  <2>4. CASE GetMyVerdicts(d)
    <3> DEFINE y == [x EXCEPT !.read = TRUE, !.before = published[x.mine]]
               z == [x EXCEPT !.read = TRUE, !.mine = NoKey]
    <3>1. y.before = published[y.mine] /\ y.stage = "opening"
      BY <2>1 DEF DialogType
    <3>2. z.mine = NoKey /\ z.stage = "opening"
      BY <2>1 DEF DialogType
    <3>3. dialog' = [dialog EXCEPT ![d] = y] \/ dialog' = [dialog EXCEPT ![d] = z]
      BY <2>4 DEF GetMyVerdicts
    <3> HIDE DEF y, z
    <3>4. Faithful(y, published)
      BY <3>1 DEF Faithful
    <3>5. Faithful(z, published)
      BY <3>2, KeysAssumption DEF Faithful
    <3> QED
      BY <1>2, <2>1, <3>3, <3>4, <3>5
  <2>5. CASE ShowDialog(d)
    <3> DEFINE y(k) == [x EXCEPT !.stage = "open", !.inDocument = TRUE, !.keySelect = k,
                                 !.after = x.before]
    <3>1. ASSUME NEW k
          PROVE  /\ y(k).read = x.read /\ y(k).mine = x.mine /\ y(k).before = x.before
                 /\ y(k).posted = x.posted /\ y(k).disturbed = x.disturbed /\ y(k).stage = "open"
      BY <2>1 DEF DialogType
    <3>2. PICK k : dialog' = [dialog EXCEPT ![d] = y(k)]
      BY <2>5 DEF ShowDialog
    <3> HIDE DEF y
    <3> QED
      BY <1>2, <2>1, <3>1, <3>2, SameWork
  <2>6. CASE ShowKeyless(d)
    BY <1>2, <2>1, <2>6, EndIsFaithful DEF ShowKeyless
  <2> QED
    BY <1>4, <2>2, <2>3, <2>4, <2>5, <2>6 DEF Answered
<1>5. ASSUME NEW d \in Dialogs, Input(d) \/ Sign(d) PROVE AllFaithful'
  <2>1. /\ Uses(dialog[d], dialog'[d]) /\ UNCHANGED published
        /\ \A q \in Dialogs : q # d => dialog'[q] = dialog[q]
    BY <1>5, InputChanges
  <2>2. Faithful(dialog[d], published) /\ AtHand(dialog[d])
    BY DEF Inv, AllSound, Sound, AllFaithful
  <2>3. AtHand(dialog'[d])
    BY <1>5, InvStep DEF Next, Inv, AllSound, Sound
  <2>4. Faithful(dialog'[d], published)
    BY <2>1, <2>2, <2>3, SignIsFaithful DEF AtHand
  <2> QED
    BY <2>1, <2>4 DEF AllFaithful
<1>6. ASSUME Cancel \/ \E d \in Dialogs : Timer(d) PROVE AllFaithful'
  <2> DEFINE ds == CloseActive(dialog)
  <2>1. ds \in [Dialogs -> DialogType] /\ UNCHANGED published
    BY <1>6, CloseIsSound DEF Cancel, Timer, Inv, Others, AllSound
  <2>2. ASSUME NEW q \in Dialogs
        PROVE  dialog'[q] \in {ds[q], Keyless(ds[q]), Over}
    <3> HIDE DEF ds
    <3> QED
      BY <1>6, <2>1 DEF Cancel, Timer, ds
  <2>3. ASSUME NEW q \in Dialogs PROVE Faithful(dialog'[q], published)
    BY <2>2, CloseIsFaithful, EndIsFaithful
  <2> QED
    BY <2>1, <2>3 DEF AllFaithful
<1>7. CASE Defaults \/ \E k \in Keys : ChooseStoredKey(k)
  BY <1>1, <1>7 DEF Defaults, ReadDefaults, WriteDefaults, DefaultsFail, ChooseStoredKey
<1>8. CASE UNCHANGED vars
  BY <1>1, <1>8 DEF vars
<1> QED
  BY <1>3, <1>4, <1>5, <1>6, <1>7, <1>8, SigningIsFaithful DEF Next, Step

-----------------------------------------------------------------------------
\* They all hold at first.
LEMMA InitSound == Init => Inv /\ Visible /\ AllFaithful
<1> SUFFICES ASSUME Init PROVE Inv /\ Visible /\ AllFaithful
  OBVIOUS
<1>1. dialog \in [Dialogs -> DialogType] /\ \A d \in Dialogs : dialog[d] = New
  BY NewIsSound DEF Init, Sound
<1>2. AllSound(dialog)
  BY <1>1, NewIsSound DEF AllSound
<1>3. published \in [Keys -> Selections]
  BY BoundsAssumption DEF Init
<1>4. Others
  BY <1>3, BoundsAssumption DEF Init, Others
<1>5. New.stage = "new" /\ ~New.inDocument
  BY DEF New
<1>6. Visible
  BY <1>1, <1>5 DEF Init, Visible, StrayDialogs, Opening, At
<1>7. AllFaithful
  BY <1>1, EndIsFaithful DEF AllFaithful
<1> QED
  BY <1>2, <1>4, <1>6, <1>7 DEF Inv

\* And they hold always.
LEMMA InvHolds == Spec => [](Inv /\ Visible /\ AllFaithful)
<1>1. Inv /\ Visible /\ AllFaithful /\ [Next]_vars => Inv' /\ Visible' /\ AllFaithful'
  BY InvStep, VisibleStep, FaithfulStep
<1> QED
  BY <1>1, InitSound, PTL DEF Spec

(* The types, what each stage of a dialog has at hand (content.js:224-237, 377-452), and *)
(* that the active dialog can be seen, for any number of dialogs.                          *)
THEOREM TypeCorrect == Spec => []TypeOK
<1>1. Inv /\ Visible => TypeOK
  BY DEF Inv, Others, AllSound, Sound, Visible, TypeOK
<1> QED
  BY <1>1, InvHolds, PTL

(* However often the user chooses, and whatever fails, a dialog signs nothing for a       *)
(* category the user has not touched in it (content.js:384-402).                            *)
THEOREM UntouchedStaysUnsigned == Spec => []UntouchedUnsigned
<1>1. Inv => UntouchedUnsigned
  BY DEF Inv, AllSound, Sound, Touched, UntouchedUnsigned
<1> QED
  BY <1>1, InvHolds, PTL

(* What a dialog has signed with the key whose verdicts it had read is in the log as the    *)
(* dialog showed it (content.js:441), for any number of dialogs, keys and failures: the        *)
(* exceptions are those SignedAsShown names, and one log is read and written throughout (a      *)
(* set_log_url in between, service-worker.js:461, is not in the model).                          *)
THEOREM SignedStaysAsShown == Spec => []SignedAsShown
<1>1. Inv /\ AllFaithful => SignedAsShown
  BY DEF AllFaithful, Faithful, SignedAsShown, At
<1> QED
  BY <1>1, InvHolds, PTL

(* With any number of dialogs, only those that were being opened at the same time as      *)
(* another one get out of reach (content.js:209, 465, 468).                                 *)
THEOREM StrayOverlapped == Spec => []StrayDialogs
<1>1. Visible => StrayDialogs
  BY DEF Visible
<1> QED
  BY <1>1, InvHolds, PTL

(* initDefaults does not replace a key that is stored, as long as the user chooses none    *)
(* while it waits for gpg (service-worker.js:516-532).                                      *)
THEOREM KeyStays == Spec => []KeyKept
<1>1. Init => KeyKept
  BY DEF Init, KeyKept
<1>2. KeyKept /\ [Next]_vars => KeyKept'
  <2> SUFFICES ASSUME KeyKept, [Next]_vars PROVE KeyKept'
    OBVIOUS
  <2>1. ASSUME NEW k, SetKey(k) PROVE KeyKept'
    BY <2>1 DEF SetKey, KeyKept
  <2>2. CASE UNCHANGED <<selectedKeyID, defaults>>
    BY <2>2 DEF KeyKept
  <2>3. CASE \E d \in Dialogs : Open(d) \/ Input(d) \/ Step(d)
    BY <2>2, <2>3 DEF Open, Input, Choose, ChooseKey, Step, Answered, GetKey, GetMyKey,
                      GetMyVerdicts, ShowDialog, ShowKeyless, Signing, Submitted,
                      SubmissionFails, Timer
  <2>4. CASE \E d \in Dialogs : Sign(d)
    BY <2>1, <2>4 DEF Sign
  <2>5. CASE Cancel
    BY <2>2, <2>5 DEF Cancel
  <2>6. CASE \E k \in Keys : ChooseStoredKey(k)
    BY <2>1, <2>6 DEF ChooseStoredKey
  <2>7. CASE Defaults
    BY <2>7 DEF Defaults, ReadDefaults, WriteDefaults, DefaultsFail, KeyKept
  <2>8. CASE UNCHANGED vars
    BY <2>2, <2>8 DEF vars
  <2> QED
    BY <2>3, <2>4, <2>5, <2>6, <2>7, <2>8 DEF Next
<1> QED
  BY <1>1, <1>2, PTL DEF Spec

-----------------------------------------------------------------------------
(* What a dialog that is asked for, that signs or has signed does next if nothing fails:   *)
(* it reads the storage twice, asks the log, appears; it submits its next category; or its   *)
(* timer ends it.                                                                             *)
NextCategory(x) == CHOOSE c \in x.actions : \A q \in x.actions : c <= q

GoesOnInDialog(d) ==
    LET x == dialog[d] IN
    CASE x.stage = "opening" /\ x.keySelect = Unread -> [dialog EXCEPT ![d].keySelect = selectedKeyID]
      [] x.stage = "opening" /\ x.keySelect # Unread /\ x.mine = Unread ->
            [dialog EXCEPT ![d].mine = selectedKeyID, ![d].read = selectedKeyID = NoKey]
      [] x.stage = "opening" /\ x.keySelect # Unread /\ x.mine # Unread /\ ~x.read ->
            [dialog EXCEPT ![d].read = TRUE, ![d].before = published[x.mine]]
      [] x.stage = "opening" /\ x.keySelect # Unread /\ x.mine # Unread /\ x.read ->
            [dialog EXCEPT ![d].stage = "open", ![d].inDocument = TRUE,
                ![d].keySelect = IF @ \in Keys THEN @ ELSE FirstKey,
                ![d].after = dialog[d].before]
      [] x.stage = "signing" ->
            [Posted(d, NextCategory(x)) EXCEPT ![d].actions = @ \ {NextCategory(x)},
                ![d].stage = IF x.actions = {NextCategory(x)} THEN "signed" ELSE @]
      [] x.stage = "signed" ->
            [CloseActive(dialog) EXCEPT ![d] =
                IF @.inDocument /\ activeDialog # d THEN Keyless(@) ELSE Over]
GoesOnInLog(d) ==
    IF At(d, "signing")
    THEN [published EXCEPT ![dialog[d].keyID][NextCategory(dialog[d])] =
             dialog[d].wanted[NextCategory(dialog[d])]]
    ELSE published
GoesOnActive(d) ==
    CASE At(d, "opening") /\ dialog[d].keySelect # Unread /\ dialog[d].mine # Unread /\ dialog[d].read -> d
      [] At(d, "signed") -> NoDialog
      [] OTHER -> activeDialog
GoesOn(d) ==
    <<GoesOnInLog(d), selectedKeyID, defaults, GoesOnActive(d), GoesOnInDialog(d), inputs, failures>>

\* Who has something to submit has a first category to submit.
LEMMA SomeCategoryIsNext ==
    ASSUME NEW U, U \subseteq Nat, U # {}
    PROVE  \E n \in U : \A m \in U : n <= m
<1> DEFINE R == OpToRel(<, Nat)
<1>1. IsWellFoundedOn(R, Nat)
  BY NatLessThanWellFounded
<1>2. \A m, n \in U : <<m, n>> \in R <=> m < n
  BY DEF OpToRel
<1> HIDE DEF R
<1>3. PICK n \in U : \A m \in U : ~(<<m, n>> \in R)
  BY <1>1, WFMin
<1>4. \A m \in U : m \in Nat /\ n \in Nat /\ ~(m < n)
  BY <1>2, <1>3
<1>5. \A m \in U : n <= m
  BY <1>4
<1> QED
  BY <1>5

\* A dialog asks the log once it knows a key to ask for; if there is none it asks nothing.
Asks(x) == (x.mine = NoKey => x.read) /\ (x.mine = Unread => ~x.read)

(* How much a dialog has left to do without the user: the answers it waits for, the         *)
(* categories to submit, its timer.                                                           *)
One(b) == IF b THEN 1 ELSE 0
Left(x) ==
    CASE x.stage = "opening" -> 1 + One(x.keySelect = Unread) + One(x.mine = Unread) + One(~x.read)
      [] x.stage = "signing" -> 1 + Cardinality(x.actions)
      [] x.stage = "signed"  -> 1
      [] OTHER -> 0

\* From x to y it has not got more to do.
Nears(x, y) == (Asks(x) => Asks(y)) /\ Left(y) <= Left(x)

\* There is an end to what is left, and at the end nothing is.
LEMMA LeftType ==
    /\ \A x \in DialogType : /\ Left(x) \in Nat /\ Nears(x, x) /\ IsFiniteSet(x.actions)
                             /\ Left(x) = 0 <=> x.stage \notin {"opening", "signing", "signed"}
    /\ \A x \in DialogType : Nears(x, Over) /\ Nears(x, Keyless(x))
    /\ Asks(New) /\ Left(Over) = 0 /\ \A x : Left(Keyless(x)) = 0
<1>1. ASSUME NEW x \in DialogType
      PROVE  /\ Left(x) \in Nat /\ IsFiniteSet(x.actions)
             /\ Left(x) = 0 <=> x.stage \notin {"opening", "signing", "signed"}
  <2>1. x.actions \in SUBSET Categories
    BY DEF DialogType
  <2>2. IsFiniteSet(x.actions) /\ Cardinality(x.actions) \in Nat
    BY <2>1, CategoriesAssumption, FS_Subset, FS_CardinalityType
  <2>3. \A b : One(b) \in Nat
    BY DEF One
  <2> QED
    BY <2>2, <2>3 DEF Left
<1>2. /\ Over.stage = "over" /\ Over.mine = Unread
      /\ \A x : Keyless(x).stage = "keyless" /\ Keyless(x).mine = Unread
      /\ New.mine = Unread /\ Unread # NoKey
      /\ ~Over.read /\ ~New.read /\ \A x : ~Keyless(x).read
  BY DEF Over, Keyless, New, Unread, NoKey
<1>3. Asks(Over) /\ Asks(New) /\ \A x : Asks(Keyless(x))
  BY <1>2 DEF Asks
<1>4. Left(Over) = 0 /\ \A x : Left(Keyless(x)) = 0
  BY <1>2 DEF Left
<1> QED
  BY <1>1, <1>3, <1>4 DEF Nears

\* Fields that Left and Asks do not read may change.
LEMMA SameLeft ==
    ASSUME NEW x \in DialogType, NEW y,
           y.stage = x.stage /\ y.keySelect = x.keySelect /\ y.mine = x.mine,
           y.read = x.read /\ y.actions = x.actions
    PROVE  Nears(x, y)
<1>1. Left(y) = Left(x) /\ Asks(y) = Asks(x)
  BY DEF Left, Asks
<1> QED
  BY <1>1, LeftType DEF Nears

\* Closing a dialog leaves it nothing more to do.
LEMMA CloseNears ==
    ASSUME Inv, NEW q \in Dialogs
    PROVE  Nears(dialog[q], CloseActive(dialog)[q])
<1>1. dialog \in [Dialogs -> DialogType] /\ dialog[q] \in DialogType
  BY DEF Inv, AllSound
<1> DEFINE y == [dialog[q] EXCEPT !.inDocument = FALSE]
<1>2. CloseActive(dialog)[q] \in {dialog[q], y, Over}
  BY <1>1 DEF CloseActive
<1>3. /\ y.stage = dialog[q].stage /\ y.keySelect = dialog[q].keySelect
      /\ y.mine = dialog[q].mine /\ y.read = dialog[q].read /\ y.actions = dialog[q].actions
  BY <1>1 DEF DialogType
<1> HIDE DEF y
<1>4. Nears(dialog[q], y)
  BY <1>1, <1>3, SameLeft
<1> QED
  BY <1>1, <1>2, <1>4, LeftType

\* Each answer brings its dialog nearer, and the others stay where they are.
LEMMA AnswerNears ==
    ASSUME Inv, NEW d \in Dialogs, Answered(d), Asks(dialog[d])
    PROVE  /\ Asks(dialog'[d]) /\ Left(dialog'[d]) < Left(dialog[d])
           /\ \A q \in Dialogs : q # d => dialog'[q] = dialog[q]
<1> DEFINE x == dialog[d]
<1>1. x \in DialogType /\ x.stage = "opening" /\ dialog \in [Dialogs -> DialogType]
  BY DEF Inv, AllSound, Answered, At, GetKey, GetMyKey, GetMyVerdicts, ShowDialog, ShowKeyless
<1>2. ASSUME NEW y, dialog' = [dialog EXCEPT ![d] = y]
      PROVE  dialog'[d] = y /\ \A q \in Dialogs : q # d => dialog'[q] = dialog[q]
  BY <1>1, <1>2
<1>3. selectedKeyID \in Keys \union {NoKey} /\ selectedKeyID # Unread
      /\ Unread \notin Keys /\ NoKey \notin Keys /\ NoKey # Unread
  BY KeysAssumption DEF Inv, Others, Unread, NoKey
<1>4. Left(x) = 1 + One(x.keySelect = Unread) + One(x.mine = Unread) + One(~x.read)
  BY <1>1 DEF Left
<1>5. ASSUME NEW y, dialog' = [dialog EXCEPT ![d] = y], Asks(y), Left(y) < Left(x)
      PROVE  /\ Asks(dialog'[d]) /\ Left(dialog'[d]) < Left(x)
             /\ \A q \in Dialogs : q # d => dialog'[q] = dialog[q]
  BY <1>2, <1>5
<1>6. CASE GetKey(d)
  <2> DEFINE y == [x EXCEPT !.keySelect = selectedKeyID]
  <2>1. /\ y.stage = "opening" /\ y.keySelect = selectedKeyID
        /\ y.mine = x.mine /\ y.read = x.read
    BY <1>1 DEF DialogType
  <2>2. dialog' = [dialog EXCEPT ![d] = y] /\ x.keySelect = Unread
    BY <1>6 DEF GetKey
  <2> HIDE DEF y
  <2>3. Asks(y)
    BY <2>1 DEF Asks
  <2>4. Left(y) = 1 + One(selectedKeyID = Unread) + One(x.mine = Unread) + One(~x.read)
    BY <2>1 DEF Left
  <2>5. Left(y) < Left(x)
    BY <1>3, <1>4, <2>2, <2>4 DEF One
  <2> QED
    BY <1>5, <2>2, <2>3, <2>5
<1>7. CASE GetMyKey(d)
  <2> DEFINE y(b) == [x EXCEPT !.mine = selectedKeyID, !.read = b]
             none == selectedKeyID = NoKey
  <2>1. ASSUME NEW b \in BOOLEAN
        PROVE  /\ y(b).stage = "opening" /\ y(b).keySelect = x.keySelect
               /\ y(b).mine = selectedKeyID /\ y(b).read = b
    BY <1>1 DEF DialogType
  <2>2. dialog' = [dialog EXCEPT ![d] = y(none)] /\ x.mine = Unread
    BY <1>7 DEF GetMyKey
  <2>3. none \in BOOLEAN
    OBVIOUS
  <2> HIDE DEF y
  <2>4. y(none).stage = "opening" /\ y(none).keySelect = x.keySelect
        /\ y(none).mine = selectedKeyID /\ y(none).read = none
    BY <2>1, <2>3
  <2>5. Asks(y(none))
    BY <1>3, <2>4 DEF Asks
  <2>6. ~x.read
    BY <2>2 DEF Asks
  <2>7. Left(y(none)) = 1 + One(x.keySelect = Unread) + One(selectedKeyID = Unread) + One(~none)
    BY <2>4 DEF Left
  <2>8. Left(y(none)) < Left(x)
    BY <1>3, <1>4, <2>2, <2>6, <2>7 DEF One
  <2> QED
    BY <1>5, <2>2, <2>5, <2>8
<1>8. CASE GetMyVerdicts(d)
  <2> DEFINE y == [x EXCEPT !.read = TRUE, !.before = published[x.mine]]
             z == [x EXCEPT !.read = TRUE, !.mine = NoKey]
  <2>1. /\ y.stage = "opening" /\ y.keySelect = x.keySelect /\ y.mine = x.mine /\ y.read
        /\ z.stage = "opening" /\ z.keySelect = x.keySelect /\ z.mine = NoKey /\ z.read
    BY <1>1 DEF DialogType
  <2>2. /\ dialog' = [dialog EXCEPT ![d] = y] \/ dialog' = [dialog EXCEPT ![d] = z]
        /\ ~x.read /\ x.mine \in Keys
    BY <1>8 DEF GetMyVerdicts
  <2> HIDE DEF y, z
  <2>3. Asks(y) /\ Asks(z)
    BY <1>3, <2>1, <2>2 DEF Asks
  <2>4. /\ Left(y) = 1 + One(x.keySelect = Unread) + One(x.mine = Unread) + One(~y.read)
        /\ Left(z) = 1 + One(x.keySelect = Unread) + One(NoKey = Unread) + One(~z.read)
    BY <2>1 DEF Left
  <2>5. Left(y) < Left(x) /\ Left(z) < Left(x)
    BY <1>3, <1>4, <2>1, <2>2, <2>4 DEF One
  <2> QED
    BY <1>5, <2>2, <2>3, <2>5
<1>9. CASE ShowDialog(d)
  <2> DEFINE y(k) == [x EXCEPT !.stage = "open", !.inDocument = TRUE, !.keySelect = k,
                               !.after = x.before]
  <2>1. ASSUME NEW k PROVE y(k).stage = "open" /\ y(k).mine = x.mine /\ y(k).read = x.read
    BY <1>1 DEF DialogType
  <2>2. PICK k : dialog' = [dialog EXCEPT ![d] = y(k)]
    BY <1>9 DEF ShowDialog
  <2> HIDE DEF y
  <2>3. Asks(y(k)) /\ Left(y(k)) = 0
    BY <2>1 DEF Asks, Left
  <2>4. 0 < Left(x)
    BY <1>1, LeftType
  <2> QED
    BY <1>5, <2>2, <2>3, <2>4
<1>10. CASE ShowKeyless(d)
  <2>1. dialog' = [dialog EXCEPT ![d] = Keyless(x)]
    BY <1>10 DEF ShowKeyless
  <2>2. Asks(Keyless(x)) /\ Left(Keyless(x)) = 0
    BY <1>1, LeftType DEF Nears
  <2>3. 0 < Left(x)
    BY <1>1, LeftType
  <2> QED
    BY <1>5, <2>1, <2>2, <2>3
<1> QED
  BY <1>6, <1>7, <1>8, <1>9, <1>10 DEF Answered

\* Each submission brings its dialog nearer, and leaves the others with as much to do.
LEMMA SigningNears ==
    ASSUME Inv, NEW d \in Dialogs, Signing(d), Asks(dialog[d])
    PROVE  /\ Asks(dialog'[d]) /\ Left(dialog'[d]) < Left(dialog[d])
           /\ \A q \in Dialogs : q # d => Nears(dialog[q], dialog'[q])
<1> DEFINE x == dialog[d]
<1>1. x \in DialogType /\ \A q \in Dialogs : dialog[q] \in DialogType
  BY DEF Inv, AllSound
<1>2. ASSUME NEW c \in Categories, NEW q \in Dialogs, q # d
      PROVE  Nears(dialog[q], Posted(d, c)[q])
  <2> DEFINE y(b) == [dialog[q] EXCEPT !.disturbed = b]
  <2>1. \E b : Posted(d, c)[q] = y(b)
    BY <1>2 DEF Posted
  <2>2. ASSUME NEW b
        PROVE  /\ y(b).stage = dialog[q].stage /\ y(b).keySelect = dialog[q].keySelect
               /\ y(b).mine = dialog[q].mine /\ y(b).read = dialog[q].read
               /\ y(b).actions = dialog[q].actions
    BY <1>1 DEF DialogType
  <2> HIDE DEF y
  <2>3. ASSUME NEW b PROVE Nears(dialog[q], y(b))
    BY <1>1, <2>2, SameLeft
  <2> QED
    BY <2>1, <2>3
<1>3. CASE Submitted(d)
  <2>0. x.stage = "signing"
    BY <1>3, SubmittedChanges
  <2>1. PICK c \in Categories :
           /\ IsNext(d, c)
           /\ \E s \in {"signing", "signed"} :
                 /\ s = "signed" => dialog[d].actions = {c}
                 /\ dialog'[d] = [dialog[d] EXCEPT !.posted = @ \union {c},
                                    !.actions = @ \ {c}, !.stage = s]
           /\ \A q \in Dialogs : q # d => dialog'[q] = Posted(d, c)[q]
    BY <1>3, SubmittedChanges, Zenon
  <2>11. PICK s \in {"signing", "signed"} :
           dialog'[d] = [x EXCEPT !.posted = @ \union {c}, !.actions = @ \ {c}, !.stage = s]
    BY <2>1
  <2> DEFINE y == [x EXCEPT !.posted = @ \union {c}, !.actions = @ \ {c}, !.stage = s]
  <2>2. y.stage = s /\ y.mine = x.mine /\ y.read = x.read /\ y.actions = x.actions \ {c}
    BY <1>1 DEF DialogType
  <2>3. dialog'[d] = y
    BY <2>11
  <2> HIDE DEF y
  <2>4. IsFiniteSet(x.actions) /\ c \in x.actions
    BY <1>1, <2>1, LeftType DEF IsNext
  <2>5. Cardinality(x.actions \ {c}) = Cardinality(x.actions) - 1
    BY <2>4, FS_RemoveElement
  <2>6. Cardinality(x.actions) \in Nat /\ Cardinality(x.actions \ {c}) \in Nat
    BY <2>4, FS_RemoveElement, FS_CardinalityType
  <2>7. Left(x) = 1 + Cardinality(x.actions)
    BY <2>0 DEF Left
  <2>8. Left(y) \in {1, 1 + Cardinality(x.actions \ {c})}
    BY <2>2 DEF Left
  <2>9. Left(y) < Left(x)
    BY <2>5, <2>6, <2>7, <2>8
  <2>10. Asks(y)
    BY <2>2 DEF Asks
  <2> QED
    BY <1>2, <2>1, <2>3, <2>9, <2>10
<1>4. CASE SubmissionFails(d)
  <2>1. /\ x.stage = "signing"
        /\ \/ dialog'[d] = Over
           \/ \E p \in SUBSET Categories :
                 dialog'[d] = [x EXCEPT !.posted = p, !.stage = "open", !.keyID = NoKey,
                                !.wanted = Nothing, !.actions = {}]
        /\ \/ \A q \in Dialogs : q # d => dialog'[q] = dialog[q]
           \/ \E c \in Categories : \A q \in Dialogs : q # d => dialog'[q] = Posted(d, c)[q]
    BY <1>4, FailureChanges
  <2>2. \A q \in Dialogs : q # d => Nears(dialog[q], dialog'[q])
    BY <1>1, <1>2, <2>1, LeftType
  <2> DEFINE y(p) == [x EXCEPT !.posted = p, !.stage = "open", !.keyID = NoKey,
                               !.wanted = Nothing, !.actions = {}]
  <2>3. ASSUME NEW p PROVE y(p).stage = "open" /\ y(p).mine = x.mine /\ y(p).read = x.read
    BY <1>1 DEF DialogType
  <2>4. dialog'[d] = Over \/ \E p : dialog'[d] = y(p)
    BY <2>1
  <2> HIDE DEF y
  <2>5. ASSUME NEW p PROVE Asks(y(p)) /\ Left(y(p)) = 0
    BY <2>3 DEF Asks, Left
  <2>6. Asks(dialog'[d]) /\ Left(dialog'[d]) = 0
    BY <1>1, <2>4, <2>5, LeftType DEF Nears
  <2>7. x.stage = "signing"
    BY <2>1
  <2>8. 0 < Left(x)
    BY <1>1, <2>7, LeftType
  <2> QED
    BY <2>2, <2>6, <2>8
<1> QED
  BY <1>3, <1>4 DEF Signing

\* The timer ends its dialog; it and Cancel leave the others with no more to do.
LEMMA EndNears ==
    ASSUME Inv, NEW q \in Dialogs
    PROVE  /\ Cancel => Nears(dialog[q], dialog'[q])
           /\ \A d \in Dialogs : Timer(d) =>
                 /\ Nears(dialog[q], dialog'[q])
                 /\ q = d => Left(dialog'[q]) < Left(dialog[q])
<1>1. dialog[q] \in DialogType /\ CloseActive(dialog) \in [Dialogs -> DialogType]
  BY CloseIsSound DEF Inv, Others, AllSound
<1>2. Nears(dialog[q], CloseActive(dialog)[q])
  BY CloseNears
<1>3. Cancel => Nears(dialog[q], dialog'[q])
  BY <1>2 DEF Cancel
<1>4. ASSUME NEW d \in Dialogs, Timer(d), q # d PROVE Nears(dialog[q], dialog'[q])
  <2> DEFINE ds == CloseActive(dialog)
             y == IF ds[d].inDocument /\ activeDialog # d THEN Keyless(ds[d]) ELSE Over
  <2>1. dialog' = [ds EXCEPT ![d] = y]
    BY <1>4 DEF Timer
  <2> HIDE DEF ds, y
  <2>2. dialog'[q] = ds[q]
    BY <1>1, <1>4, <2>1 DEF ds
  <2> QED
    BY <1>2, <2>2 DEF ds
<1>5. ASSUME NEW d \in Dialogs, Timer(d), q = d
      PROVE  Nears(dialog[q], dialog'[q]) /\ Left(dialog'[q]) < Left(dialog[q])
  <2> DEFINE ds == CloseActive(dialog)
  <2>1. dialog[q].stage = "signed"
    BY <1>5 DEF Timer, At
  <2>2. dialog'[q] \in {Over, Keyless(ds[q])}
    BY <1>1, <1>5 DEF Timer
  <2>3. Nears(dialog[q], Over)
    BY <1>1, LeftType
  <2>4. Asks(Over) /\ Asks(Keyless(ds[q])) /\ Left(Over) = 0 /\ Left(Keyless(ds[q])) = 0
    BY LeftType DEF Asks, Over, Keyless, New, NoKey, Unread
  <2>5. Left(dialog[q]) = 1
    BY <2>1 DEF Left
  <2> QED
    BY <2>2, <2>4, <2>5 DEF Nears
<1> QED
  BY <1>3, <1>4, <1>5

\* A new call has asked nothing yet, and those before it have no more to do.
LEMMA OpenNears ==
    ASSUME Inv, NEW d \in Dialogs, Open(d), NEW q \in Dialogs
    PROVE  /\ Asks(dialog[q]) => Asks(dialog'[q])
           /\ q # d => Left(dialog'[q]) <= Left(dialog[q])
<1> DEFINE ds == CloseActive(dialog)
<1>1. ds \in [Dialogs -> DialogType] /\ ds[q] \in DialogType /\ dialog[q] \in DialogType
  BY CloseIsSound DEF Inv, Others, AllSound
<1>2. Nears(dialog[q], ds[q])
  BY CloseNears
<1> DEFINE opened == [ds[q] EXCEPT !.stage = "opening", !.overlapped = Opening # {}]
           overlap == [ds[q] EXCEPT !.overlapped = TRUE]
<1>3. dialog'[q] = IF q = d THEN opened ELSE IF q \in Opening THEN overlap ELSE ds[q]
  BY DEF Open, Join
<1> HIDE DEF ds
<1>4. opened.mine = ds[q].mine /\ opened.read = ds[q].read
  BY <1>1 DEF DialogType
<1>5. /\ overlap.stage = ds[q].stage /\ overlap.keySelect = ds[q].keySelect
      /\ overlap.mine = ds[q].mine /\ overlap.read = ds[q].read
      /\ overlap.actions = ds[q].actions
  BY <1>1 DEF DialogType
<1> HIDE DEF opened, overlap
<1>6. Asks(ds[q]) => Asks(opened)
  BY <1>4 DEF Asks
<1>7. Nears(ds[q], overlap)
  BY <1>1, <1>5, SameLeft
<1>8. CASE q = d
  BY <1>2, <1>3, <1>6, <1>8 DEF Nears
<1>9. CASE q # d
  <2>1. Left(ds[q]) \in Nat /\ Left(dialog[q]) \in Nat /\ Nears(ds[q], ds[q])
    BY <1>1, LeftType
  <2>2. Nears(ds[q], dialog'[q])
    BY <1>3, <1>7, <1>9, <2>1
  <2>3. Left(dialog'[q]) \in Nat
    BY LeftType, InvStep DEF Next, Inv, AllSound
  <2> QED
    BY <1>2, <1>9, <2>1, <2>2, <2>3 DEF Nears
<1> QED
  BY <1>8, <1>9

AllAsk == \A d \in Dialogs : Asks(dialog[d])

(* A step of a dialog's own leaves it less to do, and nobody but the user, who asks for the  *)
(* dialog or presses Sign, gives it more.                                                      *)
GetsLess(d) ==
    /\ Step(d) => Left(dialog'[d]) < Left(dialog[d])
    /\ ~Open(d) /\ ~Sign(d) => Left(dialog'[d]) <= Left(dialog[d])

\* Each step does what the lemmas above say of it.
LEMMA NearsStep == Inv /\ AllAsk /\ [Next]_vars => AllAsk' /\ \A d \in Dialogs : GetsLess(d)
<1> SUFFICES ASSUME Inv, AllAsk, [Next]_vars, NEW d \in Dialogs
             PROVE  Asks(dialog'[d]) /\ GetsLess(d)
  BY DEF AllAsk
<1>1. dialog[d] \in DialogType /\ Asks(dialog[d]) /\ Nears(dialog[d], dialog[d])
  BY LeftType DEF Inv, AllSound, AllAsk
<1>2. Left(dialog[d]) \in Nat /\ Left(dialog'[d]) \in Nat
  BY LeftType, InvStep DEF Inv, AllSound
<1>3. Step(d) => Asks(dialog'[d]) /\ Left(dialog'[d]) < Left(dialog[d])
  BY <1>1, AnswerNears, SigningNears, EndNears DEF Step, Nears
<1>4. ASSUME Nears(dialog[d], dialog'[d]) PROVE Asks(dialog'[d]) /\ GetsLess(d)
  BY <1>1, <1>3, <1>4 DEF Nears, GetsLess
<1>5. CASE Step(d)
  <2>1. Asks(dialog'[d]) /\ Left(dialog'[d]) < Left(dialog[d])
    BY <1>3, <1>5
  <2>2. Left(dialog'[d]) <= Left(dialog[d])
    BY <1>2, <2>1
  <2> QED
    BY <2>1, <2>2 DEF GetsLess
<1>6. ASSUME NEW q \in Dialogs, q # d, Step(q) PROVE Nears(dialog[d], dialog'[d])
  <2>1. Asks(dialog[q])
    BY DEF AllAsk
  <2> QED
    BY <1>1, <1>6, <2>1, AnswerNears, SigningNears, EndNears DEF Step
<1>7. ASSUME NEW q \in Dialogs, q # d, Input(q) \/ Sign(q) \/ Open(q)
      PROVE  Nears(dialog[d], dialog'[d])
  <2>1. CASE Open(q)
    BY <1>7, <2>1, OpenNears DEF Nears
  <2>2. CASE Input(q) \/ Sign(q)
    <3>1. dialog'[d] = dialog[d]
      BY <1>7, <2>2, InputChanges
    <3> QED
      BY <1>1, <3>1
  <2> QED
    BY <1>7, <2>1, <2>2
<1>8. CASE Open(d)
  <2>1. Asks(dialog'[d])
    BY <1>1, <1>8, OpenNears
  <2> QED
    BY <1>3, <1>8, <2>1 DEF GetsLess
<1>9. CASE Input(d) \/ Sign(d)
  <2>1. Uses(dialog[d], dialog'[d])
    BY <1>9, InputChanges
  <2>2. Asks(dialog'[d])
    BY <1>1, <2>1 DEF Asks, Uses
  <2>3. Sign(d) \/ dialog'[d].stage = "open"
    <3> DEFINE chosen(a, t) == [dialog[d] EXCEPT !.after = a, !.touched = t]
               keyed(k) == [dialog[d] EXCEPT !.keySelect = k]
    <3>1. dialog[d].stage = "open" /\ dialog \in [Dialogs -> DialogType]
      BY <1>9, <2>1 DEF Uses, Inv, AllSound
    <3>2. ASSUME NEW a, NEW t PROVE chosen(a, t).stage = "open" /\ keyed(a).stage = "open"
      BY <1>1, <3>1 DEF DialogType
    <3>3. CASE \E s \in Selections : Choose(d, s)
      <4>1. PICK s \in Selections : Choose(d, s)
        BY <3>3
      <4> DEFINE t == dialog[d].touched \union {c \in Categories : s[c] # dialog[d].after[c]}
      <4>2. dialog' = [dialog EXCEPT ![d] = chosen(s, t)]
        BY <4>1 DEF Choose
      <4> HIDE DEF chosen, t
      <4> QED
        BY <3>1, <3>2, <4>2
    <3>4. CASE \E k \in Keys : ChooseKey(d, k)
      <4>1. \E k : dialog' = [dialog EXCEPT ![d] = keyed(k)]
        BY <3>4 DEF ChooseKey
      <4> HIDE DEF keyed
      <4> QED
        BY <3>1, <3>2, <4>1
    <3> QED
      BY <1>9, <3>3, <3>4 DEF Input
  <2>4. ~Sign(d) => Left(dialog'[d]) <= Left(dialog[d])
    BY <1>2, <2>3 DEF Left
  <2> QED
    BY <1>3, <2>2, <2>4 DEF GetsLess
<1>10. CASE UNCHANGED dialog
  BY <1>1, <1>4, <1>10
<1>11. CASE Cancel
  BY <1>4, <1>11, EndNears
<1>12. CASE Defaults \/ UNCHANGED vars \/ \E k \in Keys : ChooseStoredKey(k)
  BY <1>10, <1>12 DEF Defaults, ReadDefaults, WriteDefaults, DefaultsFail, ChooseStoredKey, vars
<1> QED
  BY <1>4, <1>5, <1>6, <1>7, <1>8, <1>9, <1>11, <1>12 DEF Next

\* So every dialog asks in that order, always.
LEMMA AskHolds == Spec => [](Inv /\ AllAsk)
<1>1. Init => Inv /\ AllAsk
  BY InitSound, LeftType DEF Init, AllAsk
<1>2. Inv /\ AllAsk /\ [Next]_vars => Inv' /\ AllAsk'
  BY InvStep, NearsStep
<1> QED
  BY <1>1, <1>2, PTL DEF Spec

(* Whatever a dialog does by itself brings it nearer the moment when it waits for the user or  *)
(* is over, and no other dialog, key or failure takes it away from there: only the user starts   *)
(* it again (content.js:191-256, 377-452).  With NeverStuck, and as long as the browser runs what   *)
(* is possible, it is what makes every dialog come to an end.                                        *)
THEOREM WorkGetsLess == Spec => [][\A d \in Dialogs : GetsLess(d)]_vars
<1>1. Inv /\ AllAsk /\ [Next]_vars => [\A d \in Dialogs : GetsLess(d)]_vars
  BY NearsStep
<1> QED
  BY <1>1, AskHolds, PTL DEF Spec

(* A dialog that is asked for, that signs or has signed can go on, whatever has failed        *)
(* before and whatever the others have done (content.js:224-237, 414-452): the next state       *)
(* that GoesOn computes is one that its Step allows.  It is NeverStuck with ENABLED written       *)
(* out; AllAsk holds always, as TypeOK does (AskHolds, TypeCorrect).                                *)
THEOREM StepIsPossible ==
    ASSUME TypeOK, AllAsk, NEW d \in Dialogs, dialog[d].stage \in {"opening", "signing", "signed"},
           vars' = GoesOn(d)
    PROVE  Step(d)
<1> DEFINE x == dialog[d]
<1>1. x \in DialogType /\ AtHand(x)
  BY DEF TypeOK
<1>2. /\ published' = GoesOnInLog(d) /\ activeDialog' = GoesOnActive(d)
      /\ dialog' = GoesOnInDialog(d)
      /\ UNCHANGED <<selectedKeyID, defaults, inputs, failures>>
  BY DEF vars, GoesOn
<1>3. CASE x.stage = "opening"
  <2>1. published' = published
    BY <1>2, <1>3 DEF GoesOnInLog, At
  <2>2. CASE x.keySelect = Unread
    <3>1. GetKey(d)
      BY <1>2, <1>3, <2>1, <2>2 DEF GetKey, At, GoesOnInDialog, GoesOnActive
    <3> QED
      BY <3>1 DEF Step, Answered
  <2>3. CASE x.keySelect # Unread /\ x.mine = Unread
    <3>1. GetMyKey(d)
      BY <1>2, <1>3, <2>1, <2>3 DEF GetMyKey, At, GoesOnInDialog, GoesOnActive
    <3> QED
      BY <3>1 DEF Step, Answered
  <2>4. CASE x.keySelect # Unread /\ x.mine # Unread /\ ~x.read
    <3>1. x.mine \in Keys
      BY <1>1, <2>4 DEF AllAsk, Asks, DialogType
    <3>2. GetMyVerdicts(d)
      BY <1>2, <1>3, <2>1, <2>4, <3>1 DEF GetMyVerdicts, At, GoesOnInDialog, GoesOnActive
    <3> QED
      BY <3>2 DEF Step, Answered
  <2>5. CASE x.keySelect # Unread /\ x.mine # Unread /\ x.read
    <3>1. ShowDialog(d)
      BY <1>2, <1>3, <2>1, <2>5 DEF ShowDialog, At, GoesOnInDialog, GoesOnActive
    <3> QED
      BY <3>1 DEF Step, Answered
  <2> QED
    BY <2>2, <2>3, <2>4, <2>5, <1>1 DEF DialogType
<1>4. CASE x.stage = "signing"
  <2> DEFINE c == NextCategory(x)
  <2>1. x.actions \subseteq Nat /\ x.actions # {} /\ x.actions \subseteq Categories
    BY <1>1, <1>4, CategoriesAssumption DEF DialogType, AtHand
  <2>2. \E n \in x.actions : \A q \in x.actions : n <= q
    BY <2>1, SomeCategoryIsNext
  <2>3. c \in Categories /\ IsNext(d, c)
    BY <2>1, <2>2 DEF NextCategory, IsNext
  <2> HIDE DEF c
  <2>4. GoesOnInDialog(d) = [Posted(d, c) EXCEPT ![d].actions = @ \ {c},
                               ![d].stage = IF x.actions = {c} THEN "signed" ELSE @]
    BY <1>4 DEF GoesOnInDialog, c
  <2>5. Record(d, c)
    BY <1>2, <1>4 DEF Record, GoesOnInLog, At, c
  <2>6. activeDialog' = activeDialog
    BY <1>2, <1>4 DEF GoesOnActive, At
  <2>7. Submitted(d)
    BY <1>2, <1>4, <2>3, <2>4, <2>5, <2>6 DEF Submitted, At
  <2> QED
    BY <2>7 DEF Step, Signing
<1>5. CASE x.stage = "signed"
  <2>1. Timer(d)
    BY <1>2, <1>5 DEF Timer, At, GoesOnInDialog, GoesOnInLog, GoesOnActive
  <2> QED
    BY <2>1 DEF Step
<1> QED
  BY <1>3, <1>4, <1>5
=============================================================================
