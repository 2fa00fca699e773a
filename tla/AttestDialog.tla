---------------------------- MODULE AttestDialog ----------------------------
(* The attest dialog of extension/content/content.js: opening it, choosing, the         *)
(* submissions of its Sign button and its end; with the messages it sends, as            *)
(* extension/background/service-worker.js handles them (get_key, set_key,                 *)
(* get_my_verdicts, sign), initDefaults, and the key selector of options.js.               *)
(*                                                                                         *)
(* A dialog d is one call of openAttestDialog, on one page and for one image.  What the     *)
(* log holds is abstracted to the word of each key in each category that counts, NoVerdict   *)
(* standing for none and for a revocation; VerdictSelection tells which one counts.            *)
(* Definitions whose names end in Mutant are no part of the model: each is the one after it     *)
(* with a plausible bug, to show that a property notices it.                                     *)
EXTENDS Integers, FiniteSets

CONSTANTS
    MaxDialogs,       \* calls of openAttestDialog
    Keys,             \* secret keys that can sign
    FirstKey,         \* the one gpg lists first
    Categories,       \* as numbers, in the order in which Sign goes through them
    VerdictsOf,       \* per category: the verdicts that the dialog offers
    Before,           \* what the log may hold at first, of each key
    MaxInputs,        \* choices the user makes, before a Sign or among the keys
    MaxFailures       \* failures of the worker, the log or the native host

Dialogs     == 1..MaxDialogs
NoVerdict   == "none"
NoKey       == "no key"
NoDialog    == 0
Unread      == "unread"
Offered(c)  == VerdictsOf[c] \union {NoVerdict}
Selections  == {s \in [Categories -> UNION {Offered(c) : c \in Categories}] :
                   \A c \in Categories : s[c] \in Offered(c)}
Nothing     == [c \in Categories |-> NoVerdict]

ASSUME KeysAssumption ==
    FirstKey \in Keys /\ {NoKey, Unread} \intersect Keys = {}
ASSUME CategoriesAssumption ==
    IsFiniteSet(Categories) /\ Categories \subseteq Nat /\ DOMAIN VerdictsOf = Categories
ASSUME BoundsAssumption ==
    /\ Before \subseteq [Keys -> Selections]
    /\ MaxDialogs \in Nat /\ MaxInputs \in Nat /\ MaxFailures \in Nat

VARIABLES
    published,      \* per key: what the log holds of it
    selectedKeyID,  \* chrome.storage
    defaults,       \* initDefaults: "start", "none stored" while it waits for gpg, "outrun"
                    \* if the user chooses a key meanwhile, "done"
    activeDialog,
    dialog,         \* per call: what its closures hold [stage, inDocument, keySelect, mine,
                    \* read, before, after, keyID, wanted, actions], and its history: the
                    \* categories the user has touched and those it has posted, whether
                    \* another one has disturbed what it has read, and whether it has
                    \* overlapped another one's opening
    inputs, failures

vars == <<published, selectedKeyID, defaults, activeDialog, dialog, inputs, failures>>

(* The stages of a call: "new"; "opening", up to the three answers; "open"; "keyless", with  *)
(* a dialog that cannot sign; "signing"; "signed", while the timer runs; "over".               *)
New  == [stage |-> "new", inDocument |-> FALSE, keySelect |-> Unread, mine |-> Unread,
         read |-> FALSE, before |-> Nothing, after |-> Nothing, keyID |-> NoKey, wanted |-> Nothing,
         actions |-> {}, touched |-> {}, posted |-> {}, disturbed |-> FALSE,
         overlapped |-> FALSE]
Over == [New EXCEPT !.stage = "over"]

Init ==
    /\ published \in Before
    /\ selectedKeyID \in Keys \union {NoKey}
    /\ defaults = "start"
    /\ activeDialog = NoDialog
    /\ dialog = [d \in Dialogs |-> New]
    /\ inputs = 0
    /\ failures = 0

At(d, s)  == dialog[d].stage = s
Opening   == {d \in Dialogs : At(d, "opening")}
MayChoose == inputs < MaxInputs /\ inputs' = inputs + 1
MayFail   == failures < MaxFailures /\ failures' = failures + 1

-----------------------------------------------------------------------------
(* closeAttestDialog: whichever dialog is active goes, whoever asks for it.  One that   *)
(* is signing goes on without being seen.                                                 *)
CloseActive(ds) ==
    IF activeDialog = NoDialog THEN ds
    ELSE [ds EXCEPT ![activeDialog] =
             IF @.stage \in {"signing", "signed"} THEN [@ EXCEPT !.inDocument = FALSE] ELSE Over]

\* A call joins those that wait for their answers.
Join(d, ds) ==
    [q \in Dialogs |->
        IF q = d THEN [ds[q] EXCEPT !.stage = "opening", !.overlapped = Opening # {}]
        ELSE IF q \in Opening THEN [ds[q] EXCEPT !.overlapped = TRUE]
        ELSE ds[q]]

\* The dialog before is not closed.
OpenOverMutant(d) ==
    /\ At(d, "new") /\ \A q \in 1..d-1 : ~At(q, "new")
    /\ dialog' = Join(d, dialog)
    /\ UNCHANGED <<published, selectedKeyID, defaults, activeDialog, inputs, failures>>

\* openAttestDialog up to its await.
Open(d) ==
    /\ At(d, "new") /\ \A q \in 1..d-1 : ~At(q, "new")
    /\ dialog' = Join(d, CloseActive(dialog))
    /\ activeDialog' = NoDialog
    /\ UNCHANGED <<published, selectedKeyID, defaults, inputs, failures>>

\* get_key reads the storage.
GetKey(d) ==
    /\ At(d, "opening") /\ dialog[d].keySelect = Unread
    /\ dialog' = [dialog EXCEPT ![d].keySelect = selectedKeyID]
    /\ UNCHANGED <<published, selectedKeyID, defaults, activeDialog, inputs, failures>>

\* handleGetMyVerdicts reads the storage as well, and is done if there is no key ...
GetMyKey(d) ==
    /\ At(d, "opening") /\ dialog[d].mine = Unread
    /\ dialog' = [dialog EXCEPT ![d].mine = selectedKeyID, ![d].read = selectedKeyID = NoKey]
    /\ UNCHANGED <<published, selectedKeyID, defaults, activeDialog, inputs, failures>>

\* A failure is not answered.
GetMyVerdictsSilentMutant(d) ==
    /\ At(d, "opening") /\ dialog[d].mine \in Keys /\ ~dialog[d].read
    /\ \/ /\ dialog' = [dialog EXCEPT ![d].read = TRUE, ![d].before = published[dialog[d].mine]]
          /\ UNCHANGED failures
       \/ dialog' = [dialog EXCEPT ![d].mine = NoKey] /\ MayFail
    /\ UNCHANGED <<published, selectedKeyID, defaults, activeDialog, inputs>>

\* ... or asks the log for that key's verdicts, and takes any failure for none.
GetMyVerdicts(d) ==
    /\ At(d, "opening") /\ dialog[d].mine \in Keys /\ ~dialog[d].read
    /\ \/ /\ dialog' = [dialog EXCEPT ![d].read = TRUE, ![d].before = published[dialog[d].mine]]
          /\ UNCHANGED failures
       \/ dialog' = [dialog EXCEPT ![d].read = TRUE, ![d].mine = NoKey] /\ MayFail
    /\ UNCHANGED <<published, selectedKeyID, defaults, activeDialog, inputs>>

\* The inputs are not set to what the log says.
ShowDialogBlankMutant(d) ==
    /\ At(d, "opening") /\ dialog[d].keySelect # Unread /\ dialog[d].read
    /\ dialog' = [dialog EXCEPT ![d].stage = "open", ![d].inDocument = TRUE,
                    ![d].keySelect = IF @ \in Keys THEN @ ELSE FirstKey]
    /\ activeDialog' = d
    /\ UNCHANGED <<published, selectedKeyID, defaults, inputs, failures>>

\* All three answers are there: the dialog appears and becomes the active one.
ShowDialog(d) ==
    /\ At(d, "opening") /\ dialog[d].keySelect # Unread /\ dialog[d].read
    /\ dialog' = [dialog EXCEPT ![d].stage = "open", ![d].inDocument = TRUE,
                    ![d].keySelect = IF @ \in Keys THEN @ ELSE FirstKey,
                    ![d].after = dialog[d].before]
    /\ activeDialog' = d
    /\ UNCHANGED <<published, selectedKeyID, defaults, inputs, failures>>

Keyless(x) == [New EXCEPT !.stage = "keyless", !.inDocument = TRUE, !.overlapped = x.overlapped]

\* The keys cannot be listed, or the worker does not answer: there is nothing to sign with.
ShowKeyless(d) ==
    /\ At(d, "opening")
    /\ MayFail
    /\ dialog' = [dialog EXCEPT ![d] = Keyless(@)]
    /\ activeDialog' = d
    /\ UNCHANGED <<published, selectedKeyID, defaults, inputs>>

\* Cancel or a click beside the dialog, in any of those that are to be seen.
Cancel ==
    /\ \E d \in Dialogs : dialog[d].inDocument
    /\ dialog' = CloseActive(dialog)
    /\ activeDialog' = NoDialog
    /\ UNCHANGED <<published, selectedKeyID, defaults, inputs, failures>>

-----------------------------------------------------------------------------
\* The user sets some of the inputs.  They stay usable while the dialog signs, but are read
\* only when Sign is pressed again: it is as if they were set just before.
Choose(d, s) ==
    /\ dialog[d].inDocument /\ At(d, "open")
    /\ s # dialog[d].after
    /\ MayChoose
    /\ dialog' = [dialog EXCEPT ![d].after = s,
                    ![d].touched = @ \union {c \in Categories : s[c] # dialog[d].after[c]}]
    /\ UNCHANGED <<published, selectedKeyID, defaults, activeDialog, failures>>

ChooseKey(d, k) ==
    /\ dialog[d].inDocument /\ At(d, "open")
    /\ k # dialog[d].keySelect
    /\ MayChoose
    /\ dialog' = [dialog EXCEPT ![d].keySelect = k]
    /\ UNCHANGED <<published, selectedKeyID, defaults, activeDialog, failures>>

\* set_key.
SetKey(k) ==
    /\ selectedKeyID' = k
    /\ defaults' = IF defaults = "none stored" THEN "outrun" ELSE defaults

\* Nothing is submitted for a category that has lost its verdict.
ActionsUnrevokedMutant(x) ==
    {c \in Categories : x.before[c] # x.after[c] /\ x.after[c] # NoVerdict}

\* The difference between what a dialog has found and what it shows.
Actions(x) == {c \in Categories : x.before[c] # x.after[c]}

\* The Sign button: set_key, and on to the first submission unless there is none.
Sign(d) ==
    /\ dialog[d].inDocument /\ At(d, "open")
    /\ SetKey(dialog[d].keySelect)
    /\ dialog' = IF Actions(dialog[d]) = {} THEN dialog
                 ELSE [dialog EXCEPT ![d].stage = "signing", ![d].keyID = dialog[d].keySelect,
                         ![d].wanted = dialog[d].after, ![d].actions = Actions(dialog[d])]
    /\ UNCHANGED <<published, activeDialog, inputs, failures>>

\* The category of the submission under way.
IsNext(d, c) == c \in dialog[d].actions /\ \A q \in dialog[d].actions : c <= q

\* The log takes its verdict, or revocation ...
Record(d, c) ==
    published' = [published EXCEPT ![dialog[d].keyID][c] = dialog[d].wanted[c]]

\* ... and this is what the dialogs' histories make of it.
Posted(d, c) ==
    [q \in Dialogs |->
        IF q = d THEN [dialog[d] EXCEPT !.posted = @ \union {c}]
        ELSE [dialog[q] EXCEPT !.disturbed =
                 @ \/ (dialog[q].read /\ dialog[q].mine = dialog[d].keyID)]]

\* One submission succeeds; after the last one the timer is set.
Submitted(d) ==
    /\ At(d, "signing")
    /\ \E c \in Categories :
          /\ IsNext(d, c) /\ Record(d, c)
          /\ dialog' = [Posted(d, c) EXCEPT ![d].actions = @ \ {c},
                           ![d].stage = IF dialog[d].actions = {c} THEN "signed" ELSE @]
    /\ UNCHANGED <<selectedKeyID, defaults, activeDialog, inputs, failures>>

\* What a failure leaves: Sign may be pressed again, if it is there to be seen.
Failed(ds, d) ==
    [ds EXCEPT ![d] =
        IF @.inDocument THEN [@ EXCEPT !.stage = "open", !.keyID = NoKey, !.wanted = Nothing,
                                       !.actions = {}]
        ELSE Over]

\* It fails, or only its answer is lost: the others are not tried.
SubmissionFails(d) ==
    /\ At(d, "signing")
    /\ MayFail
    /\ \/ \E c \in Categories :
             IsNext(d, c) /\ Record(d, c) /\ dialog' = Failed(Posted(d, c), d)
       \/ UNCHANGED published /\ dialog' = Failed(dialog, d)
    /\ UNCHANGED <<selectedKeyID, defaults, activeDialog, inputs>>

\* activeDialog is not reset.
TimerStaleMutant(d) ==
    /\ At(d, "signed")
    /\ dialog' = [CloseActive(dialog) EXCEPT ![d] =
          IF @.inDocument /\ activeDialog # d THEN Keyless(@) ELSE Over]
    /\ UNCHANGED <<published, selectedKeyID, defaults, activeDialog, inputs, failures>>

\* 800 ms after its success the dialog closes, or whichever is active by then.
Timer(d) ==
    /\ At(d, "signed")
    /\ dialog' = [CloseActive(dialog) EXCEPT ![d] =
          IF @.inDocument /\ activeDialog # d THEN Keyless(@) ELSE Over]
    /\ activeDialog' = NoDialog
    /\ UNCHANGED <<published, selectedKeyID, defaults, inputs, failures>>

-----------------------------------------------------------------------------
\* The key selector of the options page.
ChooseStoredKey(k) ==
    /\ k # selectedKeyID
    /\ MayChoose
    /\ SetKey(k)
    /\ UNCHANGED <<published, activeDialog, dialog, failures>>

\* gpg is asked whatever the storage holds.
ReadDefaultsMutant ==
    /\ defaults = "start"
    /\ defaults' = "none stored"
    /\ UNCHANGED <<published, selectedKeyID, activeDialog, dialog, inputs, failures>>

\* initDefaults, when the browser starts or the extension is installed: it reads the
\* storage, and asks gpg when that holds no key ...
ReadDefaults ==
    /\ defaults = "start"
    /\ defaults' = IF selectedKeyID = NoKey THEN "none stored" ELSE "done"
    /\ UNCHANGED <<published, selectedKeyID, activeDialog, dialog, inputs, failures>>

\* ... and stores the first one of those gpg lists; what is stored by then it does not ask.
WriteDefaults ==
    /\ defaults \in {"none stored", "outrun"}
    /\ defaults' = "done"
    /\ selectedKeyID' = FirstKey
    /\ UNCHANGED <<published, activeDialog, dialog, inputs, failures>>

DefaultsFail ==
    /\ defaults \in {"none stored", "outrun"}
    /\ MayFail
    /\ defaults' = "done"
    /\ UNCHANGED <<published, selectedKeyID, activeDialog, dialog, inputs>>

-----------------------------------------------------------------------------
Answered(d) == GetKey(d) \/ GetMyKey(d) \/ GetMyVerdicts(d) \/ ShowDialog(d) \/ ShowKeyless(d)
Signing(d)  == Submitted(d) \/ SubmissionFails(d)
Input(d)    == \/ \E s \in Selections : Choose(d, s)
               \/ \E k \in Keys : ChooseKey(d, k)
Defaults    == ReadDefaults \/ WriteDefaults \/ DefaultsFail

\* What goes on in a call without the user.
Step(d) == Answered(d) \/ Signing(d) \/ Timer(d)

Next ==
    \/ \E d \in Dialogs : Open(d) \/ Input(d) \/ Sign(d) \/ Step(d)
    \/ Cancel
    \/ \E k \in Keys : ChooseStoredKey(k)
    \/ Defaults

Spec == Init /\ [][Next]_vars

-----------------------------------------------------------------------------
Stages == {"new", "opening", "open", "keyless", "signing", "signed", "over"}

DialogType ==
    [stage : Stages, inDocument : BOOLEAN, keySelect : Keys \union {NoKey, Unread},
     mine : Keys \union {NoKey, Unread}, read : BOOLEAN, before : Selections,
     after : Selections, keyID : Keys \union {NoKey}, wanted : Selections,
     actions : SUBSET Categories, touched : SUBSET Categories, posted : SUBSET Categories,
     disturbed : BOOLEAN, overlapped : BOOLEAN]

\* What a dialog in stage x.stage has at hand: one that takes input knows its key and what
\* it found, and one that signs the key it signs with and a category to submit.
AtHand(x) ==
    /\ x.stage \in {"open", "signing", "signed"} => x.keySelect \in Keys /\ x.read
    /\ x.stage \in {"signing", "signed"} => x.keyID \in Keys
    /\ x.stage = "signing" => x.actions # {}

(* The types, what each stage has at hand (content.js:224-237, 377-452), and that the active *)
(* dialog can be seen.                                                                        *)
TypeOK ==
    /\ published \in [Keys -> Selections]
    /\ selectedKeyID \in Keys \union {NoKey}
    /\ defaults \in {"start", "none stored", "outrun", "done"}
    /\ activeDialog \in Dialogs \union {NoDialog}
    /\ dialog \in [Dialogs -> DialogType]
    /\ inputs \in 0..MaxInputs /\ failures \in 0..MaxFailures
    /\ \A d \in Dialogs : AtHand(dialog[d])
    /\ activeDialog # NoDialog => dialog[activeDialog].inDocument

(* Nothing is signed, queued for it or in the log, for a category the user has not       *)
(* touched in this dialog (content.js:384-402), whatever else happens to the key.           *)
UntouchedUnsigned ==
    \A d \in Dialogs :
       dialog[d].actions \union dialog[d].posted \subseteq dialog[d].touched

(* When a dialog says that it has signed (content.js:441), the log holds what it showed  *)
(* when the button was pressed, provided that it signs with the key whose verdicts it had    *)
(* read, and that nobody else has signed with it since.  The code keeps `before` as read     *)
(* when a submission fails, and so does not take back what an earlier attempt had posted:     *)
(* a category that is set back to it after such an attempt is the exception.  There is one    *)
(* log here: when set_log_url changes it between get_my_verdicts (service-worker.js:389) and    *)
(* sign (service-worker.js:461), `before` is what another log held, and this is not promised.   *)
SignedAsShown ==
    \A d \in Dialogs :
       At(d, "signed") /\ dialog[d].keyID = dialog[d].mine /\ ~dialog[d].disturbed =>
          \A c \in Categories :
             \/ published[dialog[d].keyID][c] = dialog[d].wanted[c]
             \/ c \in dialog[d].posted /\ dialog[d].wanted[c] = dialog[d].before[c]

(* A dialog that nothing can close any more (content.js:209, 465, 468) was being opened at *)
(* the same time as another one.                                                              *)
StrayDialogs ==
    \A d \in Dialogs : dialog[d].inDocument /\ d # activeDialog => dialog[d].overlapped

(* The first key is stored in place of no other (service-worker.js:516-532), unless the   *)
(* user has chosen one while initDefaults waited for gpg: that choice is overwritten.        *)
KeyKept == defaults = "none stored" => selectedKeyID = NoKey

(* A dialog that is asked for, that signs or has signed is never stuck: its next step is      *)
(* possible, whatever has failed (content.js:224-237, 414-452).                               *)
NeverStuck ==
    \A d \in Dialogs : dialog[d].stage \in {"opening", "signing", "signed"} => ENABLED Step(d)
=============================================================================
