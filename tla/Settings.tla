------------------------------ MODULE Settings ------------------------------
(***************************************************************************)
(* The settings page: the profile panel's three faces and its two forms,   *)
(* the order-updates switch, and the danger row, whose button asks twice.  *)
(* An answer may arrive after its form was closed, or opened again.  The   *)
(* panels share nothing: a behaviour exercises one of the three.           *)
(***************************************************************************)
EXTENDS Naturals, FiniteSets

CONSTANTS Slots, Nothing, Idle, Sent

RQ == INSTANCE ReactQuery

VARIABLES panel,     \* the panel in use: "profile", "switch" or "danger"
          mode,      \* the profile panel: "view", "edit" or "password"
          forms,     \* its requests under way
          switch,    \* the switch's request: "free", "sent", "applied" or "refreshing"
          asked,     \* what that request asks for
          prefsQ,    \* the cached preferences
          updates,   \* the server's value
          danger,    \* the delete row: closed or open, armed or not
          deletion   \* its request: "free", "sent" or "done"

settingsVars == <<panel, mode, forms, switch, asked, prefsQ, updates, danger, deletion>>

profileVars == <<mode, forms>>
switchVars == <<switch, asked, prefsQ, updates>>
dangerVars == <<danger, deletion>>

Free == [kind |-> "free"]
Busy == {s \in Slots : forms[s] # Free}

SettingsInit ==
    /\ panel \in {"profile", "switch", "danger"}
    /\ mode = "view"
    /\ forms = [s \in Slots |-> Free]
    /\ switch = "free" /\ asked = TRUE
    /\ prefsQ = RQ!Ask(RQ!Fresh)
    /\ updates \in BOOLEAN
    /\ danger = [open |-> FALSE, armed |-> FALSE]
    /\ deletion = "free"

-----------------------------------------------------------------------------
(* The profile panel *)

\* A form listens to the last request sent from it since it was last opened: opening it
\* resets its own mutation, and only its own.  (old is HISTORY: sent before that opening.)
Deaf(kind) == [s \in Slots |-> IF forms[s] # Free /\ forms[s].kind = kind
                               THEN [forms[s] EXCEPT !.heard = FALSE] ELSE forms[s]]

\* Mutant: the mutation is not reset, so its late answer is still heard.
ResetKeepsListening(kind) ==
    [s \in Slots |-> IF forms[s] # Free /\ forms[s].kind = kind
                     THEN [forms[s] EXCEPT !.old = TRUE] ELSE forms[s]]

Reset(kind) == [s \in Slots |-> IF forms[s] # Free /\ forms[s].kind = kind
                                THEN [forms[s] EXCEPT !.heard = FALSE, !.old = TRUE]
                                ELSE forms[s]]
Waiting(kind) == \E s \in Busy : forms[s].kind = kind /\ forms[s].heard

OpenForm(kind) ==
    /\ mode = "view"
    /\ mode' = kind
    /\ forms' = Reset(kind)
    /\ UNCHANGED <<switchVars, dangerVars>>

OpenEdit == OpenForm("edit")
OpenPassword == OpenForm("password")

Cancel ==
    /\ mode # "view"
    /\ mode' = "view"
    /\ UNCHANGED <<forms, switchVars, dangerVars>>

Submit ==
    /\ mode # "view" /\ ~Waiting(mode)
    /\ \E s \in Slots \ Busy :
          forms' = [Deaf(mode) EXCEPT ![s] = [kind |-> mode, heard |-> TRUE, old |-> FALSE]]
    /\ UNCHANGED <<mode, switchVars, dangerVars>>

\* Success returns to the read-only panel if the form still listens, whatever is open by
\* now; an error leaves the form open with its message.
AnswerForm(s) ==
    /\ s \in Busy
    /\ forms' = [forms EXCEPT ![s] = Free]
    /\ mode' = IF forms[s].heard THEN "view" ELSE mode
    /\ UNCHANGED <<switchVars, dangerVars>>

RefuseForm(s) ==
    /\ s \in Busy
    /\ forms' = [forms EXCEPT ![s] = Free]
    /\ UNCHANGED <<mode, switchVars, dangerVars>>

-----------------------------------------------------------------------------
(* The switch *)

Shown == IF RQ!Loaded(prefsQ) THEN prefsQ.data ELSE TRUE
SwitchEnabled == RQ!Loaded(prefsQ) /\ switch = "free"

FlipSwitch ==
    /\ SwitchEnabled
    /\ switch' = "sent" /\ asked' = ~Shown
    /\ UNCHANGED <<prefsQ, updates, profileVars, dangerVars>>

SaveUpdates ==
    /\ switch = "sent"
    /\ updates' = asked
    /\ switch' = "applied"
    /\ UNCHANGED <<asked, prefsQ, profileVars, dangerVars>>

RefuseSwitch ==
    /\ switch = "sent"
    /\ switch' = "free"
    /\ UNCHANGED <<asked, prefsQ, updates, profileVars, dangerVars>>

\* onSuccess returns the invalidation, so the mutation is pending until the refetch is over.
LandSwitch ==
    /\ switch = "applied"
    /\ switch' = "refreshing"
    /\ prefsQ' = RQ!Invalidate(prefsQ)
    /\ UNCHANGED <<asked, updates, profileVars, dangerVars>>

Refetched == switch' = IF switch = "refreshing" THEN "free" ELSE switch

ReadPrefs ==
    /\ prefsQ.fetch = Sent
    /\ prefsQ' = RQ!Answer(prefsQ, updates)
    /\ UNCHANGED <<switch, asked, updates, profileVars, dangerVars>>

StorePrefs ==
    /\ prefsQ.fetch \notin {Idle, Sent}
    /\ prefsQ' = RQ!Store(prefsQ)
    /\ Refetched
    /\ UNCHANGED <<asked, updates, profileVars, dangerVars>>

PrefsUnavailable ==
    /\ prefsQ.fetch = Sent
    /\ prefsQ' = RQ!GiveUp(prefsQ)
    /\ Refetched
    /\ UNCHANGED <<asked, updates, profileVars, dangerVars>>

Focus ==
    /\ ~RQ!Fetching(prefsQ)
    /\ prefsQ' = RQ!Ask(prefsQ)
    /\ UNCHANGED <<switch, asked, updates, profileVars, dangerVars>>

-----------------------------------------------------------------------------
(* The danger row *)

OpenDanger ==
    /\ ~danger.open
    /\ danger' = [danger EXCEPT !.open = TRUE]
    /\ UNCHANGED <<deletion, profileVars, switchVars>>

\* Cancel closes the row; a running timer goes on.
CancelDanger ==
    /\ danger.open
    /\ danger' = [danger EXCEPT !.open = FALSE]
    /\ UNCHANGED <<deletion, profileVars, switchVars>>

Disarmed == [danger EXCEPT !.armed = FALSE]

\* The first press arms the button for three seconds, the second sends and disarms it.
PressDelete ==
    /\ danger.open /\ deletion = "free"
    /\ IF danger.armed
       THEN danger' = Disarmed /\ deletion' = "sent"
       ELSE danger' = [danger EXCEPT !.armed = TRUE] /\ UNCHANGED deletion
    /\ UNCHANGED <<profileVars, switchVars>>

DisarmTimer ==
    /\ danger.armed
    /\ danger' = Disarmed
    /\ UNCHANGED <<deletion, profileVars, switchVars>>

\* A wrong password, or the last administrator.
RefuseDelete ==
    /\ deletion = "sent"
    /\ deletion' = "free"
    /\ UNCHANGED <<danger, profileVars, switchVars>>

DeleteAccount ==
    /\ deletion = "sent"
    /\ deletion' = "done"
    /\ UNCHANGED <<danger, profileVars, switchVars>>

ProfileNext ==
    \/ OpenEdit
    \/ OpenPassword
    \/ Cancel
    \/ Submit
    \/ \E s \in Slots : AnswerForm(s) \/ RefuseForm(s)

SwitchNext ==
    \/ FlipSwitch
    \/ SaveUpdates
    \/ RefuseSwitch
    \/ LandSwitch
    \/ ReadPrefs
    \/ StorePrefs
    \/ PrefsUnavailable
    \/ Focus

DangerNext ==
    \/ OpenDanger
    \/ CancelDanger
    \/ PressDelete
    \/ DisarmTimer
    \/ RefuseDelete
    \/ DeleteAccount

SettingsNext ==
    /\ \/ panel = "profile" /\ ProfileNext
       \/ panel = "switch" /\ SwitchNext
       \/ panel = "danger" /\ DangerNext
    /\ UNCHANGED panel

-----------------------------------------------------------------------------
(* Properties *)

\* A form that was closed and opened again is not closed by the answer to what was sent
\* before.  (The answer of the OTHER form may close it: each opening resets one mutation.)
KeepsReopened ==
    \A s \in Busy : AnswerForm(s) /\ mode = forms[s].kind /\ mode' # mode => ~forms[s].old

ReopenedFormStays == [][KeepsReopened]_settingsVars
=============================================================================
