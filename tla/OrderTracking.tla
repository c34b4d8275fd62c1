---------------------------- MODULE OrderTracking ----------------------------
(***************************************************************************)
(* The page on which a customer follows an order (TrackingPage.tsx), and   *)
(* what the server does for it (order-engagement.service.ts): what it may  *)
(* notify the customer of, and the feedback.                               *)
(*                                                                         *)
(* The page waits for one toggle, one push registration, one load and one  *)
(* feedback at a time, but not for one before it sends another.  The       *)
(* server reads the preferences, then writes all of them.                  *)
(***************************************************************************)
EXTENDS Naturals

VARIABLES
  prefs,        \* the preferences of the order, at the server
  order,        \* whether the order is delivered, at the server
  feedback,     \* whether there is feedback, at the server
  tracking,     \* the snapshot the page has
  fetching,     \* the page says it is loading
  broken,       \* the page shows an error, and nothing else
  fetch,        \* the load under way
  toggle,       \* the change of a preference under way
  registration, \* the push registration under way
  sending,      \* the feedback under way
  forced,       \* the link asks for feedback, whatever the order's status
  clicks,       \* bound: how often the customer may still click
  consent,      \* history: what the customer has last chosen, as the server has served it
  tangled,      \* history: a load or a registration has met another request
  uncertain     \* history: so it has since the last load on its own, or one has failed

trackingVars == <<prefs, order, feedback, tracking, fetching, broken, fetch, toggle, registration,
                  sending, forced, clicks, consent, tangled, uncertain>>

Field    == {"push", "slot", "email"}
Prefs    == [Field -> BOOLEAN]
Snapshot == [prefs : Prefs, delivered : BOOLEAN, feedback : BOOLEAN]
Toggle   == [at : {"idle", "sent", "read", "served"}, field : Field, value : BOOLEAN, row : Prefs]
Register == [at : {"idle", "asking", "sent", "stored", "again", "read", "served"},
             slot : BOOLEAN, row : Prefs]

orderVars   == <<prefs, order, feedback>>
trackVars   == <<tracking, fetching, broken>>
requestVars == <<fetch, toggle, registration, sending>>
trackNotes  == <<forced, clicks, consent, tangled, uncertain>>

\* The first load is under way.
TrackingInit(first, force, bound) ==
  /\ prefs = first /\ consent = first /\ order = "UNDERWAY" /\ feedback = FALSE
  /\ tracking = [prefs |-> first, delivered |-> FALSE, feedback |-> FALSE]
  /\ fetching = TRUE /\ broken = FALSE
  /\ fetch = [at |-> "sent", got |-> tracking]
  /\ toggle = [at |-> "idle", field |-> "push", value |-> FALSE, row |-> first]
  /\ registration = [at |-> "idle", slot |-> FALSE, row |-> first]
  /\ sending = "idle" /\ forced = force /\ clicks = bound
  /\ tangled = FALSE /\ uncertain = FALSE

TrackingVisible == ~fetching /\ ~broken
TrackingAtRest  == fetch.at = "idle" /\ toggle.at = "idle" /\ registration.at = "idle" /\ sending = "idle"

\* A click, by which a request may meet those that are under way.
Click(meets) ==
  /\ TrackingVisible /\ clicks > 0 /\ clicks' = clicks - 1
  /\ tangled' = (tangled \/ meets)
  /\ UNCHANGED <<orderVars, forced, consent>>

-----------------------------------------------------------------------------
LoadTracking ==
  /\ fetch.at = "idle" /\ Click(~TrackingAtRest)
  /\ fetch' = [fetch EXCEPT !.at = "sent"]
  /\ fetching' = TRUE /\ uncertain' = ~TrackingAtRest
  /\ UNCHANGED <<tracking, broken, toggle, registration, sending>>

GetTrackingSnapshot ==
  /\ fetch.at = "sent"
  /\ fetch' = [at |-> "served", got |-> [prefs |-> prefs, delivered |-> order = "DELIVERED",
                                         feedback |-> feedback]]
  /\ UNCHANGED <<orderVars, trackVars, toggle, registration, sending, trackNotes>>

TrackingArrives ==
  /\ fetch.at = "served"
  /\ fetch' = [fetch EXCEPT !.at = "idle"]
  /\ tracking' = fetch.got /\ fetching' = FALSE
  /\ UNCHANGED <<orderVars, broken, toggle, registration, sending, trackNotes>>

\* An error takes the place of the page until the customer opens it again.
TrackingFails ==
  /\ fetch.at # "idle"
  /\ fetch' = [fetch EXCEPT !.at = "idle"]
  /\ broken' = TRUE /\ fetching' = FALSE
  /\ UNCHANGED <<orderVars, tracking, toggle, registration, sending, trackNotes>>

-----------------------------------------------------------------------------
\* The boxes are disabled while one of them is being changed.
HandlePreferenceToggle(f) ==
  /\ toggle.at = "idle" /\ Click(registration.at # "idle")
  /\ toggle' = [toggle EXCEPT !.at = "sent", !.field = f, !.value = ~tracking.prefs[f]]
  /\ uncertain' = (uncertain \/ registration.at # "idle")
  /\ UNCHANGED <<trackVars, fetch, registration, sending>>

FindPreference ==
  \/ /\ toggle.at = "sent"
     /\ toggle' = [toggle EXCEPT !.at = "read", !.row = prefs]
     /\ UNCHANGED <<orderVars, trackVars, fetch, registration, sending, trackNotes>>
  \/ /\ registration.at = "again"
     /\ registration' = [registration EXCEPT !.at = "read", !.row = prefs]
     /\ UNCHANGED <<orderVars, trackVars, fetch, toggle, sending, trackNotes>>

\* Mutant: what the request does not name is allowed.
PreferenceRow_Allows(row, f, v) == [g \in Field |-> IF g = f THEN v ELSE TRUE]

\* What the request does not name is written as it was read.
PreferenceRow(row, f, v) == [row EXCEPT ![f] = v]

UpdateNotificationPreferences ==
  /\ toggle.at = "read"
  /\ prefs' = PreferenceRow(toggle.row, toggle.field, toggle.value)
  /\ toggle' = [toggle EXCEPT !.at = "served", !.row = prefs']
  /\ consent' = [consent EXCEPT ![toggle.field] = toggle.value]
  /\ UNCHANGED <<order, feedback, trackVars, fetch, registration, sending, forced, clicks, tangled, uncertain>>

ToggleArrives ==
  /\ toggle.at = "served"
  /\ toggle' = [toggle EXCEPT !.at = "idle"]
  /\ tracking' = [tracking EXCEPT !.prefs = toggle.row]
  /\ UNCHANGED <<orderVars, fetching, broken, fetch, registration, sending, trackNotes>>

ToggleFails ==
  /\ toggle.at # "idle"
  /\ toggle' = [toggle EXCEPT !.at = "idle"]
  /\ broken' = TRUE
  /\ UNCHANGED <<orderVars, tracking, fetching, fetch, registration, sending, trackNotes>>

-----------------------------------------------------------------------------
\* The registration carries what the page showed when the button was pressed; the browser asks the
\* customer first, who may go on using the page.
HandlePushRegistration ==
  /\ registration.at = "idle" /\ Click(toggle.at # "idle")
  /\ registration' = [registration EXCEPT !.at = "asking", !.slot = tracking.prefs["slot"]]
  /\ uncertain' = (uncertain \/ toggle.at # "idle")
  /\ UNCHANGED <<trackVars, fetch, toggle, sending>>

\* The customer allows notifications, or the subscription answers: the next request goes out.
RegistrationAdvances ==
  /\ registration.at \in {"asking", "stored"}
  /\ registration' = [registration EXCEPT !.at = IF @ = "asking" THEN "sent" ELSE "again"]
  /\ UNCHANGED <<orderVars, trackVars, fetch, toggle, sending, trackNotes>>

\* registerPushSubscription: the preferences exist, so ensurePreference writes the overrides.
RegisterPushSubscription ==
  /\ registration.at = "sent"
  /\ registration' = [registration EXCEPT !.at = "stored"]
  /\ prefs' = [prefs EXCEPT !["push"] = TRUE, !["slot"] = registration.slot]
  /\ consent' = [consent EXCEPT !["push"] = TRUE]
  /\ UNCHANGED <<order, feedback, trackVars, fetch, toggle, sending, forced, clicks, tangled, uncertain>>

AllowStatusPush ==
  /\ registration.at = "read"
  /\ prefs' = PreferenceRow(registration.row, "push", TRUE)
  /\ registration' = [registration EXCEPT !.at = "served", !.row = prefs']
  /\ consent' = [consent EXCEPT !["push"] = TRUE]
  /\ UNCHANGED <<order, feedback, trackVars, fetch, toggle, sending, forced, clicks, tangled, uncertain>>

RegistrationArrives ==
  /\ registration.at = "served"
  /\ registration' = [registration EXCEPT !.at = "idle"]
  /\ tracking' = [tracking EXCEPT !.prefs = registration.row]
  /\ UNCHANGED <<orderVars, fetching, broken, fetch, toggle, sending, trackNotes>>

\* What the server has written stays written, and the page does not show it.
RegistrationFails ==
  /\ registration.at # "idle"
  /\ registration' = [registration EXCEPT !.at = "idle"]
  /\ uncertain' = (uncertain \/ registration.at # "asking")
  /\ UNCHANGED <<orderVars, trackVars, fetch, toggle, sending, forced, clicks, consent, tangled>>

-----------------------------------------------------------------------------
CanSubmitFeedback == tracking.delivered \/ forced

\* The form is shown until the page has feedback.
HandleFeedbackSubmit ==
  /\ sending = "idle" /\ ~tracking.feedback /\ CanSubmitFeedback
  /\ Click(FALSE)
  /\ sending' = "sent"
  /\ UNCHANGED <<trackVars, fetch, toggle, registration, uncertain>>

SubmitFeedback ==
  /\ sending = "sent" /\ sending' = "served"
  /\ feedback' = TRUE
  /\ UNCHANGED <<prefs, order, trackVars, fetch, toggle, registration, trackNotes>>

FeedbackArrives ==
  /\ sending = "served" /\ sending' = "idle"
  /\ tracking' = [tracking EXCEPT !.feedback = TRUE]
  /\ UNCHANGED <<orderVars, fetching, broken, fetch, toggle, registration, trackNotes>>

FeedbackFails ==
  /\ sending # "idle" /\ sending' = "idle" /\ uncertain' = TRUE
  /\ UNCHANGED <<orderVars, trackVars, fetch, toggle, registration, forced, clicks, consent, tangled>>

OrderDelivered ==
  /\ order # "DELIVERED" /\ order' = "DELIVERED"
  /\ UNCHANGED <<prefs, feedback, trackVars, requestVars, trackNotes>>

-----------------------------------------------------------------------------
TrackingNext ==
  \/ LoadTracking \/ GetTrackingSnapshot \/ TrackingArrives \/ TrackingFails
  \/ \E f \in Field : HandlePreferenceToggle(f)
  \/ FindPreference \/ UpdateNotificationPreferences \/ ToggleArrives \/ ToggleFails
  \/ HandlePushRegistration \/ RegistrationAdvances \/ RegisterPushSubscription
  \/ AllowStatusPush \/ RegistrationArrives \/ RegistrationFails
  \/ HandleFeedbackSubmit \/ SubmitFeedback \/ FeedbackArrives \/ FeedbackFails
  \/ OrderDelivered

-----------------------------------------------------------------------------
TrackingTypeOK ==
  /\ prefs \in Prefs /\ order \in {"UNDERWAY", "DELIVERED"} /\ feedback \in BOOLEAN
  /\ tracking \in Snapshot /\ fetching \in BOOLEAN /\ broken \in BOOLEAN
  /\ fetch \in [at : {"idle", "sent", "served"}, got : Snapshot]
  /\ toggle \in Toggle /\ registration \in Register /\ sending \in {"idle", "sent", "served"}
  /\ forced \in BOOLEAN /\ clicks \in Nat
  /\ consent \in Prefs /\ tangled \in BOOLEAN /\ uncertain \in BOOLEAN

\* TrackingPage and order-engagement.service.ts: what the customer has allowed and withdrawn is what
\* the server goes by, unless a registration has overlapped with a change, or a load with either;
\* at rest the page shows what the server has, unless that happened since it was loaded or a
\* request has failed; and feedback is given for delivered orders, unless the link forces it.
ConsentKept ==
  /\ ~tangled => prefs = consent
  /\ TrackingVisible /\ TrackingAtRest /\ ~uncertain => tracking.prefs = prefs /\ tracking.feedback = feedback
  /\ feedback => order = "DELIVERED" \/ forced
=============================================================================
