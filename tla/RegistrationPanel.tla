------------------------- MODULE RegistrationPanel -------------------------
(***************************************************************************)
(* The admin page's registration panel in front of the relayer: the list   *)
(* under review, which was fetched earlier; the decision on it; and the    *)
(* whitelist build, a snapshot and then a publication of its root, whose   *)
(* result is copied into the create-poll form.                             *)
(*                                                                         *)
(* Between the page and the relayer any request may be lost, and so may    *)
(* any answer: the page then shows a failure while the relayer goes on.  A *)
(* request the page has given up and the relayer has not begun is gone.    *)
(***************************************************************************)
EXTENDS Admissions

CONSTANTS
    Unloaded,    \* a panel that shows no list
    NoTab

ASSUME PanelAssumption == NoTab \notin Tab

VARIABLES
    panel,      \* panel[t]: pending_commitments of admin tab t
    replies,    \* replies[t]: pending lists on their way to tab t
    review,     \* review[t]: the review request tab t waits for
    build,      \* build[t]: whitelist_build, and the answer it waits for
    form,       \* form[t]: the root in the create-poll form
    serving,    \* the tab that waits for the request holding the mutex
    clicked     \* commitments on a panel when "Approve" was clicked there

tabVars == <<panel, replies, review, build, form>>
panelVars == <<panel, replies, review, build, form, serving, clicked>>
allVars == <<vars, policyVars, panelVars>>

NoReview == [kind |-> "none", cs |-> {}]
Building == {"snapshot", "publish"}

PanelInit ==
    /\ Init
    /\ PolicyInit
    /\ panel = [t \in Tab |-> Unloaded]
    /\ replies = [t \in Tab |-> {}]
    /\ review = [t \in Tab |-> NoReview]
    /\ build = [t \in Tab |-> "idle"]
    /\ form = [t \in Tab |-> {}]
    /\ serving = NoTab
    /\ clicked = {}
-----------------------------------------------------------------------------
(* The list, and the decision on it. *)

\* fetch_pending_registrations: the relayer answers what is pending now ...
pending_registrations(t) ==
    /\ Free
    /\ replies' = [replies EXCEPT ![t] = @ \cup {CommitmentsOf(mem.pending)}]
    /\ UNCHANGED <<vars, policyVars, panel, review, build, form, serving, clicked>>

\* ... and the panel shows it when it arrives.
refresh_pending_registrations(t) ==
    /\ \E list \in replies[t] :
          /\ panel' = [panel EXCEPT ![t] = list]
          /\ replies' = [replies EXCEPT ![t] = @ \ {list}]
    /\ UNCHANGED <<vars, policyVars, review, build, form, serving, clicked>>

\* The buttons "Approve these" and "Reject all" are offered, and enabled.
ReviewPanel(t) == panel[t] \notin {Unloaded, {}} /\ review[t] = NoReview

\* The click sends the list on screen.  (Without an admin key it only fails.)
submit_review(t, kind) ==
    /\ ReviewPanel(t)
    /\ review' = [review EXCEPT ![t] = [kind |-> kind, cs |-> panel[t]]]
    /\ clicked' = IF kind = "approve" THEN clicked \cup panel[t] ELSE clicked
    /\ UNCHANGED <<vars, policyVars, panel, replies, build, form, serving>>

\* The answer: the list is stale and has to be fetched again.
review_done(t) ==
    /\ review' = [review EXCEPT ![t] = NoReview]
    /\ panel' = [panel EXCEPT ![t] = Unloaded]
    /\ UNCHANGED <<build, form>>

\* Mutant: the request says `all`.
ApproveEverything(t) ==
    /\ review[t].kind = "approve"
    /\ approve_all
    /\ serving' = t
    /\ UNCHANGED <<policyVars, tabVars, clicked>>

ApproveNamed(t) ==
    /\ review[t].kind = "approve"
    /\ approve(review[t].cs)
    /\ serving' = t
    /\ UNCHANGED <<policyVars, tabVars, clicked>>

RejectNamed(t) ==
    /\ review[t].kind = "reject"
    /\ reject(review[t].cs)
    /\ serving' = t
    /\ UNCHANGED <<policyVars, tabVars, clicked>>

\* Nothing of the list was there to change: 200, nothing written.
ReviewOfNothing(t) ==
    /\ review[t] # NoReview
    /\ Free
    /\ LET named == {e \in mem.pending : e.commitment \in review[t].cs} IN
       \/ named = {}
       \/ review[t].kind = "approve" /\ \A e \in named : e.approved
    /\ review_done(t)
    /\ UNCHANGED <<vars, policyVars, replies, serving, clicked>>

approve_registrations(t) == ApproveNamed(t) \/ ReviewOfNothing(t)
reject_registrations(t) == RejectNamed(t) \/ ReviewOfNothing(t)

\* The tab no longer waits for the request being served, if that was its own
\* of those kinds.
GiveUp(t, kinds) ==
    serving' = IF serving = t /\ holder.kind \in kinds THEN NoTab ELSE serving

\* The request or its answer is lost: the panel keeps its list.
review_failed(t) ==
    /\ review[t] # NoReview
    /\ review' = [review EXCEPT ![t] = NoReview]
    /\ GiveUp(t, {"approve", "reject"})
    /\ UNCHANGED <<vars, policyVars, panel, replies, build, form, clicked>>
-----------------------------------------------------------------------------
(* The whitelist build. *)

\* The build button is enabled.
VoterRegistrationPanel(t) == build[t] \notin Building

build_whitelist_from_registrations(t) ==
    /\ VoterRegistrationPanel(t)
    /\ build' = [build EXCEPT ![t] = "snapshot"]
    /\ UNCHANGED <<vars, policyVars, panel, replies, review, form, serving, clicked>>

snapshot_registrations(t) ==
    /\ build[t] = "snapshot"
    /\ snapshot(t)
    /\ serving' = t
    /\ UNCHANGED <<policyVars, tabVars, clicked>>

\* The root of the list that was answered.
publish_registration(t) ==
    /\ build[t] = "publish"
    /\ publish(t)
    /\ serving' = t
    /\ UNCHANGED <<policyVars, tabVars, clicked>>

\* No admin key, no Poseidon yet, a refusal (nothing approved, no snapshot),
\* a lost request or a lost answer.  A retry begins with a new snapshot.
whitelist_build_failed(t) ==
    /\ build[t] \in Building
    /\ build' = [build EXCEPT ![t] = "failed"]
    /\ GiveUp(t, {"snapshot", "publish"})
    /\ UNCHANGED <<vars, policyVars, panel, replies, review, form, clicked>>

\* Mutant: the root is offered as soon as it is computed.
SnapshottedAndOffered(t) ==
    /\ panel' = [panel EXCEPT ![t] = {}]
    /\ build' = [build EXCEPT ![t] =
                    IF mem.lastSnapshot = {} THEN "failed" ELSE "publish"]
    /\ form' = [form EXCEPT ![t] = mem.lastSnapshot]
    /\ UNCHANGED review

\* The list is there: the panel shows nothing pending, and an empty list ends
\* the build.
Snapshotted(t) ==
    /\ panel' = [panel EXCEPT ![t] = {}]
    /\ build' = [build EXCEPT ![t] =
                    IF mem.lastSnapshot = {} THEN "failed" ELSE "publish"]
    /\ UNCHANGED <<review, form>>

\* The root is copied into the form.
whitelist_build_done(t) ==
    /\ build' = [build EXCEPT ![t] = "done"]
    /\ form' = [form EXCEPT ![t] = tab[t]]
    /\ UNCHANGED <<panel, review>>

\* The form is made anew when the page is opened again, and a finished build
\* fills it again.
AdminPage(t) ==
    /\ build[t] # "done"
    /\ form' = [form EXCEPT ![t] = {}]
    /\ UNCHANGED <<vars, policyVars, panel, replies, review, build, serving, clicked>>
-----------------------------------------------------------------------------
(* The store's file operations, seen from here. *)

FileStep ==
    /\ FsCreate \/ FsWrite \/ LateStep
    /\ UNCHANGED <<policyVars, panelVars>>

\* The 200, heard by the tab that still waits for it.
Saved ==
    /\ FsRename
    /\ serving' = NoTab
    /\ IF serving = NoTab THEN UNCHANGED <<panel, review, build, form>>
       ELSE CASE holder.kind = "snapshot" -> Snapshotted(serving)
              [] holder.kind = "publish" -> whitelist_build_done(serving)
              [] OTHER -> review_done(serving)
    /\ UNCHANGED <<policyVars, replies, clicked>>

NotSaved ==
    /\ FsFail \/ Drop
    /\ serving' = NoTab
    /\ IF serving = NoTab THEN UNCHANGED <<review, build>>
       ELSE IF holder.kind \in Building
       THEN build' = [build EXCEPT ![serving] = "failed"] /\ UNCHANGED review
       ELSE review' = [review EXCEPT ![serving] = NoReview] /\ UNCHANGED build
    /\ UNCHANGED <<policyVars, panel, replies, form, clicked>>

\* Every request is gone with the process.
Restart ==
    \/ /\ Stop
       /\ review' = [t \in Tab |-> NoReview]
       /\ build' = [t \in Tab |-> IF build[t] \in Building THEN "failed" ELSE build[t]]
       /\ serving' = NoTab
       /\ UNCHANGED <<panel, replies, form, clicked>>
    \/ Start /\ UNCHANGED panelVars

PanelNext ==
    \/ /\ \/ \E c \in Commitment, k \in invite_code : register_handler(c, k)
          \/ \E q \in entering : Enroll(q) \/ NotEnrolled(q)
       /\ UNCHANGED panelVars
    \/ \E t \in Tab :
          \/ pending_registrations(t) \/ refresh_pending_registrations(t)
          \/ \E kind \in {"approve", "reject"} : submit_review(t, kind)
          \/ approve_registrations(t) \/ reject_registrations(t)
          \/ review_failed(t)
          \/ build_whitelist_from_registrations(t)
          \/ snapshot_registrations(t) \/ publish_registration(t)
          \/ whitelist_build_failed(t)
          \/ AdminPage(t)
    \/ FileStep \/ Saved \/ NotSaved \/ Restart

PanelSpec == PanelInit /\ [][PanelNext]_allVars
-----------------------------------------------------------------------------
\* for_root: what a voter's browser is served for a poll with that root ({}: a
\* 400, there is no list).
poll_registrations(root) == mem.snapshots[root]

Electable == UNION (Lists(mem) \cup Lists(Disk))

\* Only what an administrator had on screen when clicking "Approve" is ever
\* approved or in an electorate: a registration that arrives between the
\* refresh and the click, or while the request is under way, is not swept in.
ReviewedBeforeApproved ==
    RequireApproval =>
       /\ \A e \in mem.pending : e.approved => e.commitment \in clicked
       /\ Electable \subseteq clicked

\* A root in the create-poll form has its voters on disk, and every list that
\* is served is the one its root is of: a voter of a poll with that root can
\* build the tree and be found in it, over lost answers, failed writes, builds
\* that were begun again and crashes.  (Holds for one admin tab.)
FormRootHasItsList ==
    /\ \A t \in Tab : form[t] # {} => Disk.snapshots[form[t]] = form[t]
    /\ \A root \in Root : poll_registrations(root) \in {{}, root}
=============================================================================
