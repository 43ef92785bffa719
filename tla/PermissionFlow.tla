--------------------------- MODULE PermissionFlow ---------------------------
(***************************************************************************)
(* The dialog that asks the device's owner about one request               *)
(* (PermissionDialogActivity.java, PermissionDecision.java), its native    *)
(* side (cmd/jniservice/permission_decision.go) and the handler that       *)
(* launches it (grpc/server/auth_service.go), over AclStore.  Other        *)
(* requests, clients and the administrator go on meanwhile.                *)
(*                                                                         *)
(* The dialog's handlers run on the main thread: one action each.  The     *)
(* task a tap submits runs on the executor, takes its steps in the         *)
(* database, and posts its result back to the main thread.  Operation, the *)
(* state both share, outlives a rotation but not the process, and not an   *)
(* activity that Android destroys in the background: its successor starts  *)
(* from the saved bundle and never hears of the old task.                  *)
(*                                                                         *)
(* External: Android's activity lifecycle, its permission prompt and the   *)
(* owner.                                                                  *)
(***************************************************************************)
EXTENDS AclStore

VARIABLES
  launching,   (* handlers between CreateRequest and the launch of a dialog *)
  shown,       (* the request the dialog was launched for                   *)
  view,        (* where the activity is in its lifecycle                    *)
  decision,    (* operation.state                                           *)
  bundle,      (* the state onSaveInstanceState saved last                  *)
  task,        (* the decision on the executor or on its way back           *)
  available,   (* activeACL is set                                          *)
  prompt,      (* the platform's permission prompt is open                  *)
  saved,       (* history: what the dialog decided, and about which request *)
  prompts      (* history: permission prompts opened                        *)

activity == <<shown, view, bundle>>
platform == <<prompt, prompts>>
flowVars == <<aclVars, launching, activity, decision, task, available, platform,
              saved>>

Nothing == [id |-> 0, nr |-> 0]
Fresh == [outcome |-> "READY", approve |-> FALSE, requested |-> FALSE, finished |-> FALSE]
NoTask == [stage |-> "idle", approve |-> FALSE, result |-> "none", observed |-> FALSE]
NotSaved == [status |-> "none", nr |-> 0]

-----------------------------------------------------------------------------
(* PermissionDecision.                                                     *)

CanBegin == decision.outcome \in {"READY", "ERROR", "UNAVAILABLE"}

(* Fault: takes a row that was not there for one that was decided.         *)
CompleteMissing(d, result) ==
  [d EXCEPT !.outcome = IF result \in {"saved", "missing"}
                        THEN IF d.approve THEN "APPROVED" ELSE "DENIED"
                        ELSE IF result = "unavailable" THEN "UNAVAILABLE" ELSE "ERROR"]

(* Fault: has no default case.                                             *)
CompleteKnown(d, result) ==
  IF result = "failed" THEN d
  ELSE [d EXCEPT !.outcome = CASE result = "saved" -> IF d.approve THEN "APPROVED" ELSE "DENIED"
                               [] result = "unavailable" -> "UNAVAILABLE"
                               [] OTHER -> "ALREADY_DECIDED"]

Complete(d, result) ==
  [d EXCEPT !.outcome =
     CASE result = "saved" -> IF d.approve THEN "APPROVED" ELSE "DENIED"
       [] result = "unavailable" -> "UNAVAILABLE"
       [] result = "missing" -> "ALREADY_DECIDED"
       [] result = "failed" -> "ERROR"]

(* Fault: takes the interrupted decision for one not yet made.             *)
RestoredReady(b) ==
  [b EXCEPT !.outcome = IF @ = "SAVING" THEN "READY" ELSE @, !.approve = FALSE]

Restored(b) ==
  [b EXCEPT !.outcome = IF @ = "SAVING" THEN "UNCERTAIN" ELSE @, !.approve = FALSE]

-----------------------------------------------------------------------------
(* RequestPermission: the row, then the dialog.  Only the first dialog     *)
(* that comes up is followed.                                              *)
Ask(c, ms, id) ==
  /\ CreateRequest(c, ms, id)
  /\ launching' = IF shown = Nothing
                  THEN launching \cup {[id |-> id, nr |-> asked + 1]} ELSE launching
  /\ UNCHANGED <<activity, decision, task, available, platform, saved>>

(* onCreate and onResume.                                                  *)
Launch ==
  /\ \E n \in launching : shown' = n
  /\ launching' = {}
  /\ view' = "resumed"
  /\ UNCHANGED <<aclVars, bundle, decision, task, available, platform, saved>>

(* requestRuntimePermissions, with this state in a resumed activity or in  *)
(* another.                                                                *)
RequestRuntimePermissions(d, isResumed) ==
  IF isResumed /\ d.outcome = "APPROVED" /\ ~d.requested
  THEN \E granted \in BOOLEAN :
         /\ decision' = [d EXCEPT !.requested = TRUE, !.finished = granted]
         /\ prompt' = ~granted
         /\ prompts' = IF granted THEN prompts ELSE prompts + 1
  ELSE decision' = d /\ UNCHANGED platform

Submit(approve) ==
  /\ view = "resumed"
  /\ CanBegin
  /\ decision' = [decision EXCEPT !.outcome = "SAVING", !.approve = approve]
  /\ task' = [stage |-> "queued", approve |-> approve, result |-> "none", observed |-> TRUE]
  /\ UNCHANGED <<aclVars, launching, activity, available, platform, saved>>

-----------------------------------------------------------------------------
(* The task: decideRequest, one action for each step in the database.      *)

Post(result) == task' = [task EXCEPT !.stage = "posted", !.result = result]

DecideUnavailable ==
  /\ task.stage = "queued" /\ ~available
  /\ Post("unavailable")
  /\ UNCHANGED <<aclVars, saved>>

DecideMissing ==
  /\ task.stage = "queued" /\ available
  /\ Pending(shown.id) = {}
  /\ Post("missing")
  /\ UNCHANGED <<aclVars, saved>>

Deny ==
  /\ task.stage = "queued" /\ available /\ ~task.approve
  /\ DenyRequest("service", shown.id)
  /\ \E r \in Pending(shown.id) : saved' = [status |-> "denied", nr |-> r.nr]
  /\ Post("saved")

ReadForApproval ==
  /\ task.stage = "queued" /\ available /\ task.approve
  /\ ReadRequest("service", shown.id)
  /\ task' = [task EXCEPT !.stage = "approving"]
  /\ UNCHANGED saved

Approve ==
  /\ task.stage = "approving"
  /\ CommitApproval("service")
  /\ \E t \in tx : t.connection = "service"
                   /\ saved' = [status |-> "approved", nr |-> t.nr]
  /\ Post("saved")

(* Any step in the database may fail.                                      *)
DecideFails ==
  /\ \/ task.stage = "queued" /\ available /\ UNCHANGED aclVars
     \/ task.stage = "approving" /\ Rollback("service")
  /\ Post("failed")
  /\ UNCHANGED saved

Decision ==
  /\ \/ DecideUnavailable \/ DecideMissing \/ Deny
     \/ ReadForApproval \/ Approve \/ DecideFails
  /\ UNCHANGED <<launching, activity, decision, available, platform>>

(* The runnable the task posts to the main thread.                         *)
Deliver ==
  /\ task.stage = "posted"
  /\ task' = NoTask
  /\ IF task.observed
     THEN RequestRuntimePermissions(Complete(decision, task.result), view = "resumed")
     ELSE UNCHANGED <<decision, platform>>
  /\ UNCHANGED <<aclVars, launching, activity, available, saved>>

-----------------------------------------------------------------------------
(* The activity's lifecycle.  A rotation goes through pause and resume     *)
(* with the same Operation.                                                *)

Pause ==
  /\ view = "resumed"
  /\ view' = "paused"
  /\ UNCHANGED <<aclVars, launching, shown, bundle, decision, task, available,
                 platform, saved>>

Resume ==
  /\ view \in {"paused", "stopped"}
  /\ view' = "resumed"
  /\ RequestRuntimePermissions(decision, TRUE)
  /\ UNCHANGED <<aclVars, launching, shown, bundle, task, available, saved>>

(* Fault: forgets that the platform was asked.                             *)
OutcomeOnly == [decision EXCEPT !.requested = FALSE]

SavedState == decision

(* onStop and onSaveInstanceState.                                         *)
Stop ==
  /\ view = "paused"
  /\ view' = "stopped"
  /\ bundle' = SavedState
  /\ UNCHANGED <<aclVars, launching, shown, decision, task, available, platform,
                 saved>>

(* Destroyed in the background; the process and its executor live on.      *)
Destroy ==
  /\ view = "stopped"
  /\ view' = "destroyed"
  /\ task' = [task EXCEPT !.observed = FALSE]
  /\ UNCHANGED <<aclVars, launching, shown, bundle, decision, available, platform,
                 saved>>

(* onCreate with the bundle and a new Operation, and onResume.             *)
Recreate ==
  /\ view = "destroyed"
  /\ view' = "resumed"
  /\ RequestRuntimePermissions(Restored(bundle), TRUE)
  /\ UNCHANGED <<aclVars, launching, shown, bundle, task, available, saved>>

Close ==
  /\ view = "resumed"
  /\ view' = "closed"
  /\ UNCHANGED <<aclVars, launching, shown, bundle, decision, task, available,
                 platform, saved>>

(* The process dies: SQLite rolls its transaction back, and the system     *)
(* keeps only an activity whose state was saved.                           *)
ProcessDies ==
  /\ view # "none"
  /\ view' = IF view \in {"stopped", "destroyed"} THEN "destroyed" ELSE "closed"
  /\ task' = NoTask
  /\ tx' = Others("service")
  /\ launching' = {}
  /\ available' = FALSE
  /\ UNCHANGED <<tables, asked, shown, bundle, decision, platform, saved>>

ServiceStarts ==
  /\ ~available
  /\ available' = TRUE
  /\ UNCHANGED <<aclVars, launching, activity, decision, task, platform, saved>>

(* onRequestPermissionsResult.                                             *)
PromptAnswered ==
  /\ prompt /\ view = "resumed"
  /\ prompt' = FALSE
  /\ decision' = [decision EXCEPT !.finished = TRUE]
  /\ UNCHANGED <<aclVars, launching, activity, task, available, prompts, saved>>

-----------------------------------------------------------------------------
FlowInit ==
  /\ Init
  /\ launching = {} /\ shown = Nothing
  /\ view = "none"
  /\ decision = Fresh /\ bundle = Fresh
  /\ task = NoTask
  /\ available \in BOOLEAN
  /\ prompt = FALSE /\ prompts = 0
  /\ saved = NotSaved

Lifecycle ==
  \/ Pause \/ Resume \/ Stop \/ Destroy \/ Recreate \/ Close
  \/ ProcessDies \/ ServiceStarts \/ PromptAnswered

(* What goes on beside the dialog: Register calls, the administrator's     *)
(* tool and its own decisions.                                             *)
Elsewhere ==
  /\ \/ \E c \in Clients : Register(c)
     \/ Administer
     \/ Decide("admin")
  /\ UNCHANGED <<launching, activity, decision, task, available, platform, saved>>

FlowNext ==
  \/ \E c \in Clients, ms \in Requested, id \in Ids : Ask(c, ms, id)
  \/ Launch
  \/ \E approve \in BOOLEAN : Submit(approve)
  \/ Decision
  \/ Deliver
  \/ Lifecycle
  \/ Elsewhere

FlowSpec == FlowInit /\ [][FlowNext]_flowVars

(* The executor and the main thread run what is queued.  The owner and     *)
(* Android owe nothing.                                                    *)
FairFlowSpec == FlowSpec /\ WF_flowVars(Decision) /\ WF_flowVars(Deliver)

-----------------------------------------------------------------------------
(***************************************************************************)
(* Properties.                                                             *)
(***************************************************************************)

DecisionState ==
  [outcome : {"READY", "SAVING", "APPROVED", "DENIED", "ERROR", "UNAVAILABLE",
              "ALREADY_DECIDED", "UNCERTAIN"},
   approve : BOOLEAN, requested : BOOLEAN, finished : BOOLEAN]
Task ==
  [stage : {"idle", "queued", "approving", "posted"}, approve : BOOLEAN,
   result : {"none", "saved", "unavailable", "missing", "failed"}, observed : BOOLEAN]

(* The dialog's state has its type, and the service's one connection is    *)
(* taken exactly while the executor approves: no failure and no death of   *)
(* the process leaves a transaction that would block every other call.     *)
FlowTypeOK ==
  /\ TypeOK
  /\ launching \subseteq [id : Ids, nr : Ids]
  /\ shown \in [id : Ids, nr : Ids] \cup {Nothing}
  /\ view \in {"none", "resumed", "paused", "stopped", "destroyed", "closed"}
  /\ decision \in DecisionState /\ bundle \in DecisionState
  /\ task \in Task
  /\ available \in BOOLEAN /\ prompt \in BOOLEAN
  /\ saved \in [status : {"denied", "approved"}, nr : Ids] \cup {NotSaved}
  /\ prompts \in Nat
  /\ ~Idle("service") <=> task.stage = "approving"

(* "Access approved and saved", "Request denied": what the dialog claims   *)
(* is what it did to a pending request, through every failure, recreation  *)
(* and concurrent decision ("decisionMissing ... must not look             *)
(* successful").                                                           *)
ClaimIsTrue ==
  /\ decision.outcome = "APPROVED" => saved.status = "approved"
  /\ decision.outcome = "DENIED" => saved.status = "denied"

(* "A process death during saving has an unknown result, so never replay   *)
(* that decision": where the dialog offers the choice, nothing was saved   *)
(* and no task may still save.                                             *)
NeverReplays ==
  view \in {"resumed", "paused", "stopped"} /\ CanBegin =>
    saved = NotSaved /\ task.stage = "idle"

(* The platform's permissions are asked for after a saved approval only    *)
(* and at most once, however often the activity is resumed or recreated.   *)
AskedOnce == prompts <= 1 /\ (prompts = 1 => saved.status = "approved")

(* The dialog leaves "Saving access" unless it is closed or destroyed.     *)
SavingEnds ==
  decision.outcome = "SAVING" ~>
    decision.outcome # "SAVING" \/ view \in {"closed", "destroyed"}

(* "the device owner approves which services each client can use through   *)
(* an on-screen dialog" (README.md): what the dialog approves is the       *)
(* request it shows.                                                       *)
ApprovalIsShown == saved.status = "approved" => saved.nr = shown.nr
=============================================================================
