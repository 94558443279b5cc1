----------------------------- MODULE NtnAdmission -----------------------------
(***************************************************************************)
(* Admission control of the NTN-QoF                                         *)
(* (src/NFs/ntnqof/producer/handler.go, HandleAdmissionControl and         *)
(* AdmissionControl).                                                       *)
(*                                                                         *)
(* Each request to the admission-control endpoint builds, from the whole   *)
(* configured slice table, one ADM for the CN classifier (forward budgets) *)
(* and one for the RAN classifier (return budgets), does wg.Add(2), starts *)
(* one AdmissionControl goroutine per classifier and answers 200 after     *)
(* wg.Wait().  AdmissionControl calls wg.Done() only on its success path.  *)
(* A classifier agent is abstracted to the last ADM it accepted.           *)
(***************************************************************************)
EXTENDS Naturals, Sequences

CONSTANTS
  Requests,    \* concurrent admission-control requests
  Malformed,   \* a ControlPlane body c.BindJSON rejects
  Bodies,      \* ControlPlane bodies that decode (their content is unused)
  Slice,       \* NTN_Self().Slice, in config order
  SliceAware,  \* NTN_Self().SliceAware
  Outcomes     \* what one POST to a classifier may end in

Sides == {"RAN", "CN"}

NoADM == << >>   \* a classifier that has accepted no ADM yet

\* The exchange of AdmissionControl with its classifier, lines 143-158,
\* with the same outcomes as Pipe's: the status code is never looked at.
AllOutcomes == {"accepted", "rejected", "unreachable", "lost_response"}
CallsDone(o) == o \in {"accepted", "rejected"}
Installs(o)  == o \in {"accepted", "lost_response"}

ASSUME Outcomes \subseteq AllOutcomes /\ Outcomes # {}

VARIABLES
  body,      \* the body each request carries (fixed per behaviour)
  hpc,       \* handler goroutine: "idle", "waiting", "answered"
  status,    \* HTTP status written to the caller, 0 while none
  wg,        \* the request's sync.WaitGroup counter
  leg,       \* AdmissionControl goroutines: "idle", "running", "done", "failed"
  adm        \* classifier agent -> the ADM it last accepted

vars == <<body, hpc, status, wg, leg, adm>>

-----------------------------------------------------------------------------
(* The ADM of one side, lines 270-293: Controls[k] is built from the k-th  *)
(* configured slice, Forward for the CN side and Return for the RAN side.  *)

BuildADM(side) ==
  [Controls |-> [k \in 1..Len(Slice) |->
                   [SliceID    |-> Slice[k].SliceID,
                    Throughput |-> IF side = "CN" THEN Slice[k].Forward
                                                  ELSE Slice[k].Return,
                    Endpoint   |-> IF side = "CN" THEN Slice[k].ClassifierCNEndpoint
                                                  ELSE Slice[k].ClassifierRANEndpoint]],
   Aware    |-> SliceAware]

-----------------------------------------------------------------------------
Init ==
  /\ body \in [Requests -> Bodies \cup {Malformed}]
  /\ hpc = [r \in Requests |-> "idle"]
  /\ status = [r \in Requests |-> 0]
  /\ wg = [r \in Requests |-> 0]
  /\ leg = [r \in Requests |-> [side \in Sides |-> "idle"]]
  /\ adm = [side \in Sides |-> NoADM]

\* c.BindJSON fails: it aborts with 400, and the c.JSON(500) after it only
\* appends a body (gin keeps the first status line); then return, lines 260-266.
AdmissionRejected(r) ==
  /\ hpc[r] = "idle"
  /\ body[r] = Malformed
  /\ hpc' = [hpc EXCEPT ![r] = "answered"]
  /\ status' = [status EXCEPT ![r] = 400]
  /\ UNCHANGED <<body, wg, leg, adm>>

\* Mutant: wg.Add(1) for two goroutines.
AdmissionDispatchAddOne(r) ==
  /\ hpc[r] = "idle"
  /\ body[r] # Malformed
  /\ wg' = [wg EXCEPT ![r] = 1]
  /\ leg' = [leg EXCEPT ![r] = [side \in Sides |-> "running"]]
  /\ hpc' = [hpc EXCEPT ![r] = "waiting"]
  /\ UNCHANGED <<body, status, adm>>

\* Build both ADMs, wg.Add(2), both `go AdmissionControl(...)`, wg.Wait(),
\* lines 268-304.  The ADMs are passed by value.
AdmissionDispatch(r) ==
  /\ hpc[r] = "idle"
  /\ body[r] # Malformed
  /\ wg' = [wg EXCEPT ![r] = 2]
  /\ leg' = [leg EXCEPT ![r] = [side \in Sides |-> "running"]]
  /\ hpc' = [hpc EXCEPT ![r] = "waiting"]
  /\ UNCHANGED <<body, status, adm>>

HandleAdmissionControl(r) ==
  \/ AdmissionRejected(r)
  \/ AdmissionDispatch(r)

\* Mutant: the success path returns before reaching wg.Done().
AdmissionControlNoDone(r, side) ==
  /\ leg[r][side] = "running"
  /\ \E o \in Outcomes :
       /\ adm' = IF Installs(o) THEN [adm EXCEPT ![side] = BuildADM(side)] ELSE adm
       /\ leg' = [leg EXCEPT ![r][side] = IF CallsDone(o) THEN "done" ELSE "failed"]
  /\ UNCHANGED <<body, hpc, status, wg>>

\* Mutant: `defer wg.Done()` at the top of AdmissionControl.
AdmissionControlDeferDone(r, side) ==
  /\ leg[r][side] = "running"
  /\ \E o \in Outcomes :
       /\ adm' = IF Installs(o) THEN [adm EXCEPT ![side] = BuildADM(side)] ELSE adm
       /\ wg' = [wg EXCEPT ![r] = @ - 1]
       /\ leg' = [leg EXCEPT ![r][side] = "done"]
  /\ UNCHANGED <<body, hpc, status>>

\* One AdmissionControl goroutine: POST the ADM, read the body, wg.Done()
\* on success, lines 131-160.
AdmissionControl(r, side) ==
  /\ leg[r][side] = "running"
  /\ \E o \in Outcomes :
       /\ adm' = IF Installs(o) THEN [adm EXCEPT ![side] = BuildADM(side)] ELSE adm
       /\ wg' = IF CallsDone(o) THEN [wg EXCEPT ![r] = @ - 1] ELSE wg
       /\ leg' = [leg EXCEPT ![r][side] = IF CallsDone(o) THEN "done" ELSE "failed"]
  /\ UNCHANGED <<body, hpc, status>>

\* wg.Wait() returns and the handler answers 200, lines 304-308.
Respond(r) ==
  /\ hpc[r] = "waiting"
  /\ wg[r] = 0
  /\ hpc' = [hpc EXCEPT ![r] = "answered"]
  /\ status' = [status EXCEPT ![r] = 200]
  /\ UNCHANGED <<body, wg, leg, adm>>

Next ==
  \/ \E r \in Requests : HandleAdmissionControl(r)
  \/ \E r \in Requests, side \in Sides : AdmissionControl(r, side)
  \/ \E r \in Requests : Respond(r)

Fairness ==
  /\ \A r \in Requests, side \in Sides : WF_vars(AdmissionControl(r, side))
  /\ \A r \in Requests : WF_vars(Respond(r))

Spec == Init /\ [][Next]_vars /\ Fairness

-----------------------------------------------------------------------------
(* Properties.                                                             *)

TypeOK ==
  /\ body \in [Requests -> Bodies \cup {Malformed}]
  /\ hpc \in [Requests -> {"idle", "waiting", "answered"}]
  /\ status \in [Requests -> {0, 200, 400, 500}]
  /\ wg \in [Requests -> 0..2]
  /\ leg \in [Requests -> [Sides -> {"idle", "running", "done", "failed"}]]
  /\ adm \in [Sides -> {NoADM} \cup {BuildADM(side) : side \in Sides}]

\* A 200 from HandleAdmissionControl means both classifiers hold the
\* budgets of every configured slice.
SuccessImpliesPushed ==
  \A r \in Requests : status[r] = 200 => \A side \in Sides : adm[side] # NoADM

\* The refinement mapping: a handler that is idle, blocked in wg.Wait() or
\* done is an idle, pending or answered request; a goroutine that called
\* wg.Done() confirmed its leg, one that returned early did not.
LegView(l) ==
  CASE l \in {"idle", "running"} -> "open"
    [] l = "done"               -> "confirmed"
    [] l = "failed"             -> "unconfirmed"

Fanout == INSTANCE FanoutAbstract
            WITH Legs <- Sides, Refusals <- {400, 500},
                 req <- [r \in Requests |-> IF hpc[r] = "waiting" THEN "pending" ELSE hpc[r]],
                 answer <- status,
                 legs <- [r \in Requests |-> [side \in Sides |-> LegView(leg[r][side])]]

\* HandleAdmissionControl and its AdmissionControl goroutines implement the two-leg fan-out: a
\* request is refused only before dispatch, each goroutine settles once,
\* 200 comes only after both called wg.Done() and, under the scheduling
\* fairness, does come then.
AdmissionFanoutRefinement == Fanout!Spec
=============================================================================
