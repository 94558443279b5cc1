------------------------------ MODULE QofAdmission ------------------------------
(***************************************************************************)
(* The QoF's default-slice admission trigger and the NTN-QoF's admission  *)
(* endpoint together.                                                      *)
(*                                                                         *)
(* The QoF fills its context from its configuration (InitQofContext,       *)
(* free5gc/NFs/qof/context/context.go lines 56-120).  InitDefaultSlice    *)
(* (lines 126-170) then builds a ControlPlane from the last slice marked   *)
(* default, POSTs it to <NtnUri>/ntn-session/admission-control with an     *)
(* http.Client{} and returns nil once it has read the answer, whatever     *)
(* its status.  On the NTN-QoF, the POST is request Trigger of             *)
(* HandleAdmissionControl (NtnAdmission), which decodes the body, ignores  *)
(* it, and pushes the whole slice table to both classifiers.  Other       *)
(* callers of the endpoint (the requests other than Trigger) send any     *)
(* body, including one that does not decode.                               *)
(*                                                                         *)
(* The caller of InitQofContext and InitDefaultSlice (the QoF service     *)
(* package) is not in the repository; like the NTN-QoF's Start, it is     *)
(* taken to fill the context before it triggers the admission.            *)
(***************************************************************************)
EXTENDS Naturals, Sequences
LOCAL INSTANCE SequencesExt

CONSTANTS
  QofConfigs,       \* the QoF configurations the process may be given
  NoInfo,           \* a nil *Info
  NilConfig,        \* a nil *factory.Config
  NoConfiguration,  \* a nil *Configuration
  NonNumeric,       \* a slice "id" strconv.ParseUint rejects
  Null,             \* the JSON literal null (json.Marshal of a nil pointer)
  Trigger,          \* the NTN-QoF request that InitDefaultSlice sends
  ExternalBodies,   \* ControlPlane bodies other callers send
  Requests, Malformed, Slice, SliceAware, Outcomes      \* NtnAdmission

ASSUME Trigger \in Requests

VARIABLES
  qconf,    \* the QoF's configuration (fixed per behaviour)
  qof,      \* the QoF process: "down", "up" (context filled), "crashed",
            \* "exited" (Initialize failed)
  qctx,     \* QOF_Self(): the fields InitDefaultSlice reads
  dpc,      \* InitDefaultSlice: "idle", "posting" (in client.Post), "returned"
  dret,     \* its result: "none", "nil", "err"
  body, hpc, status, wg, leg, adm                       \* NtnAdmission

qvars == <<qconf, qof, qctx, dpc, dret>>
nvars == <<body, hpc, status, wg, leg, adm>>
vars  == <<qvars, nvars>>

-----------------------------------------------------------------------------
(* The QoF side.                                                           *)

\* The zero QOFContext, restricted to Slice and NtnUri.
ZeroQofContext == [slice |-> << >>, ntnUri |-> ""]

\* InitQofContext, lines 56-120: a nil config is logged and the context
\* left as it is (lines 57-60); config.Info.Version is read for the log
\* line (line 62) and config.Configuration.QofName at line 64, so a nil Info
\* or Configuration panics; otherwise QoS, Slice and NtnUri are copied
\* before the sbi check.  The SBI, NRF and client fields are not read by
\* any code of the repository and are left out.
InitQofContextPanics(c) ==
  c # NilConfig /\ (c.info = NoInfo \/ c.configuration = NoConfiguration)

InitQofContext(c, cx) ==
  IF c = NilConfig THEN cx
  ELSE [slice |-> c.configuration.slice, ntnUri |-> c.configuration.ntnUri]

\* u64, _ := strconv.ParseUint(sl.ID, 10, 8); uint8(u64): an out-of-range
\* value is returned as 255 with an error, a non-numeric one as 0; the
\* error is dropped.
ParseUint8(id) ==
  CASE id = NonNumeric -> 0
    [] id > 255        -> 255
    [] OTHER           -> id

\* The loop of lines 134-144: the last slice with Default set wins; with
\* none, controlPlaneInfo stays nil and json.Marshal gives null.
DefaultControlPlane(slices) ==
  FoldLeft(LAMBDA cp, sl :
             IF sl.Default THEN [ran |-> sl.RAN, cn |-> sl.AMF, id |-> ParseUint8(sl.ID)]
             ELSE cp,
           Null, slices)

\* Mutant: the QoF's ControlPlane carries the slice id as the configured
\* string, which the NTN-QoF's uint8 id field does not decode.
NtnBodyOfStringId(cp) ==
  IF cp = Null THEN [ran |-> "", cn |-> "", id |-> 0] ELSE Malformed

\* The body as the NTN-QoF's c.BindJSON decodes it into its ControlPlane
\* (free5gc/NFs/ntnqof/factory/config.go lines 44-48): the JSON names ran,
\* cn and id agree and both ids are uint8, so every body decodes; null
\* leaves the zero ControlPlane.
NtnBodyOf(cp) ==
  IF cp = Null THEN [ran |-> "", cn |-> "", id |-> 0] ELSE cp

TriggerBodies ==
  { NtnBodyOf(DefaultControlPlane(c.configuration.slice)) :
      c \in {c2 \in QofConfigs : c2 # NilConfig /\ ~InitQofContextPanics(c2)} }

N == INSTANCE NtnAdmission WITH Bodies <- ExternalBodies \cup TriggerBodies

-----------------------------------------------------------------------------
\* The NTN-QoF reads Trigger's body only once the QoF has sent it (its
\* steps are guarded by dpc = "posting"); Malformed stands in before.
Init ==
  /\ qconf \in QofConfigs
  /\ qof = "down"
  /\ qctx = ZeroQofContext
  /\ dpc = "idle"
  /\ dret = "none"
  /\ body \in [Requests -> ExternalBodies \cup {Malformed}]
  /\ body[Trigger] = Malformed
  /\ hpc = [r \in Requests |-> "idle"]
  /\ status = [r \in Requests |-> 0]
  /\ wg = [r \in Requests |-> 0]
  /\ leg = [r \in Requests |-> [side \in N!Sides |-> "idle"]]
  /\ adm = [side \in N!Sides |-> N!NoADM]

\* main runs the cli action, qof.go lines 23-45: QOF.Initialize (of the
\* service package, not in the repository) returns an error; action logs it
\* and returns one, main logs the Run error and returns, and the process
\* exits without calling QOF.Start.
QofInitializeFails ==
  /\ qof = "down"
  /\ qof' = "exited"
  /\ UNCHANGED <<qconf, qctx, dpc, dret, nvars>>

\* QOF.Initialize succeeded and QOF.Start fills the context.
QofInitContext ==
  /\ qof = "down"
  /\ IF InitQofContextPanics(qconf)
       THEN qof' = "crashed" /\ UNCHANGED qctx
       ELSE qof' = "up" /\ qctx' = InitQofContext(qconf, qctx)
  /\ UNCHANGED <<qconf, dpc, dret, nvars>>

\* InitDefaultSlice up to client.Post, lines 128-161.  With an empty NtnUri
\* the URL has no scheme and client.Post fails at once; an unreachable
\* NTN-QoF fails it too.  Both errors are returned.  Otherwise the
\* request reaches the NTN-QoF.
InitDefaultSlice ==
  /\ qof = "up"
  /\ dpc = "idle"
  /\ \/ /\ qctx.ntnUri = ""
        /\ dpc' = "returned" /\ dret' = "err"
        /\ UNCHANGED body
     \/ /\ qctx.ntnUri # ""
        /\ dpc' = "returned" /\ dret' = "err"
        /\ UNCHANGED body
     \/ /\ qctx.ntnUri # ""
        /\ body' = [body EXCEPT ![Trigger] = NtnBodyOf(DefaultControlPlane(qctx.slice))]
        /\ dpc' = "posting" /\ UNCHANGED dret
  /\ UNCHANGED <<qconf, qof, qctx, hpc, status, wg, leg, adm>>

\* client.Post fails after the request was sent (the connection drops
\* before an answer arrives), whatever the NTN-QoF has done with it; the
\* error is returned, lines 155-160.
DefaultSlicePostFails ==
  /\ dpc = "posting"
  /\ dpc' = "returned" /\ dret' = "err"
  /\ UNCHANGED <<qconf, qof, qctx, nvars>>

\* client.Post returns with the NTN-QoF's answer; ioutil.ReadAll reads the
\* body (nil) or fails on a dropped connection (err), lines 162-169.  The
\* status code is never looked at.
DefaultSliceAnswered ==
  /\ dpc = "posting"
  /\ hpc[Trigger] = "answered"
  /\ dpc' = "returned"
  /\ dret' \in {"nil", "err"}
  /\ UNCHANGED <<qconf, qof, qctx, nvars>>

\* The NTN-QoF's steps.  Trigger's handler runs once the QoF has posted;
\* other callers' requests arrive at any time.
NtnReceive(r) ==
  /\ r = Trigger => dpc = "posting"
  /\ N!HandleAdmissionControl(r)
  /\ UNCHANGED qvars

NtnPush(r, side) == N!AdmissionControl(r, side) /\ UNCHANGED qvars

NtnRespond(r) == N!Respond(r) /\ UNCHANGED qvars

Next ==
  \/ QofInitializeFails \/ QofInitContext \/ InitDefaultSlice
  \/ DefaultSlicePostFails \/ DefaultSliceAnswered
  \/ \E r \in Requests : NtnReceive(r) \/ NtnRespond(r)
  \/ \E r \in Requests, side \in N!Sides : NtnPush(r, side)

\* The QoF service runs its start-up to the end, the NTN-QoF's gin server
\* takes Trigger's connection, and a handler whose WaitGroup has reached
\* zero returns.  An exchange with a classifier, and the QoF's own POST,
\* use an http.Client without a timeout and are not forced to end; other
\* callers are not forced to call.
Fairness ==
  /\ WF_vars(QofInitContext) /\ WF_vars(InitDefaultSlice)
  /\ WF_vars(NtnReceive(Trigger))
  /\ \A r \in Requests : WF_vars(NtnRespond(r))

Spec == Init /\ [][Next]_vars /\ Fairness

-----------------------------------------------------------------------------
(* Properties.                                                             *)

QofAdmissionTypeOK ==
  /\ qof \in {"down", "up", "crashed", "exited"}
  /\ dpc \in {"idle", "posting", "returned"}
  /\ dret \in {"none", "nil", "err"}
  /\ N!TypeOK

\* A 200 from HandleAdmissionControl means both classifiers hold the
\* budgets of every configured slice.
SuccessImpliesPushed == N!SuccessImpliesPushed

\* HandleAdmissionControl and its AdmissionControl goroutines implement the
\* two-leg fan-out (FanoutAbstract), with the QoF as one of the callers.
AdmissionFanoutRefinement == N!AdmissionFanoutRefinement

\* When InitDefaultSlice returns nil, the admission it triggered took
\* effect: both classifiers hold the budget table.  The QoF never looks at
\* the status, so this rests on the NTN-QoF answering only after both
\* pushes and on the QoF's body always decoding on the NTN-QoF side.
DefaultSliceNilOnlyIfPushed ==
  dret = "nil" => \A side \in N!Sides : adm[side] # N!NoADM
=============================================================================
