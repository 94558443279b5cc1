------------------------------ MODULE NtnSession ------------------------------
(***************************************************************************)
(* PDU session provisioning of the NTN-QoF                                  *)
(* (src/NFs/ntnqof/producer/handler.go, HandleSessionCreateQof and Pipe).  *)
(*                                                                         *)
(* Each request to /ntn-session/new-session is handled by its own handler  *)
(* goroutine.  The handler decodes the MobileSession, translates the DSCP, *)
(* maps the slice, resolves the ingress interface of both classifiers,     *)
(* does wg.Add(2) and starts one Pipe goroutine per classifier (forward    *)
(* link to the CN classifier, return link to the RAN classifier), then     *)
(* blocks in wg.Wait() and answers 200.  Pipe POSTs the PDU rule to its    *)
(* classifier and calls wg.Done() only on its success path: every error    *)
(* path returns before it.                                                  *)
(*                                                                         *)
(* The handler's computation up to the spawn reads only the configuration, *)
(* which is immutable after InitQofContext, so it is one atomic step.      *)
(* A classifier agent is abstracted to the set of requests whose rule it  *)
(* has accepted; the rule itself is the function PipeArgs of the request. *)
(***************************************************************************)
EXTENDS Naturals, Sequences, FiniteSets, SubnetResolve
LOCAL INSTANCE SequencesExt

CONSTANTS
  Requests,     \* concurrent requests to /ntn-session/new-session
  Sessions,     \* MobileSession bodies that decode
  Malformed,    \* a body c.BindJSON rejects
  NoMatch,      \* a nil *QosMatch or *SliceMatch in a decoded body
  NonNumeric,   \* a slice "id" that strconv.ParseUint rejects
  QoS,          \* NTN_Self().QoS : map[uint8]uint8
  Slice,        \* NTN_Self().Slice : []*factory.Slice, in config order
  Classifiers,  \* NTN_Self().Classifiers : [RAN |-> .., CN |-> ..]
  Outcomes      \* what one POST to a classifier may end in

Sides == {"RAN", "CN"}

NoSlice == [none |-> TRUE]   \* MapSlice's nil

\* The HTTP exchange of Pipe with its classifier, lines 194-209:
\*   "accepted"      2xx, body read: rule installed, wg.Done()
\*   "rejected"      non-2xx status, body read: not installed, yet wg.Done()
\*                   (resp.StatusCode is never looked at)
\*   "unreachable"   client.Post error: not installed, return before Done
\*   "lost_response" the classifier applied the rule but the response or
\*                   its body was lost: installed, return before Done
\*   "stalled"       the classifier takes the connection and never answers:
\*                   http.Client{} has no timeout, so client.Post blocks
\*                   the goroutine for good (line 174)
AllOutcomes == {"accepted", "rejected", "unreachable", "lost_response", "stalled"}
CallsDone(o) == o \in {"accepted", "rejected"}
Installs(o)  == o \in {"accepted", "lost_response"}

\* Where the goroutine is after the exchange.
LegAfter(o) ==
  CASE CallsDone(o)   -> "done"
    [] o = "stalled"  -> "stalled"
    [] OTHER          -> "failed"

ASSUME Outcomes \subseteq AllOutcomes /\ Outcomes # {}
ASSUME Malformed \notin Sessions

VARIABLES
  session,    \* the body each request carries (fixed per behaviour)
  hpc,        \* handler goroutine: "idle", "waiting" (in wg.Wait), "answered"
  status,     \* HTTP status written to the caller, 0 while none
  wg,         \* the request's sync.WaitGroup counter
  leg,        \* Pipe goroutines: "idle", "running", "done" (called Done),
              \* "failed" (returned early), "stalled" (blocked in client.Post)
  installed   \* classifier agent -> requests whose PDU rule it accepted

vars == <<session, hpc, status, wg, leg, installed>>

-----------------------------------------------------------------------------
(* Translation and lookup, lines 74-87 and 335-338.                         *)

\* context.NTN_Self().QoS[dscp]: a Go map read yields 0 for a missing key.
TranslateQoS(dscp) == IF dscp \in DOMAIN QoS THEN QoS[dscp] ELSE 0

\* u64, _ := strconv.ParseUint(id, 10, 64); uint8(u64): the error is
\* dropped, and the conversion keeps the low 8 bits.  A syntax error
\* leaves u64 = 0.  A number of 2^64 or more is a range error with u64 the
\* largest uint64, i.e. slice 255; such ids lie beyond TLC's integers and
\* no body of the models has one, so that case is not represented.
ParseSliceID(id) == IF id \in Nat THEN id % 256 ELSE 0

\* The first configured slice with that id, or nil.
MapSlice(sliceID) ==
  LET i == SelectInSeq(Slice, LAMBDA s : s.SliceID = sliceID)
  IN  IF i = 0 THEN NoSlice ELSE Slice[i]

SliceOf(s) == MapSlice(ParseSliceID(s.id))

\* The arguments of the two `go Pipe(...)` calls, lines 362 and 366; both
\* pass mobileSession.UPF as the ipv4 argument.
PipeArgs(r, side) ==
  LET s  == session[r]
      sl == SliceOf(s)
  IN  [TEID     |-> IF side = "CN" THEN s.sm.DTEID ELSE s.sm.UTEID,
       DSCP5    |-> s.qos,
       DSCPS    |-> TranslateQoS(s.qos),
       SliceID  |-> sl.SliceID,
       IPv4     |-> s.upf,
       Endpoint |-> IF side = "CN" THEN sl.ClassifierCNEndpoint
                                   ELSE sl.ClassifierRANEndpoint,
       Ingress  |-> IF side = "CN" THEN GetIngressInterface(Classifiers.CN, s.upf)
                                   ELSE GetIngressInterface(Classifiers.RAN, s.ran),
       IsRAN    |-> side = "RAN"]

\* Dereferences that panic before any goroutine starts: QosMatch at line
\* 330, and SliceMatch or a nil slice when the go statement of line 362
\* evaluates its arguments.  gin's recovery middleware answers 500.
Panics(s) == s.qos = NoMatch \/ s.sm = NoMatch \/ SliceOf(s) = NoSlice

-----------------------------------------------------------------------------
Init ==
  /\ session \in [Requests -> Sessions \cup {Malformed}]
  /\ hpc = [r \in Requests |-> "idle"]
  /\ status = [r \in Requests |-> 0]
  /\ wg = [r \in Requests |-> 0]
  /\ leg = [r \in Requests |-> [side \in Sides |-> "idle"]]
  /\ installed = [side \in Sides |-> {}]

\* c.BindJSON fails: it aborts with 400, and the c.JSON(500) after it only
\* appends a body (gin keeps the first status line); then return, lines 319-325.
SessionRejected(r) ==
  /\ hpc[r] = "idle"
  /\ session[r] = Malformed
  /\ hpc' = [hpc EXCEPT ![r] = "answered"]
  /\ status' = [status EXCEPT ![r] = 400]
  /\ UNCHANGED <<session, wg, leg, installed>>

\* A nil dereference on the way to the spawn, lines 330-362.
SessionPanics(r) ==
  /\ hpc[r] = "idle"
  /\ session[r] # Malformed
  /\ Panics(session[r])
  /\ hpc' = [hpc EXCEPT ![r] = "answered"]
  /\ status' = [status EXCEPT ![r] = 500]
  /\ UNCHANGED <<session, wg, leg, installed>>

\* Mutant: wg.Add(1) for two goroutines.
SessionDispatchAddOne(r) ==
  /\ hpc[r] = "idle"
  /\ session[r] # Malformed
  /\ ~Panics(session[r])
  /\ wg' = [wg EXCEPT ![r] = 1]
  /\ leg' = [leg EXCEPT ![r] = [side \in Sides |-> "running"]]
  /\ hpc' = [hpc EXCEPT ![r] = "waiting"]
  /\ UNCHANGED <<session, status, installed>>

\* wg.Add(2), both `go Pipe(...)`, then wg.Wait(), lines 358-369.
SessionDispatch(r) ==
  /\ hpc[r] = "idle"
  /\ session[r] # Malformed
  /\ ~Panics(session[r])
  /\ wg' = [wg EXCEPT ![r] = 2]
  /\ leg' = [leg EXCEPT ![r] = [side \in Sides |-> "running"]]
  /\ hpc' = [hpc EXCEPT ![r] = "waiting"]
  /\ UNCHANGED <<session, status, installed>>

HandleSessionCreateQof(r) ==
  \/ SessionRejected(r)
  \/ SessionPanics(r)
  \/ SessionDispatch(r)

\* Mutant: `defer wg.Done()` at the top of Pipe, so every exit path signals.
PipeDeferDone(r, side) ==
  /\ leg[r][side] = "running"
  /\ \E o \in Outcomes :
       /\ installed' = IF Installs(o)
                         THEN [installed EXCEPT ![side] = @ \cup {r}]
                         ELSE installed
       /\ wg' = [wg EXCEPT ![r] = @ - 1]
       /\ leg' = [leg EXCEPT ![r][side] = "done"]
  /\ UNCHANGED <<session, hpc, status>>

\* One Pipe goroutine: POST the PDU, read the body, wg.Done() on success.
Pipe(r, side) ==
  /\ leg[r][side] = "running"
  /\ \E o \in Outcomes :
       /\ installed' = IF Installs(o)
                         THEN [installed EXCEPT ![side] = @ \cup {r}]
                         ELSE installed
       /\ wg' = IF CallsDone(o) THEN [wg EXCEPT ![r] = @ - 1] ELSE wg
       /\ leg' = [leg EXCEPT ![r][side] = LegAfter(o)]
  /\ UNCHANGED <<session, hpc, status>>

\* Mutant: the handler answers without wg.Wait().
RespondNoWait(r) ==
  /\ hpc[r] = "waiting"
  /\ hpc' = [hpc EXCEPT ![r] = "answered"]
  /\ status' = [status EXCEPT ![r] = 200]
  /\ UNCHANGED <<session, wg, leg, installed>>

\* wg.Wait() returns and the handler answers 200, lines 369-373.
Respond(r) ==
  /\ hpc[r] = "waiting"
  /\ wg[r] = 0
  /\ hpc' = [hpc EXCEPT ![r] = "answered"]
  /\ status' = [status EXCEPT ![r] = 200]
  /\ UNCHANGED <<session, wg, leg, installed>>

Next ==
  \/ \E r \in Requests : HandleSessionCreateQof(r)
  \/ \E r \in Requests, side \in Sides : Pipe(r, side)
  \/ \E r \in Requests : Respond(r)

\* Started goroutines are scheduled and the classifier's HTTP exchange ends
\* (in a reply or a transport error); arrivals of requests are not forced.
Fairness ==
  /\ \A r \in Requests, side \in Sides : WF_vars(Pipe(r, side))
  /\ \A r \in Requests : WF_vars(Respond(r))

Spec == Init /\ [][Next]_vars /\ Fairness

-----------------------------------------------------------------------------
(* Properties.                                                             *)

TypeOK ==
  /\ session \in [Requests -> Sessions \cup {Malformed}]
  /\ hpc \in [Requests -> {"idle", "waiting", "answered"}]
  /\ status \in [Requests -> {0, 200, 400, 500}]
  /\ wg \in [Requests -> 0..2]
  /\ leg \in [Requests -> [Sides -> {"idle", "running", "done", "failed", "stalled"}]]
  /\ installed \in [Sides -> SUBSET Requests]

\* A 200 from HandleSessionCreateQof means that both classifier agents
\* hold the request's rule: the forward link on the CN classifier and the
\* return link on the RAN classifier (wg.Done is reached only after a
\* successful exchange).
SuccessImpliesInstalled ==
  \A r \in Requests : status[r] = 200 => \A side \in Sides : r \in installed[side]

\* Spec 4.3 step 5 / section 7: every dispatched request is answered, a
\* failing or unanswered classifier call included (the hang of a Pipe that
\* returns before wg.Done(), and of one blocked in a client.Post without
\* timeout).
EveryRequestAnswered ==
  \A r \in Requests : hpc[r] = "waiting" ~> hpc[r] = "answered"

\* Spec 3: the rule a classifier is given for a session carries the
\* session's UE IPv4 address, the address its packets are matched on
\* (the handler passes mobileSession.UPF in its place, lines 362 and 366).
PipeCarriesUeAddress ==
  \A side \in Sides : \A r \in installed[side] :
    PipeArgs(r, side).IPv4 = session[r].ipv4

\* Spec 4.3 step 4 / 7: a rule is provisioned only on the slice record of
\* exactly the session's slice id (or the request fails), with a
\* classifier ingress address in the session's /24 (or the direction fails
\* with an AddressResolutionError), and with the satellite DSCP the QoS
\* table configures for the session's DSCP (or the direction fails with a
\* TranslationNotFound).  Each is a different silent fallback of the code:
\* the uint8 truncation of the id, the "" with a nil error of the
\* resolver, and the zero value of a missing map key.
PipeTargetAsRequested ==
  \A side \in Sides : \A r \in installed[side] :
    /\ session[r].id \in Nat
    /\ PipeArgs(r, side).SliceID = session[r].id
    /\ PipeArgs(r, side).Ingress # NoAddr
    /\ session[r].qos \in DOMAIN QoS

\* The refinement mapping: a handler that is idle, blocked in wg.Wait() or
\* done is an idle, pending or answered request; a goroutine that called
\* wg.Done() confirmed its leg, one that returned early did not.
LegView(l) ==
  CASE l \in {"idle", "running"} -> "open"
    [] l = "done"               -> "confirmed"
    [] l = "failed"             -> "unconfirmed"
    [] l = "stalled"            -> "open"

Fanout == INSTANCE FanoutAbstract
            WITH Legs <- Sides, Refusals <- {400, 500},
                 req <- [r \in Requests |-> IF hpc[r] = "waiting" THEN "pending" ELSE hpc[r]],
                 answer <- status,
                 legs <- [r \in Requests |-> [side \in Sides |-> LegView(leg[r][side])]]

\* HandleSessionCreateQof and its Pipe goroutines implement the two-leg fan-out: a
\* request is refused only before dispatch, each goroutine settles once,
\* 200 comes only after both called wg.Done() and, under the scheduling
\* fairness, does come then.
FanoutRefinement == Fanout!Spec
=============================================================================
