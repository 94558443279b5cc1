---------------------------- MODULE FanoutAbstract ----------------------------
(***************************************************************************)
(* What a two-leg fan-out request handler of the NTN-QoF promises (spec   *)
(* 4.3 and 4.4): a request is either refused with an error status before  *)
(* anything is sent, or dispatched to both legs at once; each leg settles *)
(* exactly once, confirmed or not; the caller gets 200 only once every leg *)
(* has confirmed, and then does get it.  A leg need never settle (it is   *)
(* an HTTP exchange without a timeout), and one that settles unconfirmed  *)
(* may leave the request unanswered: that is the behaviour the code has,  *)
(* and the spec's "never hangs" is checked separately.                    *)
(*                                                                         *)
(* HandleSessionCreateQof/Pipe (NtnSession) and HandleAdmissionControl/   *)
(* AdmissionControl (NtnAdmission) are both shown to implement it.         *)
(***************************************************************************)
CONSTANTS
  Requests,    \* the requests handled concurrently
  Legs,        \* the legs of one request (the two classifier sides)
  Refusals     \* the error statuses a refused request may get

VARIABLES
  req,      \* request -> "idle", "pending" or "answered"
  answer,   \* request -> the status the caller got, 0 while none
  legs      \* request -> leg -> "open", "confirmed" or "unconfirmed"

avars == <<req, answer, legs>>

Init ==
  /\ req = [r \in Requests |-> "idle"]
  /\ answer = [r \in Requests |-> 0]
  /\ legs = [r \in Requests |-> [l \in Legs |-> "open"]]

Refuse(r) ==
  /\ req[r] = "idle"
  /\ req' = [req EXCEPT ![r] = "answered"]
  /\ \E code \in Refusals : answer' = [answer EXCEPT ![r] = code]
  /\ UNCHANGED legs

Dispatch(r) ==
  /\ req[r] = "idle"
  /\ req' = [req EXCEPT ![r] = "pending"]
  /\ UNCHANGED <<answer, legs>>

Settle(r, l) ==
  /\ req[r] = "pending"
  /\ legs[r][l] = "open"
  /\ \E s \in {"confirmed", "unconfirmed"} : legs' = [legs EXCEPT ![r][l] = s]
  /\ UNCHANGED <<req, answer>>

Answer(r) ==
  /\ req[r] = "pending"
  /\ \A l \in Legs : legs[r][l] = "confirmed"
  /\ req' = [req EXCEPT ![r] = "answered"]
  /\ answer' = [answer EXCEPT ![r] = 200]
  /\ UNCHANGED legs

Next ==
  \/ \E r \in Requests : Refuse(r) \/ Dispatch(r) \/ Answer(r)
  \/ \E r \in Requests, l \in Legs : Settle(r, l)

\* Only the answer is promised to come: a leg is an HTTP exchange with a
\* classifier over a client without a timeout, which may never end.
Spec ==
  /\ Init /\ [][Next]_avars
  /\ \A r \in Requests : WF_avars(Answer(r))
=============================================================================
