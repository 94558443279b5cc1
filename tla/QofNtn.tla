-------------------------------- MODULE QofNtn --------------------------------
(***************************************************************************)
(* The QoF and the NTN-QoF together: the QoF handler relays each SMF      *)
(* request with one blocking POST (NTN5GSessionCreate) to the NTN-QoF's   *)
(* /ntn-session/new-session, whose handler fans the session out to the    *)
(* two classifiers.  Request q is one SendSessionQOF call of the SMF     *)
(* (free5gc/NFs/smf/consumer/nsmf_qof.go), request q of the QoF and       *)
(* request q of the NTN-QoF.                                               *)
(*                                                                         *)
(* QofRelay and NtnSession are instantiated on one shared state.  The     *)
(* NTN-QoF's `session` is written by the QoF step that sends the body: it *)
(* is the relayed NTNSession after its JSON round trip into a             *)
(* MobileSession.                                                          *)
(***************************************************************************)
EXTENDS Naturals, Sequences

CONSTANTS
  Requests, Infos, NoSnssai, Empty, QofSlice, QofQoS,          \* QoF side
  Malformed, NoMatch, NonNumeric, QoS, Slice, Classifiers,     \* NTN-QoF side
  Outcomes, Nets, Hosts, BadAddr, NoAddr,
  RelayFailures   \* what a client.Post to the next NF may fail with

ASSUME RelayFailures \subseteq {"unreachable"}

VARIABLES
  smf,                                  \* SendSessionQOF: "calling", "returned", "failed"
  info, qpc, qstatus, relayed,          \* QofRelay
  session, hpc, status, wg, leg, installed       \* NtnSession

qvars == <<info, qpc, qstatus, relayed>>
nvars == <<session, hpc, status, wg, leg, installed>>
vars  == <<smf, qvars, nvars>>

Q == INSTANCE QofRelay

-----------------------------------------------------------------------------
(* The NTNSession the QoF marshals, decoded by the NTN-QoF's c.BindJSON    *)
(* into a MobileSession (ntnqof/producer/handler.go, lines 19-35).  The   *)
(* field names agree; the DSCP is a uint16 on the QoF side and a uint8 on *)
(* the NTN side, so a value above 255 is an unmarshal error.  An empty    *)
(* UPF or RAN string does not parse as an address and an empty slice id   *)
(* does not parse as a number.                                             *)

AddrOf(a) == IF a = Empty THEN BadAddr ELSE a
IdOf(id)  == IF id = Empty THEN NonNumeric ELSE id

MobileSessionOf(rel) ==
  IF rel.qos > 255 THEN Malformed
  ELSE [ran |-> AddrOf(rel.ran), upf |-> AddrOf(rel.upf), sm |-> rel.sm,
        qos |-> rel.qos, id |-> IdOf(rel.id), ipv4 |-> rel.ipv4]

NtnSessions == {MobileSessionOf(Q!NTNSessionOf(i)) : i \in Infos} \ {Malformed}

N == INSTANCE NtnSession WITH Sessions <- NtnSessions

-----------------------------------------------------------------------------
\* The NTN-QoF only reads the body of a request that was relayed (its
\* actions are guarded by qpc = "relaying"); before that the placeholder
\* Malformed stands in.
Init == smf = [q \in Requests |-> "calling"] /\ Q!Init /\ session = [r \in Requests |-> Malformed] /\ N!Init

\* The SMF's request reaches the QoF handler; a relayed NTNSession is put
\* on the wire to the NTN-QoF.
QofReceive(q) ==
  /\ smf[q] = "calling"
  /\ Q!HandleSessionCreateQof(q)
  /\ session' = IF relayed'[q] = Q!NoRelay THEN session
                ELSE [session EXCEPT ![q] = MobileSessionOf(relayed'[q])]
  /\ UNCHANGED <<smf, hpc, status, wg, leg, installed>>

\* The relayed POST reaches the NTN-QoF handler.
NtnReceive(q) ==
  qpc[q] = "relaying" /\ N!HandleSessionCreateQof(q) /\ UNCHANGED <<smf, qvars>>

NtnPipe(q, side) == N!Pipe(q, side) /\ UNCHANGED <<smf, qvars>>

NtnRespond(q) == N!Respond(q) /\ UNCHANGED <<smf, qvars>>

\* NTN5GSessionCreate returns once the NTN-QoF has answered, whatever the
\* status, and the QoF writes 200.
RelayReturns(q) ==
  hpc[q] = "answered" /\ Q!QofRespond(q) /\ UNCHANGED <<smf, nvars>>

\* client.Post fails before the NTN-QoF receives anything (lines 30-36 of
\* ntn_5G_session.go); the error is discarded and the QoF writes 200.
RelayUnreachable(q) ==
  /\ "unreachable" \in RelayFailures
  /\ hpc[q] = "idle"
  /\ Q!QofRespond(q)
  /\ UNCHANGED <<smf, nvars>>

\* SendSessionQOF reads the QoF's answer, whatever its status, and returns
\* nil (lines 33-47 of nsmf_qof.go).
SmfReturns(q) ==
  /\ smf[q] = "calling"
  /\ qpc[q] = "answered"
  /\ smf' = [smf EXCEPT ![q] = "returned"]
  /\ UNCHANGED <<qvars, nvars>>

\* The SMF's client.Post fails before the QoF receives the request, and
\* SendSessionQOF returns the error (lines 33-39).
SmfUnreachable(q) ==
  /\ "unreachable" \in RelayFailures
  /\ smf[q] = "calling"
  /\ qpc[q] = "idle"
  /\ smf' = [smf EXCEPT ![q] = "failed"]
  /\ UNCHANGED <<qvars, nvars>>

Next ==
  \/ \E q \in Requests : QofReceive(q) \/ NtnReceive(q) \/ NtnRespond(q)
  \/ \E q \in Requests : RelayReturns(q) \/ RelayUnreachable(q)
  \/ \E q \in Requests : SmfReturns(q) \/ SmfUnreachable(q)
  \/ \E q \in Requests, side \in N!Sides : NtnPipe(q, side)

\* Only safety is checked here: every HTTP exchange of the chain uses a
\* client without a timeout, so no step is forced to happen.
Spec == Init /\ [][Next]_vars

-----------------------------------------------------------------------------
(* Properties.                                                             *)

E2ETypeOK ==
  /\ smf \in [Requests -> {"calling", "returned", "failed"}]
  /\ Q!QofTypeOK /\ N!TypeOK

\* An S-NSSAI the QoF has a slice for (read from the configuration, not
\* through TranslateSnssai).
Known(snssai) == \E k \in DOMAIN QofSlice : QofSlice[k].SNssai = snssai

\* The SMF is told 200 only for a body that decoded and whose S-NSSAI the
\* QoF has configured, although the QoF handler falls through its error
\* branches and writes 200 last: it holds because gin keeps the first status.
SmfTold200OnlyIfTranslated ==
  \A q \in Requests :
    qstatus[q] = 200 => info[q].decode = "ok" /\ Known(info[q].snssai)

\* A rule a classifier holds is on the NTN slice the QoF configured for the
\* S-NSSAI of the SMF's request (TranslateSnssai matches SST and SD).
ProvisionedOnTranslatedSlice ==
  \A side \in N!Sides : \A q \in installed[side] :
    \E k \in DOMAIN QofSlice :
      /\ QofSlice[k].SNssai = Q!Decoded(info[q])
      /\ N!PipeArgs(q, side).SliceID = QofSlice[k].ID

\* Spec 4.5 / 7: the SMF is told "success" only when both classifiers hold
\* the session's rule.
E2ESuccessImpliesProvisioned ==
  \A q \in Requests : qstatus[q] = 200 => \A side \in N!Sides : q \in installed[side]
=============================================================================
