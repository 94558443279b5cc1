------------------------------- MODULE QofRelay -------------------------------
(***************************************************************************)
(* Session relay of the QoF (src/NFs/qof/producer/handler.go and           *)
(* src/free5gc/NFs/qof/consumer/ntn_5G_session.go).                        *)
(*                                                                         *)
(* The SMF POSTs a QOFSessionInfo (SendSessionQOF); the QoF handler        *)
(* decodes it, translates the S-NSSAI and the 5QI, relays an NTNSession to *)
(* the NTN-QoF with one blocking POST (NTN5GSessionCreate) and answers     *)
(* 200.  Neither error branch of the handler returns: after a decoding or *)
(* a translation error it writes an error status and carries on.         *)
(*                                                                         *)
(* gin writes the status line with the first response: c.BindJSON aborts   *)
(* with 400 at once, and a later c.JSON with another code only appends a  *)
(* body.  The status the SMF sees is therefore the first one written.     *)
(* A body with a JSON type error is still decoded field by field          *)
(* (encoding/json completes what it can), so its S-NSSAI may be set; a    *)
(* syntax error leaves the zero QOFSessionInfo with a nil Snssai.          *)
(***************************************************************************)
EXTENDS Naturals, Sequences
LOCAL INSTANCE SequencesExt

CONSTANTS
  Requests,    \* concurrent SMF requests to /qof-session/new-session
  Infos,       \* QOFSessionInfo bodies, with their decoding result
  NoSnssai,    \* a nil *models.Snssai
  Empty,       \* the "" TranslateSnssai returns on a miss
  QofSlice,    \* QOF_Self().Slice, in config order
  QofQoS       \* QOF_Self().QoS : map[int32]uint16

\* An Info is [decode, snssai, var5qi, uteid, dteid, ipv4]; decode is "ok",
\* "type" (a type error, the rest decoded) or "syntax" (nothing decoded).
Decoded(info) == IF info.decode = "syntax" THEN NoSnssai ELSE info.snssai

NoRelay == [none |-> TRUE]   \* no NTNSession sent

VARIABLES
  info,      \* the body each request carries (fixed per behaviour)
  qpc,       \* handler goroutine: "idle", "relaying" (in the POST), "answered"
  qstatus,   \* the status line written to the SMF, 0 while none
  relayed    \* the NTNSession each request sent to the NTN-QoF

qvars == <<info, qpc, qstatus, relayed>>

-----------------------------------------------------------------------------
(* Translation, lines 14-31.                                                *)

\* Mutant: the loop compares the SST only.
TranslateSnssaiSstOnly(snssai) ==
  LET i == SelectInSeq(QofSlice, LAMBDA v : snssai # NoSnssai /\ v.SNssai.Sst = snssai.Sst)
  IN  IF i = 0 THEN [upf |-> Empty, ran |-> Empty, id |-> Empty, ok |-> FALSE]
               ELSE [upf |-> QofSlice[i].CN, ran |-> QofSlice[i].RAN,
                     id |-> QofSlice[i].ID, ok |-> TRUE]

\* The first configured slice whose S-NSSAI has the same SST and SD.
TranslateSnssai(snssai) ==
  LET i == SelectInSeq(QofSlice, LAMBDA v : v.SNssai = snssai)
  IN  IF i = 0 THEN [upf |-> Empty, ran |-> Empty, id |-> Empty, ok |-> FALSE]
               ELSE [upf |-> QofSlice[i].CN, ran |-> QofSlice[i].RAN,
                     id |-> QofSlice[i].ID, ok |-> TRUE]

\* A Go map read: a 5QI missing from the table yields DSCP 0.
Translate5QI(var5qi) == IF var5qi \in DOMAIN QofQoS THEN QofQoS[var5qi] ELSE 0

\* The NTNSession built at lines 55-66.
NTNSessionOf(i) ==
  LET t == TranslateSnssai(Decoded(i))
  IN  [ran |-> t.ran, upf |-> t.upf,
       sm  |-> [UTEID |-> i.uteid, DTEID |-> i.dteid],
       qos |-> Translate5QI(i.var5qi), id |-> t.id, ipv4 |-> i.ipv4]

\* c.JSON / AbortWithError after the status line is out keep the first code.
Write(st, code) == IF st = 0 THEN code ELSE st

\* The status written before the relay: 400 from a failed BindJSON, else
\* 500 from a failed translation, else none.
StatusBeforeRelay(i) ==
  IF i.decode # "ok" THEN 400
  ELSE IF ~TranslateSnssai(Decoded(i)).ok THEN 500
  ELSE 0

-----------------------------------------------------------------------------
Init ==
  /\ info \in [Requests -> Infos]
  /\ qpc = [q \in Requests |-> "idle"]
  /\ qstatus = [q \in Requests |-> 0]
  /\ relayed = [q \in Requests |-> NoRelay]

\* TranslateSnssai dereferences a nil Snssai in its loop body (line 17) and
\* panics when a slice is configured; gin's recovery writes 500 unless
\* BindJSON already wrote 400.
NilSnssaiPanics(i) == Decoded(i) = NoSnssai /\ QofSlice # << >>

QofPanics(q) ==
  /\ qpc[q] = "idle"
  /\ NilSnssaiPanics(info[q])
  /\ qpc' = [qpc EXCEPT ![q] = "answered"]
  /\ qstatus' = [qstatus EXCEPT ![q] = IF info[q].decode # "ok" THEN 400 ELSE 500]
  /\ UNCHANGED <<info, relayed>>

\* Mutant: the translation error branch does not write its 500.
QofRelayStartNo500(q) ==
  /\ qpc[q] = "idle"
  /\ ~NilSnssaiPanics(info[q])
  /\ qpc' = [qpc EXCEPT ![q] = "relaying"]
  /\ qstatus' = [qstatus EXCEPT ![q] = IF info[q].decode # "ok" THEN 400 ELSE 0]
  /\ relayed' = [relayed EXCEPT ![q] = NTNSessionOf(info[q])]
  /\ UNCHANGED info

\* Lines 38-68 up to the POST: the error branches write their status and
\* fall through, the NTNSession is built and sent whatever happened.
QofRelayStart(q) ==
  /\ qpc[q] = "idle"
  /\ ~NilSnssaiPanics(info[q])
  /\ qpc' = [qpc EXCEPT ![q] = "relaying"]
  /\ qstatus' = [qstatus EXCEPT ![q] = StatusBeforeRelay(info[q])]
  /\ relayed' = [relayed EXCEPT ![q] = NTNSessionOf(info[q])]
  /\ UNCHANGED info

HandleSessionCreateQof(q) ==
  \/ QofPanics(q)
  \/ QofRelayStart(q)

\* NTN5GSessionCreate returns (an answer of any status, or a transport
\* error); its error is discarded and c.JSON(200) is written, lines 68-72.
QofRespond(q) ==
  /\ qpc[q] = "relaying"
  /\ qpc' = [qpc EXCEPT ![q] = "answered"]
  /\ qstatus' = [qstatus EXCEPT ![q] = Write(@, 200)]
  /\ UNCHANGED <<info, relayed>>

Next ==
  \/ \E q \in Requests : HandleSessionCreateQof(q)
  \/ \E q \in Requests : QofRespond(q)

Spec == Init /\ [][Next]_qvars /\ \A q \in Requests : WF_qvars(QofRespond(q))

-----------------------------------------------------------------------------
(* Properties.                                                             *)

QofTypeOK ==
  /\ info \in [Requests -> Infos]
  /\ qpc \in [Requests -> {"idle", "relaying", "answered"}]
  /\ qstatus \in [Requests -> {0, 200, 400, 500}]
  /\ relayed \in [Requests -> {NoRelay} \cup {NTNSessionOf(i) : i \in Infos}]

=============================================================================
