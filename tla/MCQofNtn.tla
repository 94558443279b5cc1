------------------------------- MODULE MCQofNtn -------------------------------
(***************************************************************************)
(* QoF and NTN-QoF deployed together.  The QoF knows two S-NSSAIs with the *)
(* same SST and different SDs, mapped to NTN slices 1 and 2; the NTN-QoF   *)
(* has both slices.  SMF bodies: one per known S-NSSAI, an unknown         *)
(* S-NSSAI, a body with a JSON type error around a known S-NSSAI, and a  *)
(* body with a JSON syntax error (decoded as the zero QOFSessionInfo).    *)
(***************************************************************************)
EXTENDS QofNtn

Addr(n, h) == [net |-> n, host |-> h]

SnssaiA == [Sst |-> 1, Sd |-> "000001"]
SnssaiB == [Sst |-> 1, Sd |-> "000002"]
SnssaiC == [Sst |-> 2, Sd |-> "000001"]

MCQofSlice ==
  << [SNssai |-> SnssaiA, RAN |-> Addr("nR", "h2"), CN |-> Addr("nC", "h2"),
      ID |-> 1, AMF |-> "amf", Default |-> TRUE],
     [SNssai |-> SnssaiB, RAN |-> Addr("nR", "h2"), CN |-> Addr("nC", "h2"),
      ID |-> 2, AMF |-> "amf", Default |-> FALSE] >>

\* 5QI 9 -> DSCP 46, which the NTN-QoF maps to satellite DSCP 7.
MCQofQoS == [f \in {9} |-> 46]

\* A QoF configured with a DSCP that does not fit the NTN-QoF's uint8.
MCQofQoSWide == [f \in {9} |-> 300]

MCQoS == [d \in {46} |-> 7]

MCSlice ==
  << [SliceID |-> 1, ClassifierRANEndpoint |-> Addr("nR", "h2"),
      ClassifierCNEndpoint |-> Addr("nC", "h2"), Forward |-> 100, Return |-> 50],
     [SliceID |-> 2, ClassifierRANEndpoint |-> Addr("nR", "h2"),
      ClassifierCNEndpoint |-> Addr("nC", "h2"), Forward |-> 20, Return |-> 10] >>

\* An NTN-QoF that also configures slice id 0.
MCSliceZero ==
  << [SliceID |-> 0, ClassifierRANEndpoint |-> Addr("nR", "h2"),
      ClassifierCNEndpoint |-> Addr("nC", "h2"), Forward |-> 10, Return |-> 5] >>
  \o MCSlice

MCClassifiers ==
  [RAN |-> [Ingress |-> << Addr("nR", "h1") >>, Egress |-> << >>],
   CN  |-> [Ingress |-> << Addr("nC", "h1") >>, Egress |-> << >>]]

Body(d, sn) == [decode |-> d, snssai |-> sn, var5qi |-> 9, uteid |-> 111,
                dteid |-> 222, ipv4 |-> Addr("nU", "h1")]

MCInfos == { Body("ok", SnssaiA), Body("ok", SnssaiB), Body("ok", SnssaiC),
             Body("type", SnssaiB), Body("syntax", SnssaiA) }
=============================================================================
