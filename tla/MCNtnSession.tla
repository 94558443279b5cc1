---------------------------- MODULE MCNtnSession -----------------------------
(***************************************************************************)
(* A deployment for model checking NtnSession: one slice, a QoS table with *)
(* one entry, a RAN classifier with one ingress address and a CN           *)
(* classifier with two in the same /24 (so "first match" is exercised),   *)
(* and session bodies covering the well-formed case and every input that  *)
(* takes a different path through HandleSessionCreateQof.                  *)
(***************************************************************************)
EXTENDS NtnSession

Addr(n, h) == [net |-> n, host |-> h]

MCQoS == [d \in {5} |-> 7]

MCSlice ==
  << [SliceID |-> 1,
      ClassifierRANEndpoint |-> Addr("nR", "h2"),
      ClassifierCNEndpoint  |-> Addr("nC", "h2"),
      Forward |-> 100, Return |-> 50] >>

MCClassifiers ==
  [RAN |-> [Ingress |-> << Addr("nR", "h1") >>, Egress |-> << >>],
   CN  |-> [Ingress |-> << Addr("nC", "h1"), Addr("nC", "h2") >>, Egress |-> << >>]]

Good == [ran |-> Addr("nR", "h2"), upf |-> Addr("nC", "h2"),
         sm |-> [UTEID |-> 111, DTEID |-> 222], qos |-> 5, id |-> 1,
         ipv4 |-> Addr("nU", "h1")]

MCSessions ==
  { Good,
    [Good EXCEPT !.id = 257],                 \* uint8(257) = 1
    [Good EXCEPT !.id = NonNumeric],          \* ParseUint error -> 0
    [Good EXCEPT !.qos = 6],                  \* DSCP missing from QoS
    [Good EXCEPT !.ran = Addr("nU", "h2")],   \* no RAN ingress in its /24
    [Good EXCEPT !.sm = NoMatch] }            \* nil SliceMatch

\* A single well-formed body, whose UE address differs from its UPF
\* address.
MCSessionsWellFormed == { Good }

\* One body with a slice id that wraps (uint8(257) = 1), a RAN address
\* outside the RAN classifier's /24 and a DSCP the QoS table lacks: each
\* of the three is a silent fallback of the handler, and the body is
\* installed on both sides all the same.
MCSessionsUnresolved ==
  { [Good EXCEPT !.id = 257, !.ran = Addr("nU", "h2"), !.qos = 6] }
=============================================================================
