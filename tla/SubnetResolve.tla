---------------------------- MODULE SubnetResolve -----------------------------
(***************************************************************************)
(* Interface resolution of the NTN-QoF (src/NFs/ntnqof/producer/handler.go)*)
(*                                                                         *)
(* GetIngressInterface / GetEgressInterface derive the /24 network of the  *)
(* session address (net.ParseCIDR(ip + "/24")) and return the first        *)
(* configured classifier address, in list order, that the network          *)
(* contains.  An IPv4 address is abstracted to its /24 network and its     *)
(* host part; a string net.ParseIP / net.ParseCIDR rejects is BadAddr.     *)
(* The functions return "" both when the session address does not parse   *)
(* and when no candidate matches (in the latter case with a nil error);   *)
(* both are NoAddr here.                                                   *)
(***************************************************************************)
EXTENDS Naturals, Sequences

CONSTANTS
  Nets,     \* /24 networks the addresses may lie in
  Hosts,    \* host parts within a /24
  BadAddr,  \* a string that does not parse as an IPv4 address
  NoAddr    \* the empty string "" returned when nothing is resolved

ASSUME BadAddr # NoAddr

IPv4 == [net : Nets, host : Hosts]

\* net.ParseCIDR(fmt.Sprintf("%s/24", ipV4)): the /24 network, or an error.
ParseCIDR24(ipV4) == IF ipV4 \in IPv4 THEN ipV4.net ELSE BadAddr

\* ipnet.Contains(net.ParseIP(i)): a candidate that does not parse is a nil
\* IP, which no network contains.
IPNetContains(ipnet, i) == i \in IPv4 /\ i.net = ipnet

\* The range loop over the candidate list, returning at the first match.
RECURSIVE FirstContained(_, _, _)
FirstContained(cands, ipnet, k) ==
  IF k > Len(cands) THEN NoAddr
  ELSE IF IPNetContains(ipnet, cands[k]) THEN cands[k]
  ELSE FirstContained(cands, ipnet, k + 1)

ResolveInterface(cands, ipV4) ==
  LET ipnet == ParseCIDR24(ipV4)
  IN  IF ipnet = BadAddr THEN NoAddr ELSE FirstContained(cands, ipnet, 1)

GetIngressInterface(classifier, ipV4) == ResolveInterface(classifier.Ingress, ipV4)

GetEgressInterface(classifier, ipV4) == ResolveInterface(classifier.Egress, ipV4)
=============================================================================
