---------------------------- MODULE MCCertCache -----------------------------
(* Three callers, two hosts; "badname" is a name net.SplitHostPort rejects *)
(* and "ahost:1" and "ahost" are two names of one host.                    *)
EXTENDS CertCache

CONSTANTS c1, c2, c3

MCCaller == {c1, c2, c3}
MCName == {"ahost", "ahost:1", "bhost", "badname"}
MCHost == {"ahost", "bhost"}
MCSplitHost == [n \in MCName |->
  CASE n \in {"ahost", "ahost:1"} -> "ahost"
    [] n = "bhost" -> "bhost"
    [] OTHER -> "nohost"]
=============================================================================
