---------------------------- MODULE MCEnrichment ----------------------------
(* TLC instance of the enrichment caches. *)
EXTENDS Enrichment

CONSTANTS w1, w2, a, l, p

MCWorkers == {w1, w2}
MCGeoDb   == [ip \in {a, l} |-> [geo |-> TRUE, asn |-> TRUE]]
Low(ip)   == [ip |-> ip, high |-> FALSE]
High(ip)  == [ip |-> ip, high |-> TRUE]
MCBatches == {<<High(p), Low(a), High(p)>>, <<Low(l), High(a)>>}
MCRawScores == {130}
=============================================================================
