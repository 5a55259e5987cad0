----------------------------- MODULE LossyLine -----------------------------
(***************************************************************************)
(* The way from the agent to its broker, seen from outside: items are      *)
(* offered one after the other, and some of them are delivered, in the     *)
(* order of the offers, none twice and none that was not offered.  What    *)
(* is overtaken is lost.  The headers draw both stages that keep to it:    *)
(* pipeline.h the way from a captured packet to publisher_send_batch,      *)
(* publisher.h the way of a batch from there to the broker, with its       *)
(* retries.                                                                *)
(***************************************************************************)
EXTENDS Naturals, Sequences

VARIABLES offered,    \* items offered so far; an item is its number
          delivered   \* the items delivered, in order

lvars == <<offered, delivered>>

LInit == offered = 0 /\ delivered = <<>>

Offer == offered' = offered + 1 /\ UNCHANGED delivered

\* Some items, at least one, that were offered after all those delivered so far.
InOrderUpTo(line, n) ==
  /\ \A i \in 1 .. Len(line) : line[i] \in 1 .. n
  /\ \A i, j \in 1 .. Len(line) : i < j => line[i] < line[j]

Deliver ==
  /\ UNCHANGED offered
  /\ Len(delivered') > Len(delivered)
  /\ \A i \in 1 .. Len(delivered) : delivered'[i] = delivered[i]
  /\ InOrderUpTo(delivered', offered)

LNext == Offer \/ Deliver

LSpec == LInit /\ [][LNext]_lvars
=============================================================================
