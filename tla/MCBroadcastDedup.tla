-------------------------- MODULE MCBroadcastDedup --------------------------
(***************************************************************************)
(* BroadcastDedup for TLC: robot_base_status, two other status topics and  *)
(* display_map, payloads with one field, with both, one that cannot be     *)
(* decoded and one that makes the setter raise, and a cache of two topics, *)
(* so that the third evicts the older one.                                 *)
(***************************************************************************)
EXTENDS BroadcastDedup, TLC

CONSTANTS base, other, third, map, working, dock

MCTopics == {base, other, third, map}
MCExempt == {map}
MCFields == {working, dock}
MCValues == {0, 1}

\* dock is sticky: the newer firmware leaves the field out.
Docked   == (working :> 1) @@ (dock :> 1)
Cleaning == working :> 0
Garbled  == <<>>
Strange  == (working :> 1) @@ (dock :> 0)

MCPayloads == {Docked, Cleaning, Garbled, Strange}
MCUndecodable == {Garbled}
MCRaising == {Strange}
=============================================================================
