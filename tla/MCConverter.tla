---------------------------- MODULE MCConverter ----------------------------
(***************************************************************************)
(* Small instances of Converter for TLC: two requests, to two CAN ids that *)
(* fit the bytes the converter keeps; lines closer together and further    *)
(* apart than the gap; no unknown member, or one at each level of the      *)
(* document.                                                               *)
(***************************************************************************)
EXTENDS Converter

MCShortIds == {[can_id |-> 1, uds |-> <<"read">>], [can_id |-> 2, uds |-> <<"read">>]}

MCSteps == {1, 2, 3}

MCSetBack == {-1, 1}

MCStrays == {{}, {"top", "exchange", "tx", "rx"}}

=============================================================================
