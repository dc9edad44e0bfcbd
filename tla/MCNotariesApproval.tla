------------------------- MODULE MCNotariesApproval -------------------------
(* Model for NotariesApproval: two notaries, era 1 = <<K2, K1>> and era 2 *)
(* = <<K2>> in an array of two rows, lists of up to three approvals and a *)
(* quorum of two, so a reused signer, an era change that shrinks the set  *)
(* and every outcome of the proof check all occur within one call.        *)
EXTENDS NotariesApproval

MCKeys == {"K1", "K2"}
MCEraKeys == << <<"K2", "K1">>, <<"K2">> >>
=============================================================================
