-------------------------- MODULE MCShopFloorSync --------------------------
(***************************************************************************)
(* A terminal with two commands, two requests that can overlap, and every  *)
(* kind of command in one of the workloads.                                *)
(***************************************************************************)
EXTENDS ShopFloorSync

MCCommands == 1..2
MCWorkloads ==
  {<<"OWN", "KEYED">>, <<"MOVE", "MOVE">>, <<"TRANSFER", "ACK">>, <<"INVALID", "UNKEYED">>}
MCSlots == 1..2
=============================================================================
