----------------------- MODULE MCProtectiveBrackets -----------------------
(* Instances of ProtectiveBrackets for TLC.                                *)
EXTENDS ProtectiveBrackets

OneLeg == {"long"}
=============================================================================
