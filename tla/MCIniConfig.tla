---------------------------- MODULE MCIniConfig ----------------------------
(***************************************************************************)
(* Parameters and files for checking IniConfig on a small instance.        *)
(***************************************************************************)
EXTENDS IniConfig, TLC

CONSTANTS number, string    (* Parameters of an .ini file. *)

MCParamOrder == <<number, string>>

MCIniTexts ==
  {number :> "v" @@ string :> NoText, number :> BadText @@ string :> "v"}

=============================================================================
