--------------------------- MODULE MCRunEvidence ---------------------------
(***************************************************************************)
(* Three phases stand for the thirteen: preflight, one that runs a         *)
(* verifier command with two gates and then a gate of its own, and the     *)
(* report; the negative tests are outside.                                 *)
(***************************************************************************)
EXTENDS RunEvidence, TLC

MCPhases == <<"00", "50", "80">>
MCOutside == {"95"}
MCCommands == "00" :> <<{"tools"}>> @@ "50" :> <<{"predict", "groups"}, {"check"}>>
              @@ "80" :> << >> @@ "95" :> <<{"gap"}>>
MCSampled == {"50"}
=============================================================================
