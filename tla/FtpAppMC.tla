------------------------------ MODULE FtpAppMC ------------------------------
(* TLC instances of FtpApp.                                                  *)
EXTENDS FtpApp

Below == <<"home">>      \* a login directory below the root

(* All is well; the server or the control connection gives up; the user and  *)
(* the server stop operations half-way; replies are lost; commands are lost; *)
(* everything at once.                                                       *)
SixWorlds == {{}, {"refuse", "drop"}, {"reject", "cancel", "nomem"},
              {"coalesce"}, {"unsent", "drop"}, FaultKinds}
=============================================================================
