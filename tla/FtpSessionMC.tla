---------------------------- MODULE FtpSessionMC ----------------------------
(* TLC instances of FtpSession: the worlds its runs look at.                 *)
EXTENDS FtpSession

(* Connections that hold and rejections the client reports as such; a        *)
(* server that refuses anything and connections that fail; and these with    *)
(* lost replies and with lost commands.                                      *)
Failing == {"reject", "refuse", "reset", "drop"}
PlainAndAll == {{"reject"}, Failing, Failing \cup {"coalesce"},
                (Failing \ {"reset"}) \cup {"unsent"}}
(* A server that refuses what the client answers with QUIT.                  *)
Refusing == {{"refuse"}}
=============================================================================
