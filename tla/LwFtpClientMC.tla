--------------------------- MODULE LwFtpClientMC ---------------------------
(* TLC instance of LwFtpClient: every reply code lwftp_control_process       *)
(* tells apart, one it does not (500), and a pbuf without a number (0).      *)
EXTENDS LwFtpClient

MCResponses == {0, 150, 200, 220, 221, 226, 227, 230, 250, 257, 331, 350, 500, 550}
=============================================================================
