-------------------------- MODULE MCTelegramOutbox --------------------------
(***************************************************************************)
(* A small instance of TelegramOutbox: two messages, so that one's retry   *)
(* meets the other's first attempt; one producer beside the worker; two    *)
(* attempts, so that there is a retry and a last one.                      *)
(***************************************************************************)
EXTENDS TelegramOutbox

Disturbed == {"fail", "lost", "expire"}
Muting == {"fail", "mute"}
=============================================================================
