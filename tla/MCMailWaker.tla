----------------------------- MODULE MCMailWaker -----------------------------
(* Two bots; the mail is for the first of them.                             *)
EXTENDS MailWaker

CONSTANTS b1, b2

MCDest == [m \in Msg |-> b1]
MCRoster == <<b1, b2>>
=============================================================================
