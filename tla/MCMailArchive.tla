---------------------------- MODULE MCMailArchive ----------------------------
(* All the mail is of the first month; two more months go by.               *)
EXTENDS MailArchive

CONSTANTS m1, m2

MCMonthOf == [m \in Msg |-> 1]
=============================================================================
