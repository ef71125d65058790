----------------------------- MODULE MCMailSystem -----------------------------
(* Mail from bot1 to bot2, all of it valid, over a route that is always       *)
(* granted when the routes file can be read.                                  *)
EXTENDS MailSystem

CONSTANTS bot1, bot2

MCAuthor == [m \in Msg |-> bot1]
MCTo == [m \in Msg |-> {bot2}]
MCListing == <<bot1, bot2>>
MCReadable == [x \in Bot |-> {}]
MCRouteFiles == {{<<bot1, bot2>>}}
=============================================================================
