----------------------------- MODULE MCMailRelay -----------------------------
(* MailRelay on a small instance: m1 goes from bot1 to itself, bot2 and bot3; *)
(* m2, from bot1 too, is malformed.  The routes file allows bot1 to write to  *)
(* everybody, or only to bot2.                                                *)
EXTENDS MailRelay, TLC

CONSTANTS bot1, bot2, bot3, m1, m2

MCBot == {bot1, bot2, bot3}
MCMsg == {m1, m2}
MCAuthor == (m1 :> bot1) @@ (m2 :> bot1)
MCTo == (m1 :> {bot1, bot2, bot3}) @@ (m2 :> {bot3})
MCValid == {m1}
MCListing == <<bot1, bot2, bot3>>
MCReadable == [x \in MCBot |-> IF x = bot2 THEN {m1} ELSE {}]
MCRouteFiles == {{<<bot1, x>> : x \in MCBot}, {<<bot1, bot2>>}}
=============================================================================
