---------------------------- MODULE MailDelivery ----------------------------
(***************************************************************************)
(* What the inter-bot mail promises, stated without saying how: an         *)
(* envelope waits, is handed to recipients it names while it waits, is     *)
(* filed once and never handed out again, and what a recipient holds it    *)
(* holds for ever.  MailRelay implements this: an envelope "waits" while   *)
(* its file is in the author's outbox, and a bot "holds" what is in its    *)
(* live inbox or in its archive shards.                                    *)
(***************************************************************************)
CONSTANTS
    Bot,      \* bot keys, one mail directory each
    Msg,      \* envelopes, named by their id
    Author,   \* Author[m]: the bot whose outbox m is written to
    To        \* To[m]: the recipients the envelope names

VARIABLES
    waiting,  \* envelopes the relay has still to file
    filed,    \* envelopes that have left the outbox for good
    holds     \* holds[b]: the messages b can still recall

vars == <<waiting, filed, holds>>

Init ==
    /\ waiting = {}
    /\ filed = {}
    /\ holds = [b \in Bot |-> {}]

\* A bot sends an envelope that was never sent before.
Post(m) ==
    /\ m \notin waiting \cup filed
    /\ waiting' = waiting \cup {m}
    /\ UNCHANGED <<filed, holds>>

\* A recipient other than the author gets a copy while the envelope waits.
Hand(m, b) ==
    /\ m \in waiting
    /\ b \in To[m] \ {Author[m]}
    /\ holds' = [holds EXCEPT ![b] = @ \cup {m}]
    /\ UNCHANGED <<waiting, filed>>

\* The envelope is filed, delivered or refused; it never waits again.
File(m) ==
    /\ m \in waiting
    /\ waiting' = waiting \ {m}
    /\ filed' = filed \cup {m}
    /\ UNCHANGED holds

Next ==
    \E m \in Msg :
        \/ Post(m)
        \/ File(m)
        \/ \E b \in Bot : Hand(m, b)

Spec == Init /\ [][Next]_vars
=============================================================================
