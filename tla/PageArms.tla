------------------------------- MODULE PageArms -------------------------------
(***************************************************************************)
(* The waiters a page of the browser extension may have armed              *)
(* (pw-tools-core.downloads.ts) and the page's own download handler        *)
(* (pw-session.ts).  A call arms a waiter for the next download, file      *)
(* chooser or dialog and becomes the newest of its kind.  The event goes   *)
(* to every waiter there is, and each compares its number with the newest  *)
(* only when its own code runs again.  A download that finds no waiter, by *)
(* the counter downloadWaiterDepth, is saved to the managed directory.     *)
(*                                                                         *)
(* One page, so that the counters of the process and the armId fields of   *)
(* the page agree.  A call is made once.                                   *)
(***************************************************************************)
EXTENDS Integers, FiniteSets, FiniteSetsExt

CONSTANTS
    ArmCall,        \* calls of the three tools
    PageEvent,      \* what the page emits
    NoEvent

ASSUME ArmsAssumption == IsFiniteSet(ArmCall) /\ NoEvent \notin PageEvent

ArmKind == {"download", "upload", "dialog"}

VARIABLES
    armId,          \* armId[k]: the number of the newest call of the kind
    downloadWaiterDepth,
    waiter,         \* of a call: its step, kind, number, click and the event it took
    emitted,        \* the kind of an event, "none" before it happened
    managed         \* the downloads that went to the managed directory

armVars == <<armId, downloadWaiterDepth, waiter, emitted, managed>>

NotArmed == [pc |-> "idle", kind |-> "dialog", arm |-> 0, click |-> "no", event |-> NoEvent]

ArmsTypeOK ==
    /\ armId \in [ArmKind -> 0..Cardinality(ArmCall)]
    /\ downloadWaiterDepth \in 0..Cardinality(ArmCall)
    /\ \A c \in ArmCall :
          /\ waiter[c].pc \in {"idle", "waiting", "took", "expired",
                               "acted", "superseded", "failed", "timeout"}
          /\ waiter[c].kind \in ArmKind /\ waiter[c].click \in {"no", "clicking", "clicked"}
          /\ waiter[c].event \in PageEvent \cup {NoEvent}
    /\ emitted \in [PageEvent -> ArmKind \cup {"none"}] /\ managed \subseteq PageEvent

ArmsInit ==
    /\ armId = [k \in ArmKind |-> 0] /\ downloadWaiterDepth = 0
    /\ waiter = [c \in ArmCall |-> NotArmed]
    /\ emitted = [e \in PageEvent |-> "none"] /\ managed = {}

\* The calls whose waiter listens to events of the kind.
Listening(k) == {c \in ArmCall : waiter[c].pc = "waiting" /\ waiter[c].kind = k}

(***************************************************************************)
(* Arming                                                                  *)
(***************************************************************************)
\* The number and the waiter are taken in one go.  downloadViaPlaywright then clicks.
ArmWaiter(c, k, click) ==
    /\ waiter[c].pc = "idle" /\ armId' = [armId EXCEPT ![k] = @ + 1]
    /\ waiter' = [waiter EXCEPT ![c] = [pc |-> "waiting", kind |-> k, arm |-> armId[k] + 1,
                                        click |-> click, event |-> NoEvent]]
    /\ downloadWaiterDepth' = downloadWaiterDepth + (IF k = "download" THEN 1 ELSE 0)
    /\ UNCHANGED <<emitted, managed>>

waitForDownload(c) == ArmWaiter(c, "download", "no")
downloadByClick(c) == ArmWaiter(c, "download", "clicking")
armFileUpload(c) == ArmWaiter(c, "upload", "no")
armDialog(c) == ArmWaiter(c, "dialog", "no")

(***************************************************************************)
(* Events, timers and clicks                                               *)
(***************************************************************************)
\* Faulty variant: what was released is released again
ArmsMutReleased(cs) == Max({0, downloadWaiterDepth - Cardinality(cs)})

\* cleanup of a waiter, at most once: the calls cs no longer count.
Released(cs) == Max({0, downloadWaiterDepth - Cardinality(cs \cap Listening("download"))})

\* The page's handler was registered first and looks at the counter; then each
\* waiter of the kind takes the event.
PageEmits(e, k) ==
    /\ emitted[e] = "none" /\ emitted' = [emitted EXCEPT ![e] = k]
    /\ managed' = IF k = "download" /\ downloadWaiterDepth = 0 THEN managed \cup {e} ELSE managed
    /\ waiter' = [c \in ArmCall |-> IF c \in Listening(k)
                                    THEN [waiter[c] EXCEPT !.pc = "took", !.event = e]
                                    ELSE waiter[c]]
    /\ downloadWaiterDepth' = IF k = "download" THEN Released(Listening(k))
                              ELSE downloadWaiterDepth
    /\ UNCHANGED armId

\* A waiter's timer.  The timeouts of two calls need not be the same.
WaiterExpires(c) ==
    /\ waiter[c].pc = "waiting" /\ waiter' = [waiter EXCEPT ![c].pc = "expired"]
    /\ downloadWaiterDepth' = Released({c}) /\ UNCHANGED <<armId, emitted, managed>>

ClickEnds(c) ==
    /\ waiter[c].click = "clicking" /\ waiter[c].pc \in {"waiting", "took", "expired"}
    /\ waiter' = [waiter EXCEPT ![c].click = "clicked"]
    /\ UNCHANGED <<armId, downloadWaiterDepth, emitted, managed>>

\* The call ends with an error, a download that came during the click with it.
ClickFails(c) ==
    /\ waiter[c].click = "clicking" /\ waiter[c].pc \in {"waiting", "took", "expired"}
    /\ waiter' = [waiter EXCEPT ![c].pc = "failed"]
    /\ downloadWaiterDepth' = Released({c}) /\ UNCHANGED <<armId, emitted, managed>>

(***************************************************************************)
(* The call goes on, once its click is over: it saves the download, sets   *)
(* the files or answers the dialog, or it was superseded; what it does may *)
(* fail.  awaitDownloadPayload cancels the waiter when it throws.          *)
(***************************************************************************)
CallGoesOn(c) ==
    /\ waiter[c].pc \in {"took", "expired"} /\ waiter[c].click # "clicking"
    /\ \E pc \in CASE waiter[c].pc = "expired" -> {"timeout"}
                   [] waiter[c].arm # armId[waiter[c].kind] -> {"superseded"}
                   [] OTHER -> {"acted", "failed"} :
          /\ waiter' = [waiter EXCEPT ![c].pc = pc]
          /\ downloadWaiterDepth' =
                IF waiter[c].kind = "download" /\ pc # "acted" THEN Released({c})
                ELSE downloadWaiterDepth
    /\ UNCHANGED <<armId, emitted, managed>>

ArmsNext ==
    \/ \E c \in ArmCall : \/ waitForDownload(c) \/ downloadByClick(c)
                          \/ armFileUpload(c) \/ armDialog(c)
                          \/ WaiterExpires(c) \/ ClickEnds(c) \/ ClickFails(c) \/ CallGoesOn(c)
    \/ \E e \in PageEvent, k \in ArmKind : PageEmits(e, k)

ArmsSpec == ArmsInit /\ [][ArmsNext]_armVars

(***************************************************************************)
(* Properties                                                              *)
(***************************************************************************)
Takers(e) == {c \in ArmCall : waiter[c].event = e}
NewerThan(c) == {n \in ArmCall : waiter[n].kind = waiter[c].kind /\ waiter[n].arm > waiter[c].arm}

\* A download is saved, a chooser or a dialog answered, by one party at most: the
\* page itself or the newest call.  A download always finds somebody, and what was
\* taken is dropped only after the newest of its takers failed, or because of a
\* newer call that was not there to take it.
ArmedHandledOnce ==
    \A e \in PageEvent : emitted[e] # "none" =>
        LET takers == Takers(e)
            acted == {c \in takers : waiter[c].pc = "acted"}
        IN /\ Cardinality(acted) + Cardinality(managed \cap {e}) <= 1
           /\ emitted[e] = "download" => takers # {} \/ e \in managed
           /\ \/ takers = {} \/ acted # {}
              \/ \E c \in takers :
                    /\ NewerThan(c) \cap takers = {}
                    /\ waiter[c].pc \in {"took", "failed"} \/ NewerThan(c) # {}
=============================================================================
