------------------------- MODULE ExecutionLifecycle -------------------------
(***************************************************************************)
(* What the execution store and its harness promise of one execution,      *)
(* without files, ledgers, loaded records or recoveries.  Its states are   *)
(* decided on one after the other; its scanner starts once, when running   *)
(* was decided and no end; no end is decided under a scanner that runs,    *)
(* and a completed or timed-out scan is one that ended so.                 *)
(*                                                                         *)
(* What is shown of it lags: stale records are written back, so any state  *)
(* that was decided may be shown, or none, also after the end.  Nothing    *)
(* goes forward on the strength of what is shown.                          *)
(***************************************************************************)
CONSTANT Nothing

VARIABLES shown,   \* the state that the record shows, or Nothing
          decided, \* the states that were decided on
          asked,   \* somebody asked for the cancellation
          scan     \* the scanner: none, running, killed, or how it ended

vars == <<shown, decided, asked, scan>>

Ends == {"blocked", "cancelled", "timed_out", "failed", "completed"}

Ended == decided \cap Ends # {}

Before(s) ==
    CASE s = "validated" -> "prepared"
      [] s = "starting"  -> "validated"
      [] s = "running"   -> "starting"

Decides(s) == decided' = decided \cup {s} /\ UNCHANGED <<shown, asked, scan>>

Prepare == decided = {} /\ Decides("prepared")

Advance ==
    /\ ~Ended /\ scan = "none"
    /\ \E s \in {"validated", "starting", "running"} :
         Before(s) \in decided /\ Decides(s)

Cancelling == asked /\ "starting" \in decided /\ Decides("cancelling")

End ==
    /\ decided # {} /\ scan # "running"
    /\ \E s \in Ends :
         /\ s \in {"completed", "timed_out"} => scan = s
         /\ Decides(s)

Ask == asked' = TRUE /\ UNCHANGED <<shown, decided, scan>>

Show == shown' \in decided \cup {Nothing} /\ UNCHANGED <<decided, asked, scan>>

ScanStarts ==
    /\ scan = "none" /\ "running" \in decided /\ ~Ended
    /\ scan' = "running" /\ UNCHANGED <<shown, decided, asked>>

ScanEnds ==
    /\ scan = "running"
    /\ scan' \in {"completed", "failed", "timed_out", "cancelled", "killed"}
    /\ UNCHANGED <<shown, decided, asked>>

Init == shown = Nothing /\ decided = {} /\ asked = FALSE /\ scan = "none"

Step == Prepare \/ Advance \/ Cancelling \/ End \/ Ask \/ Show \/ ScanStarts
        \/ ScanEnds

Spec == Init /\ [][Step]_vars
=============================================================================
