------------------------------- MODULE Hangup -------------------------------
(***************************************************************************)
(* What stream/river promises the handlers that end connections.  A bucket *)
(* of hangups lists the open connections.  A survey asks the connections   *)
(* it finds there once, hangs up only those it asked, and reports either   *)
(* that all of them are hung up or a list of IDs outside which everyone    *)
(* is.  Dialers, tries, timers and answers on the wire are not seen.       *)
(***************************************************************************)
EXTENDS Naturals

CONSTANTS
    Conn,      \* the connections
    Surveyor   \* the surveys

VARIABLES
    open,      \* the connections the bucket lists
    hung,      \* the connections that were told to hang up
    asked,     \* the connections each survey found
    verdict,   \* what each survey has reported
    missing    \* the IDs each survey has reported missing

vars == <<open, hung, asked, verdict, missing>>

Init ==
    /\ open = {}
    /\ hung = {}
    /\ asked = [s \in Surveyor |-> {}]
    /\ verdict = [s \in Surveyor |-> "idle"]
    /\ missing = [s \in Surveyor |-> {}]

\* NewResponder hands out an ID that nobody has had.
Connect(c) ==
    /\ c \notin open \cup hung
    /\ open' = open \cup {c}
    /\ UNCHANGED <<hung, asked, verdict, missing>>

\* DeleteResp, asked to or not.
Leave(c) ==
    /\ c \in open
    /\ open' = open \ {c}
    /\ UNCHANGED <<hung, asked, verdict, missing>>

\* NewSurvey: whoever is listed is asked; without a bucket there is nobody.
Ask(s) ==
    /\ verdict[s] = "idle"
    /\ asked' = [asked EXCEPT ![s] = open]
    /\ \/ verdict' = [verdict EXCEPT ![s] = "asking"]
       \/ /\ open = {}
          /\ verdict' = [verdict EXCEPT ![s] = "nobucket"]
    /\ UNCHANGED <<open, hung, missing>>

\* Nobody is hung up unasked, and a survey's question outlives the survey.
HangUp(c) ==
    /\ \E s \in Surveyor : c \in asked[s]
    /\ hung' = hung \cup {c}
    /\ UNCHANGED <<open, asked, verdict, missing>>

\* MakeSurvey returns nil or the errors it was sent: everyone is hung up.
ReportAll(s) ==
    /\ verdict[s] = "asking"
    /\ asked[s] \subseteq hung
    /\ \E v \in {"ok", "errors"} : verdict' = [verdict EXCEPT ![s] = v]
    /\ UNCHANGED <<open, hung, asked, missing>>

\* MakeSurvey returns a Missing error.
ReportMissing(s) ==
    /\ verdict[s] = "asking"
    /\ \E M \in (SUBSET asked[s]) \ {{}} :
          /\ asked[s] \ M \subseteq hung
          /\ missing' = [missing EXCEPT ![s] = M]
    /\ verdict' = [verdict EXCEPT ![s] = "missing"]
    /\ UNCHANGED <<open, hung, asked>>

\* The server stops and is started again: ClearRivers empties the bucket.
Restart ==
    /\ open' = {}
    /\ UNCHANGED <<hung, asked, verdict, missing>>

Next ==
    \/ Restart
    \/ \E c \in Conn : Connect(c) \/ Leave(c) \/ HangUp(c)
    \/ \E s \in Surveyor : Ask(s) \/ ReportAll(s) \/ ReportMissing(s)

Spec == Init /\ [][Next]_vars
=============================================================================
