---------------------------- MODULE PmonPromise ----------------------------
(***************************************************************************)
(* What `nvidia-smi pmon` promises whoever reads its answer: for each GPU  *)
(* the whole table of one moment since the question was asked (the moments *)
(* of two GPUs may differ), or an error.  Never half of a table, never a   *)
(* mixture of two, and nothing from before the question.                   *)
(***************************************************************************)
CONSTANT GPU

VARIABLES
    table,      \* per GPU: what pmon should list, now
    phase,      \* "idle", or "asked" while a question is open
    recent,     \* per GPU: its tables since the question
    answer      \* the answer, between two questions

Error == [ok |-> FALSE, rows |-> [g \in GPU |-> <<>>]]

Init == phase = "idle" /\ recent = [g \in GPU |-> {}] /\ answer = Error

Change ==
    /\ table' # table
    /\ recent' = IF phase = "asked"
                   THEN [g \in GPU |-> recent[g] \cup {table'[g]}] ELSE recent
    /\ UNCHANGED <<phase, answer>>

Ask ==
    /\ phase = "idle"
    /\ phase' = "asked"
    /\ recent' = [g \in GPU |-> {table[g]}]
    /\ answer' = Error
    /\ UNCHANGED table

Answer ==
    /\ phase = "asked"
    /\ phase' = "idle"
    /\ answer'.ok => \A g \in GPU : answer'.rows[g] \in recent[g]
    /\ recent' = [g \in GPU |-> {}]
    /\ UNCHANGED table

Next == Change \/ Ask \/ Answer

Spec == Init /\ [][Next]_<<table, phase, recent, answer>>
=============================================================================
