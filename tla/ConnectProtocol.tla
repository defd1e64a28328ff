---------------------------- MODULE ConnectProtocol ----------------------------
(***************************************************************************)
(* What POST /api/ssh/connect promises its clients of one connection       *)
(* attempt (ConnectStatus in src/control/api.go, the switch in             *)
(* src/commands/connect.go): the attempt works, asks, works on, and ends   *)
(* once.  "succeeded" means that the tunnel's client is in place, "failed" *)
(* that there is none, and neither is ever taken back.                     *)
(***************************************************************************)
VARIABLES
    phase,      \* "working", a question, or the result
    connected   \* a client has been stored for the dialer

Questions == {"need_passphrase", "unknown_host_key"}

Init == phase = "working" /\ ~connected

Ask ==
    /\ phase = "working" /\ ~connected
    /\ phase' \in Questions
    /\ UNCHANGED connected

Answered ==
    /\ phase \in Questions
    /\ phase' = "working"
    /\ UNCHANGED connected

Establish ==
    /\ phase = "working" /\ ~connected
    /\ connected' = TRUE
    /\ UNCHANGED phase

Succeed ==
    /\ phase = "working" /\ connected
    /\ phase' = "succeeded"
    /\ UNCHANGED connected

Fail ==
    /\ phase = "working" /\ ~connected
    /\ phase' = "failed"
    /\ UNCHANGED connected

Next == Ask \/ Answered \/ Establish \/ Succeed \/ Fail

Spec == Init /\ [][Next]_<<phase, connected>>
================================================================================
