---------------------------- MODULE RuleSetHistory ----------------------------
(***************************************************************************)
(* RuleSet with two history variables, and what the rule list promises     *)
(* whoever adds rules and whoever dials.  table is the list as the comment *)
(* of AddRule describes it; seen holds what a Dial that is under way could *)
(* have answered at some instant since it was called.                      *)
(***************************************************************************)
EXTENDS RuleSet

VARIABLES
    table,  \* the rules added so far, each CIDR once, in order of arrival
    seen    \* of each connection: the answers table gave since the call

hvars == <<vars, table, seen>>

\* "If the CIDR range is already part if the RuleSet, the existing rule will be
\* replaced."
Put(t, r) ==
    IF \E i \in 1 .. Len(t) : SameCIDR(t[i], r)
    THEN [i \in 1 .. Len(t) |-> IF SameCIDR(t[i], r) THEN r ELSE t[i]]
    ELSE Append(t, r)

\* "Dial uses the dialer of the first matching rule."
FirstMatch(t, a) ==
    LET hits == {i \in 1 .. Len(t) : Contains(t[i], a)} IN
    IF hits = {} THEN "direct"
    ELSE t[CHOOSE i \in hits : \A j \in hits : i <= j].dialer

HInit == Init /\ table = <<>> /\ seen = [d \in Conns |-> {}]

\* A rule counts as added when the last store of AddRule is done.
Record ==
    /\ table' = IF \E c \in Commands : pc[c] = "stored" /\ pc'[c] # "stored"
                THEN LET c == CHOOSE x \in Commands :
                                  pc[x] = "stored" /\ pc'[x] # "stored"
                     IN Put(table, rule[c])
                ELSE table
    /\ seen' = [d \in Conns |->
                   IF pc'[d] = "idle" \/ addr'[d] = None
                   THEN {} ELSE IF pc[d] = "end" THEN seen[d]
                   ELSE seen[d] \cup {FirstMatch(table', addr'[d])}]

HNext == Next /\ Record
HSpec == HInit /\ [][HNext]_hvars

(***************************************************************************)
(* Properties                                                              *)
(***************************************************************************)
\* AddRule (rules.go:58): as long as one command adds rules at a time, the list
\* that Dial will load is the table, order included, whatever is replaced,
\* appended or copied to a larger array meanwhile.
Storing == \E c \in Commands : pc[c] \in {"store_len", "element", "stored"}
RuleList == IF ptr = 0 THEN <<>> ELSE SubSeq(heap[ptr], 1, len)
ListIsTable == ~Storing => RuleList = table

\* Dial (rules.go:86) loads the slice once and its elements later, possibly from
\* an array that append has replaced since.  Still, unless it meets a slot that
\* is being written, it answers what the first matching rule said at one
\* instant of the call.
DialAnswersFirstMatch ==
    \A d \in Conns : pc[d] = "end" /\ addr[d] # None => answer[d] \in seen[d]
================================================================================
