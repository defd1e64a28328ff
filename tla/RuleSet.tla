-------------------------------- MODULE RuleSet --------------------------------
(***************************************************************************)
(* The routing rules (src/rules/rules.go): the command add-rule, which     *)
(* posts rules to the daemon, AddRule, which puts them into a slice, and   *)
(* Dial, which the proxies call to find the dialer of an address.  Nothing *)
(* locks the slice.                                                        *)
(*                                                                         *)
(* A slice is a pointer to an array and a length.  append loads both,      *)
(* copies the elements to a larger array when this one is full, and stores *)
(* first the pointer, then the length and last the element, in the order   *)
(* of the compiled code.  An element takes several stores; while they are  *)
(* under way the slot holds Half.  What a goroutine gets that reads such a *)
(* slot, or memory behind the array, is not defined by the language: it    *)
(* ends "torn", whether it panics or goes on with a rule nobody added.     *)
(***************************************************************************)
EXTENDS Naturals, Sequences, FiniteSets

CONSTANTS
    Commands,       \* add-rule commands, each a process of its own
    Conns,          \* connections a proxy has accepted, each with a goroutine
    Width,          \* bits of an address, 32 in the code
    Destinations,   \* the addresses that are dialled
    CommandLines,   \* the lists of CIDRs a command can be called with
    DialerFlags,    \* values of its flag -dialer; "empty" is the empty string
    AtOnce          \* bound: the add-rule commands at work at a time

Addresses == 0 .. 2^Width - 1

\* A CIDR as it is typed: without a slash there are no bits to look at.
WireCIDRs == [ip : Addresses, slash : BOOLEAN, bits : 0 .. Width + 1]

ASSUME RuleSetAssumption ==
    /\ IsFiniteSet(Commands) /\ Width \in Nat /\ AtOnce \in Nat
    /\ Commands \cap Conns = {} /\ Destinations \subseteq Addresses
    /\ CommandLines \subseteq Seq(WireCIDRs) /\ <<>> \notin CommandLines

Goroutines == Commands \cup Conns

(***************************************************************************)
(* Rules                                                                   *)
(***************************************************************************)
DialerName(f) == IF f = "empty" THEN "default" ELSE f
Names == {DialerName(f) : f \in DialerFlags}

\* The first address of the network of ip.
Network(ip, bits) == (ip \div 2^(Width - bits)) * 2^(Width - bits)
Rules == {r \in [net : Addresses, bits : 0 .. Width, dialer : Names] :
              Network(r.net, r.bits) = r.net}
Half == [net |-> 0, bits |-> Width + 1, dialer |-> "half"]

\* UnMarshall.  An address without a slash is a network of one address, and
\* ParseCIDR clears the bits of the address that the mask does not cover.
Mask(w) == IF w.slash THEN w.bits ELSE Width
Parses(w) == Mask(w) <= Width
UnMarshall(w, f) ==
    [net |-> Network(w.ip, Mask(w)), bits |-> Mask(w),
     dialer |-> DialerName(f)]

SameCIDR(r, s) == r.net = s.net /\ r.bits = s.bits
Contains(r, ip) == Network(ip, r.bits) = r.net

VARIABLES
    heap,           \* the arrays that were allocated
    ptr, len,       \* rs.Rules: index of its array in heap (0 is nil), length
    pc,             \* of each goroutine: the next step
    args, flag,     \* of each command: the CIDRs not yet posted, its flag
    rule,           \* the rule AddRule was called with
    arr, num, idx,  \* loaded array and length, and the index at work
    addr, answer    \* of each connection: its destination, and Dial's choice

slice == <<heap, ptr, len>>
command == <<args, flag, rule>>
locals == <<arr, num, idx>>
conn == <<addr, answer>>
vars == <<slice, pc, command, locals, conn>>

None == 2^Width             \* an address that does not resolve
Slot(a, i) == heap[a][i]
Written(a, i) == a # 0 /\ i <= Len(heap[a]) /\ Slot(a, i) # Half
Cap(a) == IF a = 0 THEN 0 ELSE Len(heap[a])

Init ==
    /\ heap = <<>> /\ ptr = 0 /\ len = 0
    /\ pc = [g \in Goroutines |-> "idle"]
    /\ args = [c \in Commands |-> <<>>] /\ flag = [c \in Commands |-> "empty"]
    /\ rule = [c \in Commands |-> Half]
    /\ arr = [g \in Goroutines |-> 0] /\ num = [g \in Goroutines |-> 0]
    /\ idx = [g \in Goroutines |-> 0]
    /\ addr = [d \in Conns |-> None] /\ answer = [d \in Conns |-> "none"]

Goto(g, step) == pc' = [pc EXCEPT ![g] = step]

(***************************************************************************)
(* The range loop of AddRule and of Dial loads pointer and length once and *)
(* the elements one by one.                                                *)
(***************************************************************************)
LoadPtr(g) ==
    /\ pc[g] = "load_ptr"
    /\ arr' = [arr EXCEPT ![g] = ptr]
    /\ Goto(g, "load_len")
    /\ UNCHANGED <<slice, command, num, idx, conn>>
LoadLen(g) ==
    /\ pc[g] = "load_len"
    /\ num' = [num EXCEPT ![g] = len] /\ idx' = [idx EXCEPT ![g] = 1]
    /\ Goto(g, "scan")
    /\ UNCHANGED <<slice, command, arr, conn>>

Scanning(g) == pc[g] = "scan" /\ idx[g] <= num[g]
Scanned(g) == pc[g] = "scan" /\ idx[g] > num[g]
Element(g) == Slot(arr[g], idx[g])
IsWritten(g) == Written(arr[g], idx[g])
Advance(g) == idx' = [idx EXCEPT ![g] = @ + 1]
Restart(g) ==
    /\ arr' = [arr EXCEPT ![g] = 0] /\ num' = [num EXCEPT ![g] = 0]
    /\ idx' = [idx EXCEPT ![g] = 0]

(***************************************************************************)
(* add-rule and AddRule                                                    *)
(***************************************************************************)
AtWork == {c \in Commands : pc[c] \notin {"idle", "end", "torn"}}

\* The command is called with a list of CIDRs.
Execute(c) ==
    /\ pc[c] = "idle" /\ Cardinality(AtWork) < AtOnce
    /\ \E l \in CommandLines, f \in DialerFlags :
           args' = [args EXCEPT ![c] = l] /\ flag' = [flag EXCEPT ![c] = f]
    /\ Goto(c, "post")
    /\ UNCHANGED <<slice, rule, locals, conn>>

\* The handler parses the rule.  A rule that does not parse is not added, and
\* the response is as empty as that of one that was.
Post(c) ==
    /\ pc[c] = "post"
    /\ args' = [args EXCEPT ![c] = Tail(@)]
    /\ LET w == Head(args[c]) IN
       IF Parses(w)
       THEN rule' = [rule EXCEPT ![c] = UnMarshall(w, flag[c])]
            /\ Goto(c, "load_ptr")
       ELSE Goto(c, "response") /\ UNCHANGED rule
    /\ UNCHANGED <<slice, flag, locals, conn>>

\* PostJSON decodes the empty response into nil: an error.  The command gives
\* up the CIDRs that are left.
Response(c) ==
    /\ pc[c] = "response"
    /\ Goto(c, "end")
    /\ flag' = [flag EXCEPT ![c] = "empty"] /\ rule' = [rule EXCEPT ![c] = Half]
    /\ Restart(c)
    /\ UNCHANGED <<slice, args, conn>>

\* Fault: the loop stops at the last rule without looking at it.
FoundBeforeLast(c) ==
    idx[c] < num[c] /\ IsWritten(c) /\ SameCIDR(Element(c), rule[c])
Found(c) == IsWritten(c) /\ SameCIDR(Element(c), rule[c])

\* An unwritten slot has a nil network, which is like no other; a read behind
\* the array is torn.
ScanRule(c) ==
    /\ Scanning(c)
    /\ IF idx[c] > Cap(arr[c])
       THEN Goto(c, "torn") /\ UNCHANGED idx
       ELSE IF Found(c)
       THEN Goto(c, "replace") /\ UNCHANGED idx
       ELSE Advance(c) /\ UNCHANGED pc
    /\ UNCHANGED <<slice, command, arr, num, conn>>
ScannedRules(c) ==
    /\ Scanned(c)
    /\ Goto(c, "append")
    /\ UNCHANGED <<slice, command, locals, conn>>

\* rs.Rules[i] = rule: the slice is loaded once more.
Replace(c) ==
    /\ pc[c] = "replace"
    /\ arr' = [arr EXCEPT ![c] = ptr]
    /\ Goto(c, "element")
    /\ UNCHANGED <<slice, command, num, idx, conn>>

\* append.  The capacity doubles when the array is full.
Grown(a, n) == [i \in 1 .. (IF n = 0 THEN 1 ELSE 2 * n) |->
                    IF i <= n THEN Slot(a, i) ELSE Half]
AppendRule(c) ==
    /\ pc[c] = "append"
    /\ num' = [num EXCEPT ![c] = len] /\ idx' = [idx EXCEPT ![c] = len + 1]
    /\ IF len < Cap(ptr)
       THEN /\ arr' = [arr EXCEPT ![c] = ptr]
            /\ Goto(c, "store_len") /\ UNCHANGED heap
       ELSE /\ heap' = Append(heap, Grown(ptr, len))
            /\ arr' = [arr EXCEPT ![c] = Len(heap) + 1]
            /\ Goto(c, "store_ptr")
    /\ UNCHANGED <<ptr, len, command, conn>>
StorePtr(c) ==
    /\ pc[c] = "store_ptr"
    /\ ptr' = arr[c]
    /\ Goto(c, "store_len")
    /\ UNCHANGED <<heap, len, command, locals, conn>>
StoreLen(c) ==
    /\ pc[c] = "store_len"
    /\ len' = idx[c]
    /\ Goto(c, "element")
    /\ UNCHANGED <<heap, ptr, command, locals, conn>>

\* The stores of the element: the first and the last of them.
StoreElement(c) ==
    /\ pc[c] = "element"
    /\ heap' = [heap EXCEPT ![arr[c]][idx[c]] = Half]
    /\ Goto(c, "stored")
    /\ UNCHANGED <<ptr, len, command, locals, conn>>
Stored(c) ==
    /\ pc[c] = "stored"
    /\ heap' = [heap EXCEPT ![arr[c]][idx[c]] = rule[c]]
    /\ Goto(c, "response")
    /\ UNCHANGED <<ptr, len, command, locals, conn>>

(***************************************************************************)
(* Dial                                                                    *)
(***************************************************************************)
\* An address that does not resolve is dialled without the rules.
Dial(d) ==
    /\ pc[d] = "idle"
    /\ \E a \in Destinations \cup {None} :
          /\ addr' = [addr EXCEPT ![d] = a]
          /\ IF a = None
             THEN answer' = [answer EXCEPT ![d] = "direct"] /\ Goto(d, "end")
             ELSE Goto(d, "load_ptr") /\ UNCHANGED answer
    /\ UNCHANGED <<slice, command, locals>>

Return(d, name) ==
    /\ answer' = [answer EXCEPT ![d] = name]
    /\ Goto(d, IF name = "torn" THEN "torn" ELSE "end")
    /\ Restart(d)

\* Fault: the rules are tried from the last to the first.
LastElement(d) ==
    LET i == num[d] + 1 - idx[d] IN
    IF Written(arr[d], i) THEN Slot(arr[d], i) ELSE Element(d)
Tried(d) == Element(d)
ScanDialer(d) ==
    /\ Scanning(d)
    /\ IF ~IsWritten(d) THEN Return(d, "torn")
       ELSE IF Contains(Tried(d), addr[d]) THEN Return(d, Tried(d).dialer)
       ELSE Advance(d) /\ UNCHANGED <<pc, arr, num, answer>>
    /\ UNCHANGED <<slice, command, addr>>
DialDirect(d) ==
    /\ Scanned(d) /\ Return(d, "direct")
    /\ UNCHANGED <<slice, command, addr>>

CommandNext(c) ==
    \/ Execute(c) \/ Post(c) \/ Response(c)
    \/ LoadPtr(c) \/ LoadLen(c) \/ ScanRule(c) \/ ScannedRules(c)
    \/ Replace(c) \/ AppendRule(c) \/ StorePtr(c) \/ StoreLen(c)
    \/ StoreElement(c) \/ Stored(c)
DialNext(d) ==
    \/ Dial(d) \/ LoadPtr(d) \/ LoadLen(d) \/ ScanDialer(d) \/ DialDirect(d)

Next == (\E c \in Commands : CommandNext(c)) \/ (\E d \in Conns : DialNext(d))
Spec == Init /\ [][Next]_vars
================================================================================
