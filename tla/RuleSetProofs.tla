----------------------------- MODULE RuleSetProofs -----------------------------
(***************************************************************************)
(* The rule list for any rules, any number of commands and connections and *)
(* arrays of any size, as long as one command adds rules at a time: the    *)
(* proofs of ListIsTable and DialAnswersFirstMatch.                        *)
(***************************************************************************)
EXTENDS RuleSetHistory, FiniteSetTheorems, SequenceTheorems, TLAPS

(***************************************************************************)
(* The types                                                               *)
(***************************************************************************)
\* The rules that AddRule can be called with, and what a slot can hold.
Added ==
    {UnMarshall(w, f) : w \in WireCIDRs, f \in DialerFlags \cup {"empty"}} \ {Half}
Slots == Added \cup {Half}

Adding == {"load_ptr", "load_len", "scan", "append", "replace", "store_ptr", "store_len",
           "element", "stored"}
Steps == Adding \cup {"idle", "post", "response", "end", "torn"}

SliceType ==
    /\ heap \in Seq(Seq(Slots)) /\ ptr \in 0..Len(heap) /\ len \in Nat
    /\ table \in Seq(Added)
LocalType ==
    /\ pc \in [Goroutines -> Steps]
    /\ args \in [Commands -> Seq(WireCIDRs)]
    /\ flag \in [Commands -> DialerFlags \cup {"empty"}]
    /\ rule \in [Commands -> Slots]
    /\ arr \in [Goroutines -> Nat] /\ \A g \in Goroutines : arr[g] <= Len(heap)
    /\ num \in [Goroutines -> Nat] /\ idx \in [Goroutines -> Nat]
    /\ DOMAIN addr = Conns /\ DOMAIN answer = Conns /\ DOMAIN seen = Conns
    /\ \A c \in Commands : /\ pc[c] = "post" => args[c] # <<>>
                           /\ pc[c] \in Adding => rule[c] \in Added
TypeInv == SliceType /\ LocalType /\ \A c, e \in AtWork : c = e

(***************************************************************************)
(* The list and who adds to it                                             *)
(***************************************************************************)
\* The array of the list holds the rules of the table, except for the one that is
\* being replaced, and nothing behind them.
ListInv ==
    /\ Len(table) <= len /\ len <= Cap(ptr)
    /\ \A i \in 1..Len(table) :
          \/ Slot(ptr, i) = table[i]
          \/ Slot(ptr, i) = Half /\ \E c \in Commands : pc[c] = "stored" /\ idx[c] = i
    /\ \A i \in Len(table) + 1..Cap(ptr) : Slot(ptr, i) = Half
    /\ \A i, j \in 1..Len(table) : SameCIDR(table[i], table[j]) => i = j
    /\ (\A c \in Commands : pc[c] \notin {"element", "stored"}) => len = Len(table)

\* No rule of the table has the CIDR of the one that is added.
IsNew(c) == \A i \in 1..Len(table) : ~SameCIDR(table[i], rule[c])
WriterInv(c) ==
    /\ pc[c] \in {"load_len", "scan", "store_len", "element", "stored"} => arr[c] = ptr
    /\ pc[c] = "scan" => /\ num[c] = len /\ idx[c] \in 1..(len + 1)
                         /\ \A i \in 1..(idx[c] - 1) : ~SameCIDR(table[i], rule[c])
    /\ pc[c] = "replace" => idx[c] \in 1..Len(table) /\ SameCIDR(table[idx[c]], rule[c])
    /\ pc[c] \in {"append", "store_ptr", "store_len"} => IsNew(c)
    /\ pc[c] \in {"store_ptr", "store_len"} => idx[c] = len + 1
    /\ pc[c] = "store_ptr" =>
          /\ arr[c] # ptr /\ arr[c] # 0 /\ \A d \in Conns : arr[d] # arr[c]
          /\ Cap(ptr) = len /\ len < Cap(arr[c])
          /\ \A i \in 1..len : Slot(arr[c], i) = table[i]
          /\ \A i \in (len + 1)..Cap(arr[c]) : Slot(arr[c], i) = Half
    /\ pc[c] = "store_len" => len < Cap(ptr)
    /\ pc[c] \in {"element", "stored"} =>
          \/ /\ len = Len(table) /\ idx[c] \in 1..len
             /\ SameCIDR(table[idx[c]], rule[c])
          \/ len = Len(table) + 1 /\ idx[c] = len /\ IsNew(c)
    /\ pc[c] = "stored" => Slot(ptr, idx[c]) = Half

(***************************************************************************)
(* Who dials                                                               *)
(***************************************************************************)
\* What a Dial reads its rules from: the table, as long as its array is that of the
\* list, and the array as append has left it afterwards.
InView(d, i) == i \in 1..(IF arr[d] = ptr THEN Len(table) ELSE Cap(arr[d]))
RuleAt(d, i) == IF arr[d] = ptr THEN table[i] ELSE Slot(arr[d], i)
Has(d, i) == InView(d, i) /\ Contains(RuleAt(d, i), addr[d])

\* An array that was left is full of rules, and the dialer of its first match is
\* an answer that the table has given.  A Dial will find a match among the rules it
\* is about to look at, unless the table has had none meanwhile; it has found none
\* among those that it has looked at.
LeftInv(d) ==
    arr[d] # ptr =>
        /\ \A i \in 1..Cap(arr[d]) : Slot(arr[d], i) # Half
        /\ \A j \in 1..Cap(arr[d]) :
              Has(d, j) /\ (\A i \in 1..(j - 1) : ~Has(d, i)) =>
                  RuleAt(d, j).dialer \in seen[d]
ReaderInv(d) ==
    /\ pc[d] \in {"load_ptr", "load_len", "scan"} =>
          addr[d] # None /\ FirstMatch(table, addr[d]) \in seen[d]
    /\ pc[d] \in {"load_len", "scan"} =>
          /\ LeftInv(d)
          /\ \/ "direct" \in seen[d]
             \/ \E i \in 1..(IF pc[d] = "scan" THEN num[d] ELSE len) : Has(d, i)
    /\ pc[d] = "scan" =>
          idx[d] # 0 /\ \A i \in 1..(idx[d] - 1) : InView(d, i) /\ ~Has(d, i)
    /\ pc[d] = "end" /\ addr[d] # None => answer[d] \in seen[d]

RuleSetInv ==
    /\ TypeInv /\ ListInv
    /\ \A c \in Commands : WriterInv(c)
    /\ \A d \in Conns : ReaderInv(d)

(***************************************************************************)
(* The operators                                                           *)
(***************************************************************************)
\* A store to a slot changes this slot and nothing else.
LEMMA SetSlot ==
    ASSUME NEW S, NEW h \in Seq(Seq(S)), NEW a \in 1..Len(h), NEW i \in 1..Len(h[a]),
           NEW v \in S, NEW n, n = [h EXCEPT ![a][i] = v]
    PROVE  /\ n \in Seq(Seq(S)) /\ Len(n) = Len(h)
           /\ \A b \in 1..Len(h) : Len(n[b]) = Len(h[b])
           /\ \A b \in 1..Len(h) : \A j \in 1..Len(h[b]) :
                 n[b][j] = IF b = a /\ j = i THEN v ELSE h[b][j]
<1> DEFINE s == [h[a] EXCEPT ![i] = v]
<1>1. h[a] \in Seq(S)
  OBVIOUS
<1>2. s \in Seq(S) /\ Len(s) = Len(h[a])
      /\ \A j \in 1..Len(h[a]) : s[j] = IF j = i THEN v ELSE h[a][j]
  BY <1>1
<1>3. n = [b \in 1..Len(h) |-> IF b = a THEN s ELSE h[b]]
  <2>1. n = [h EXCEPT ![a] = s]
    OBVIOUS
  <2>2. DOMAIN h = 1..Len(h)
    OBVIOUS
  <2> HIDE DEF s
  <2>3. n = [b \in DOMAIN h |-> IF b = a THEN s ELSE h[b]]
    BY <2>1, Zenon
  <2> QED
    BY <2>2, <2>3, Zenon
<1> HIDE DEF s
<1>4. \A b \in 1..Len(h) : (IF b = a THEN s ELSE h[b]) \in Seq(S)
  BY <1>2
<1>5. n \in Seq(Seq(S)) /\ Len(n) = Len(h)
  BY <1>3, <1>4
<1>6. \A b \in 1..Len(h) : n[b] = IF b = a THEN s ELSE h[b]
  BY <1>3
<1> QED
  BY <1>2, <1>5, <1>6

\* A fresh array is the last one of the heap and leaves the others alone.
LEMMA NewArray ==
    ASSUME NEW S, NEW h \in Seq(Seq(S)), NEW s \in Seq(S), NEW n, n = Append(h, s)
    PROVE  /\ n \in Seq(Seq(S)) /\ Len(n) = Len(h) + 1 /\ n[Len(h) + 1] = s
           /\ \A b \in 1..Len(h) : n[b] = h[b]
  OBVIOUS

\* UnMarshall makes a rule of every CIDR that parses.
LEMMA RuleIsAdded ==
    ASSUME NEW w \in WireCIDRs, NEW f \in DialerFlags \cup {"empty"}, Parses(w),
           Width \in Nat
    PROVE  UnMarshall(w, f) \in Added
<1>1. Mask(w) <= Width /\ Mask(w) \in Nat
  BY DEF Parses, Mask, WireCIDRs
<1>2. UnMarshall(w, f).bits # Half.bits
  BY <1>1 DEF UnMarshall, Half
<1> QED
  BY <1>2 DEF Added

\* A slot that is being written holds no rule.
LEMMA HalfIsNotAdded == Half \notin Added /\ Half \in Slots /\ Added \subseteq Slots
  BY DEF Added, Slots

\* Rules with one CIDR match the same addresses.
LEMMA SameCIDRMatches ==
    ASSUME NEW r, NEW s, NEW a, SameCIDR(r, s)
    PROVE  Contains(r, a) = Contains(s, a)
  BY DEF SameCIDR, Contains

\* The first match, once it is known (Dial returns at it).
LEMMA FirstMatchIs ==
    ASSUME NEW t, Len(t) \in Nat, NEW a, NEW j \in 1..Len(t), Contains(t[j], a),
           \A i \in 1..(j - 1) : ~Contains(t[i], a)
    PROVE  FirstMatch(t, a) = t[j].dialer
<1> DEFINE hits == {i \in 1..Len(t) : Contains(t[i], a)}
<1>1. j \in hits /\ \A k \in hits : j <= k
  <2>1. j \in hits
    OBVIOUS
  <2>2. ASSUME NEW k \in hits, k < j PROVE FALSE
    <3>1. k \in 1..(j - 1)
      BY <2>2
    <3> QED
      BY <2>2, <3>1
  <2> QED
    BY <2>1, <2>2
<1>2. \A k \in hits : k \in Int
  OBVIOUS
<1> HIDE DEF hits
<1> DEFINE first == CHOOSE i \in hits : \A k \in hits : i <= k
<1>3. first \in hits /\ \A k \in hits : first <= k
  BY <1>1, Zenon
<1> HIDE DEF first
<1>4. first = j
  BY <1>1, <1>2, <1>3
<1> QED
  BY <1>1, <1>4 DEF FirstMatch, hits, first

\* Without a match Dial dials directly (rules.go).
LEMMA NoMatchIsDirect ==
    ASSUME NEW t, NEW a, \A i \in 1..Len(t) : ~Contains(t[i], a)
    PROVE  FirstMatch(t, a) = "direct"
  BY DEF FirstMatch

\* A rule with a CIDR of the table replaces that rule and nothing else.
LEMMA PutReplaces ==
    ASSUME NEW t \in Seq(Added), NEW r \in Added, NEW k \in 1..Len(t), SameCIDR(t[k], r),
           \A i, j \in 1..Len(t) : SameCIDR(t[i], t[j]) => i = j
    PROVE  /\ Put(t, r) \in Seq(Added) /\ Len(Put(t, r)) = Len(t)
           /\ \A i \in 1..Len(t) : Put(t, r)[i] = IF i = k THEN r ELSE t[i]
<1>1. \A i \in 1..Len(t) : SameCIDR(t[i], r) <=> i = k
  BY DEF SameCIDR
<1>2. Put(t, r) = [i \in 1..Len(t) |-> IF i = k THEN r ELSE t[i]]
  BY <1>1 DEF Put
<1> QED
  BY <1>2

\* A rule with a new CIDR goes to the end of the table.
LEMMA PutAppends ==
    ASSUME NEW t \in Seq(Added), NEW r \in Added,
           \A i \in 1..Len(t) : ~SameCIDR(t[i], r)
    PROVE  /\ Put(t, r) \in Seq(Added) /\ Len(Put(t, r)) = Len(t) + 1
           /\ \A i \in 1..Len(t) : Put(t, r)[i] = t[i]
           /\ Put(t, r)[Len(t) + 1] = r
<1>1. Put(t, r) = Append(t, r)
  BY DEF Put
<1> QED
  BY <1>1

(***************************************************************************)
(* Steps                                                                   *)
(***************************************************************************)
\* What a goroutine leaves alone: the other goroutines.
Frame(g) ==
    \A e \in Goroutines \ {g} :
        /\ pc'[e] = pc[e] /\ arr'[e] = arr[e] /\ num'[e] = num[e] /\ idx'[e] = idx[e]

\* A step of add-rule or AddRule is one of its own goroutine.
LEMMA CommandFrame ==
    ASSUME TypeInv, NEW c \in Commands, CommandNext(c)
    PROVE  /\ Frame(c) /\ UNCHANGED conn
           /\ \A e \in Commands \ {c} :
                 args'[e] = args[e] /\ flag'[e] = flag[e] /\ rule'[e] = rule[e]
<1> USE DEF Frame, TypeInv, SliceType, LocalType, Goroutines, slice, command,
            locals, conn, Goto, Restart, Advance
<1>1. CASE Execute(c)
  BY <1>1 DEF Execute
<1>2. CASE Post(c)
  BY <1>2 DEF Post
<1>3. CASE Response(c)
  BY <1>3 DEF Response
<1>4. CASE LoadPtr(c) \/ LoadLen(c)
  BY <1>4 DEF LoadPtr, LoadLen
<1>5. CASE ScanRule(c) \/ ScannedRules(c)
  BY <1>5 DEF ScanRule, ScannedRules
<1>6. CASE Replace(c) \/ AppendRule(c)
  BY <1>6 DEF Replace, AppendRule
<1>7. CASE StorePtr(c) \/ StoreLen(c)
  BY <1>7 DEF StorePtr, StoreLen
<1>8. CASE StoreElement(c) \/ Stored(c)
  BY <1>8 DEF StoreElement, Stored
<1> QED
  BY <1>1, <1>2, <1>3, <1>4, <1>5, <1>6, <1>7, <1>8 DEF CommandNext

\* Dial writes nothing that is shared.
LEMMA DialFrame ==
    ASSUME TypeInv, NEW d \in Conns, DialNext(d)
    PROVE  /\ Frame(d) /\ UNCHANGED <<heap, ptr, len, args, flag, rule>>
           /\ \A e \in Conns \ {d} : addr'[e] = addr[e] /\ answer'[e] = answer[e]
<1> USE DEF Frame, TypeInv, SliceType, LocalType, Goroutines, slice, command,
            locals, conn, Goto, Restart, Advance, Return
<1>1. CASE Dial(d)
  BY <1>1 DEF Dial
<1>2. CASE LoadPtr(d) \/ LoadLen(d)
  BY <1>2 DEF LoadPtr, LoadLen
<1>3. CASE ScanDialer(d)
  BY <1>3 DEF ScanDialer
<1>4. CASE DialDirect(d)
  BY <1>4 DEF DialDirect
<1> QED
  BY <1>1, <1>2, <1>3, <1>4 DEF DialNext

\* While one command is at work, or starts, no other one is.
LEMMA Alone ==
    ASSUME AtOnce = 1, TypeInv, NEW c \in Commands, CommandNext(c), NEW e \in Commands \ {c}
    PROVE  pc[e] \in {"idle", "end", "torn"}
<1>1. CASE Execute(c)
  <2>1. IsFiniteSet(AtWork)
    BY RuleSetAssumption, FS_Subset DEF AtWork
  <2>2. AtWork = {}
    BY <1>1, <2>1, FS_CardinalityType, FS_EmptySet DEF Execute
  <2> QED
    BY <2>2 DEF AtWork
<1>2. CASE ~Execute(c)
  <2>1. pc[c] \notin {"idle", "end", "torn"}
    BY <1>2 DEF CommandNext, Post, Response, LoadPtr, LoadLen, ScanRule, Scanning,
                ScannedRules, Scanned, Replace, AppendRule, StorePtr, StoreLen, StoreElement,
                Stored
  <2>2. \A x, y \in AtWork : x = y
    BY DEF TypeInv, SliceType, LocalType
  <2> QED
    BY <2>1, <2>2 DEF AtWork
<1> QED
  BY <1>1, <1>2

\* A command records its rule with the last store, and no other step changes the
\* table.
LEMMA TableStep ==
    ASSUME TypeInv, Record, NEW c \in Commands, CommandNext(c)
    PROVE  /\ pc[c] # "stored" => table' = table
           /\ Stored(c) => table' = Put(table, rule[c])
<1> DEFINE P(x) == pc[x] = "stored" /\ pc'[x] # "stored"
<1>1. \A x \in Commands \ {c} : ~P(x)
  BY CommandFrame DEF Frame, Goroutines
<1>2. ASSUME pc[c] # "stored" PROVE table' = table
  BY <1>1, <1>2 DEF Record
<1>3. ASSUME Stored(c) PROVE table' = Put(table, rule[c])
  <2>1. P(c)
    BY <1>3 DEF Stored, Goto, TypeInv, SliceType, LocalType, Goroutines
  <2> HIDE DEF P
  <2>2. (CHOOSE x \in Commands : P(x)) = c
    BY <1>1, <2>1
  <2> QED
    BY <2>1, <2>2 DEF Record, P
<1> QED
  BY <1>2, <1>3

\* Nor does it add a rule.
LEMMA DialTable ==
    ASSUME TypeInv, Record, NEW d \in Conns, DialNext(d)
    PROVE  table' = table
<1>1. \A x \in Commands : pc'[x] = pc[x]
  BY DialFrame, RuleSetAssumption DEF Frame, Goroutines
<1> QED
  BY <1>1 DEF Record

\* Every step of anyone records what the table says to a Dial that is under way.
LEMMA SeenStep ==
    ASSUME Record, NEW d \in Conns, pc'[d] # "idle", addr'[d] # None
    PROVE  /\ pc[d] = "end" => seen'[d] = seen[d]
           /\ pc[d] # "end" => seen'[d] = seen[d] \cup {FirstMatch(table', addr'[d])}
  BY DEF Record

(***************************************************************************)
(* A Dial while another goroutine makes a step                             *)
(***************************************************************************)
Kept(d) ==
    /\ pc'[d] = pc[d] /\ arr'[d] = arr[d] /\ num'[d] = num[d] /\ idx'[d] = idx[d]
    /\ addr'[d] = addr[d] /\ answer'[d] = answer[d]

\* A command leaves every Dial where it is.
LEMMA CommandKeeps ==
    ASSUME TypeInv, NEW c \in Commands, CommandNext(c), NEW d \in Conns
    PROVE  Kept(d)
  BY CommandFrame, RuleSetAssumption DEF Kept, Frame, Goroutines, conn

\* It is enough that the rules in view stay, that none of them starts or stops to
\* match, and that an array that is left is as it has to be.
LEMMA ReaderKept ==
    ASSUME TypeInv, Record, NEW d \in Conns, Kept(d), ReaderInv(d),
           len \in Nat, len' \in Nat, len <= len',
           pc[d] \in {"load_len", "scan"} =>
               /\ \A i \in Nat : InView(d, i) => InView(d, i)' /\ Has(d, i)' = Has(d, i)
               /\ LeftInv(d)'
    PROVE  ReaderInv(d)'
<1>1. /\ pc'[d] = pc[d] /\ arr'[d] = arr[d] /\ num'[d] = num[d] /\ idx'[d] = idx[d]
      /\ addr'[d] = addr[d] /\ answer'[d] = answer[d]
  BY DEF Kept
<1>2. num[d] \in Nat /\ idx[d] \in Nat
  BY DEF TypeInv, SliceType, LocalType, Goroutines
<1>3. pc[d] # "idle" /\ addr[d] # None =>
          /\ seen[d] \subseteq seen'[d]
          /\ pc[d] # "end" => FirstMatch(table', addr[d]) \in seen'[d]
  BY <1>1, SeenStep
<1>4. CASE pc[d] \in {"load_len", "scan"}
  <2>1. addr[d] # None /\ seen[d] \subseteq seen'[d]
        /\ FirstMatch(table', addr[d]) \in seen'[d]
    BY <1>3, <1>4 DEF ReaderInv
  <2> DEFINE n == IF pc[d] = "scan" THEN num[d] ELSE len
             m == IF pc[d] = "scan" THEN num[d] ELSE len'
  <2>2. "direct" \in seen'[d] \/ \E i \in 1..m : Has(d, i)'
    <3>1. CASE "direct" \in seen[d]
      BY <2>1, <3>1
    <3>2. ASSUME NEW i \in 1..n, Has(d, i) PROVE Has(d, i)' /\ i \in 1..m
      <4>1. InView(d, i) /\ i \in Nat
        BY <3>2, <1>2 DEF Has
      <4> QED
        BY <3>2, <4>1, <1>2, <1>4
    <3>3. "direct" \in seen[d] \/ \E i \in 1..n : Has(d, i)
      BY <1>4 DEF ReaderInv
    <3> QED
      BY <3>1, <3>2, <3>3
  <2>3. pc[d] = "scan" =>
            idx[d] # 0 /\ \A i \in 1..(idx[d] - 1) : InView(d, i)' /\ ~Has(d, i)'
    <3>1. ASSUME pc[d] = "scan", NEW i \in 1..(idx[d] - 1)
          PROVE InView(d, i)' /\ ~Has(d, i)'
      <4>1. InView(d, i) /\ ~Has(d, i) /\ i \in Nat
        BY <3>1, <1>2 DEF ReaderInv
      <4> QED
        BY <4>1, <1>4
    <3> QED
      BY <3>1 DEF ReaderInv
  <2> HIDE DEF n
  <2> QED
    BY <1>1, <1>4, <2>1, <2>2, <2>3 DEF ReaderInv
<1>5. CASE pc[d] \notin {"load_len", "scan"}
  BY <1>1, <1>3, <1>5 DEF ReaderInv
<1> QED
  BY <1>4, <1>5

\* A step that changes neither the table nor an array that was left.
LEMMA ReaderQuiet ==
    ASSUME TypeInv, Record, NEW d \in Conns, Kept(d), ReaderInv(d),
           UNCHANGED <<ptr, table>>, len' \in Nat, len <= len',
           \A a \in 1..Len(heap) : a # ptr => heap'[a] = heap[a]
    PROVE  ReaderInv(d)'
<1>1. arr'[d] = arr[d] /\ addr'[d] = addr[d] /\ pc'[d] = pc[d]
  BY DEF Kept
<1>2. pc[d] \in {"load_len", "scan"} => seen[d] \subseteq seen'[d]
  BY <1>1, SeenStep DEF ReaderInv
<1>3. arr[d] \in 0..Len(heap) /\ Len(heap) \in Nat
  BY DEF TypeInv, SliceType, LocalType, Goroutines
<1>4. arr[d] # ptr => Cap(arr[d])' = Cap(arr[d])
                      /\ \A i \in Nat : Slot(arr[d], i)' = Slot(arr[d], i) \/ arr[d] = 0
  BY <1>1, <1>3 DEF Cap, Slot
<1>5. Cap(arr[d]) \in Nat /\ (arr[d] = 0 => Cap(arr[d]) = 0)
  BY <1>3 DEF Cap, TypeInv, SliceType, LocalType
<1>6. \A i \in Nat : InView(d, i)' = InView(d, i)
  BY <1>1, <1>4 DEF InView
<1>7. \A i \in Nat : InView(d, i) => RuleAt(d, i)' = RuleAt(d, i)
  BY <1>1, <1>4, <1>5 DEF InView, RuleAt
<1>8. \A i \in Nat : Has(d, i)' = Has(d, i)
  BY <1>1, <1>6, <1>7 DEF Has
<1>9. ASSUME pc[d] \in {"load_len", "scan"} PROVE LeftInv(d)'
  <2> SUFFICES ASSUME arr[d] # ptr PROVE LeftInv(d)'
    BY <1>1 DEF LeftInv
  <2>1. \A i \in 1..Cap(arr[d]) : i \in Nat /\ InView(d, i)
    BY <1>5 DEF InView
  <2>2. \A j \in 1..Cap(arr[d]) : \A i \in 1..(j - 1) : i \in Nat
    BY <1>5
  <2> QED
    BY <1>1, <1>2, <1>4, <1>5, <1>7, <1>8, <1>9, <2>1, <2>2 DEF LeftInv, ReaderInv
<1> QED
  BY <1>6, <1>8, <1>9, ReaderKept DEF TypeInv, SliceType, LocalType

\* StorePtr: the array that a Dial has loaded is left, full, with the rules of the
\* table.
LEMMA ReaderLeft ==
    ASSUME TypeInv, ListInv, Record, NEW c \in Commands, StorePtr(c), WriterInv(c),
           NEW d \in Conns, ReaderInv(d), table' = table, len = Len(table),
           \A i \in 1..Len(table) : Slot(ptr, i) = table[i]
    PROVE  ReaderInv(d)'
<1>1. CommandNext(c)
  BY DEF CommandNext
<1>2. arr'[d] = arr[d] /\ addr' = addr /\ pc'[d] = pc[d]
  BY <1>1, CommandFrame, RuleSetAssumption DEF Frame, Goroutines, conn
<1>3. /\ heap' = heap /\ len' = len /\ ptr' = arr[c] /\ arr[d] # ptr' /\ Cap(ptr) = len
      /\ ptr' # ptr
  BY DEF StorePtr, WriterInv
<1>4. pc[d] \in {"load_len", "scan"} =>
          /\ seen[d] \subseteq seen'[d] /\ FirstMatch(table, addr[d]) \in seen'[d]
  BY <1>2, SeenStep DEF ReaderInv
<1>5. /\ arr[d] \in 0..Len(heap) /\ Len(heap) \in Nat /\ len \in Nat
      /\ table \in Seq(Added) /\ heap \in Seq(Seq(Slots))
  BY DEF TypeInv, SliceType, LocalType, Goroutines
<1>6. Cap(arr[d]) \in Nat
  BY <1>5 DEF Cap
<1>7. Cap(arr[d])' = Cap(arr[d]) /\ \A i \in Nat : Slot(arr[d], i)' = Slot(arr[d], i)
  BY <1>2, <1>3 DEF Cap, Slot
<1>8. \A i \in Nat : InView(d, i)' = InView(d, i)
  BY <1>2, <1>3, <1>7 DEF InView
<1>9. \A i \in Nat : InView(d, i) => RuleAt(d, i)' = RuleAt(d, i)
  BY <1>2, <1>3, <1>7 DEF InView, RuleAt
<1>10. \A i \in Nat : Has(d, i)' = Has(d, i)
  BY <1>2, <1>8, <1>9 DEF Has
<1>11. ASSUME pc[d] \in {"load_len", "scan"} PROVE LeftInv(d)'
  <2>1. \A i \in 1..Cap(arr[d]) : i \in Nat /\ InView(d, i)
    BY <1>3, <1>6 DEF InView
  <2>2. \A j \in 1..Cap(arr[d]) : \A i \in 1..(j - 1) : i \in Nat
    BY <1>6
  <2>3. CASE arr[d] # ptr
    BY <1>2, <1>4, <1>6, <1>7, <1>9, <1>10, <1>11, <2>1, <2>2, <2>3 DEF LeftInv, ReaderInv
  <2>4. CASE arr[d] = ptr
    <3>1. \A i \in 1..Cap(arr[d]) : Slot(arr[d], i)' # Half
      BY <1>3, <1>5, <1>7, <2>1, <2>4, HalfIsNotAdded
    <3>2. ASSUME NEW j \in 1..Cap(arr[d]), Has(d, j)', \A i \in 1..(j - 1) : ~Has(d, i)'
          PROVE  RuleAt(d, j)'.dialer \in seen'[d]
      <4>1. j \in 1..Len(table) /\ Len(table) \in Nat
        BY <1>3, <1>5, <2>4
      <4>2. RuleAt(d, j)' = table[j]
        BY <1>9, <2>1, <2>4 DEF RuleAt
      <4>3. Contains(table[j], addr[d])
        BY <1>10, <2>1, <2>4, <3>2 DEF Has, RuleAt
      <4>4. \A i \in 1..(j - 1) : ~Contains(table[i], addr[d])
        <5>1. \A i \in 1..(j - 1) : i \in 1..Cap(arr[d]) /\ i \in Nat
          BY <4>1, <1>3, <2>4
        <5> QED
          BY <1>10, <2>1, <2>4, <3>2, <5>1 DEF Has, RuleAt
      <4> HIDE DEF LeftInv
      <4>5. FirstMatch(table, addr[d]) = table[j].dialer
        BY <4>1, <4>3, <4>4, FirstMatchIs
      <4> QED
        BY <4>2, <4>5, <1>4, <1>11
    <3> QED
      BY <1>2, <1>7, <3>1, <3>2 DEF LeftInv
  <2> QED
    BY <2>3, <2>4
<1> QED
  BY <1>1, <1>3, <1>5, <1>8, <1>10, <1>11, CommandKeeps, ReaderKept

\* Stored: a rule of the table gets another dialer, or the table a rule more.
LEMMA ReaderStored ==
    ASSUME TypeInv, Record, NEW c \in Commands, CommandNext(c), NEW d \in Conns,
           ReaderInv(d), UNCHANGED <<ptr, len>>,
           \A a \in 1..Len(heap) : a # ptr => heap'[a] = heap[a],
           Len(table) \in Nat, Len(table') \in Nat, Len(table) <= Len(table'),
           \A i \in 1..Len(table) : table'[i] = table[i] \/ SameCIDR(table[i], table'[i])
    PROVE  ReaderInv(d)'
<1>1. arr'[d] = arr[d] /\ addr' = addr /\ pc'[d] = pc[d]
  BY CommandFrame, RuleSetAssumption DEF Frame, Goroutines, conn
<1>2. pc[d] \in {"load_len", "scan"} => seen[d] \subseteq seen'[d]
  BY <1>1, SeenStep DEF ReaderInv
<1>3. arr[d] \in 0..Len(heap) /\ Len(heap) \in Nat
  BY DEF TypeInv, SliceType, LocalType, Goroutines
<1>4. arr[d] # ptr => Cap(arr[d])' = Cap(arr[d])
                      /\ \A i \in Nat : Slot(arr[d], i)' = Slot(arr[d], i) \/ arr[d] = 0
  BY <1>1, <1>3 DEF Cap, Slot
<1>5. Cap(arr[d]) \in Nat /\ (arr[d] = 0 => Cap(arr[d]) = 0)
  BY <1>3 DEF Cap, TypeInv, SliceType, LocalType
<1>6. \A i \in Nat : InView(d, i) => InView(d, i)'
  BY <1>1, <1>4 DEF InView
<1>7. \A i \in Nat : InView(d, i) =>
          RuleAt(d, i)' = RuleAt(d, i) \/ SameCIDR(RuleAt(d, i), RuleAt(d, i)')
  BY <1>1, <1>4, <1>5 DEF InView, RuleAt
<1>8. \A i \in Nat : InView(d, i) => Has(d, i)' = Has(d, i)
  BY <1>1, <1>6, <1>7, SameCIDRMatches DEF Has
<1>9. ASSUME pc[d] \in {"load_len", "scan"} PROVE LeftInv(d)'
  <2> SUFFICES ASSUME arr[d] # ptr PROVE LeftInv(d)'
    BY <1>1 DEF LeftInv
  <2>1. \A i \in 1..Cap(arr[d]) : i \in Nat /\ InView(d, i)
    BY <1>5 DEF InView
  <2>2. \A j \in 1..Cap(arr[d]) : \A i \in 1..(j - 1) : i \in 1..Cap(arr[d])
    BY <1>5
  <2>3. \A i \in 1..Cap(arr[d]) : RuleAt(d, i)' = RuleAt(d, i)
    BY <1>1, <1>4, <1>5, <2>1 DEF RuleAt
  <2> QED
    BY <1>1, <1>2, <1>4, <1>5, <1>8, <1>9, <2>1, <2>2, <2>3 DEF LeftInv, ReaderInv
<1> QED
  BY <1>6, <1>8, <1>9, CommandKeeps, ReaderKept DEF TypeInv, SliceType, LocalType

(***************************************************************************)
(* The steps of a command                                                  *)
(***************************************************************************)
\* Except while a rule is replaced the list holds the table, and except while one is
\* appended it is as long.
LEMMA Settled ==
    ASSUME AtOnce = 1, RuleSetInv, NEW c \in Commands, CommandNext(c)
    PROVE  /\ pc[c] # "stored" => \A i \in 1..Len(table) : Slot(ptr, i) = table[i]
           /\ pc[c] \notin {"element", "stored"} => len = Len(table)
<1>1. \A e \in Commands \ {c} : pc[e] \in {"idle", "end", "torn"}
  BY Alone DEF RuleSetInv
<1> QED
  BY <1>1 DEF RuleSetInv, ListInv

\* What is the same for every step: the command that makes it is the only one at work.
LEMMA CommandRest ==
    ASSUME AtOnce = 1, RuleSetInv, Record, NEW c \in Commands, CommandNext(c)
    PROVE  /\ (\A x, y \in AtWork : x = y)'
           /\ (\A e \in Commands \ {c} : WriterInv(e))'
           /\ \A e \in Commands \ {c} : pc'[e] \in {"idle", "end", "torn"}
           /\ DOMAIN addr' = Conns /\ DOMAIN answer' = Conns /\ DOMAIN seen' = Conns
<1>1. TypeInv
  BY DEF RuleSetInv
<1>2. \A e \in Commands \ {c} : pc'[e] = pc[e] /\ pc[e] \in {"idle", "end", "torn"}
  BY <1>1, Alone, CommandFrame DEF Frame, Goroutines
<1>3. (\A x, y \in AtWork : x = y)'
  BY <1>2 DEF AtWork
<1>4. (\A e \in Commands \ {c} : WriterInv(e))'
  BY <1>2 DEF WriterInv
<1>5. DOMAIN addr' = Conns /\ DOMAIN answer' = Conns
  BY <1>1, CommandFrame DEF conn, TypeInv, LocalType
<1>6. DOMAIN seen' = Conns
  BY DEF Record
<1> QED
  BY <1>2, <1>3, <1>4, <1>5, <1>6

\* A step of a command that leaves the slice alone needs no more than its locals.
LEMMA QuietStep ==
    ASSUME AtOnce = 1, RuleSetInv, Record, NEW c \in Commands, CommandNext(c),
           UNCHANGED slice, pc[c] \notin {"element", "stored"}, LocalType', WriterInv(c)'
    PROVE  RuleSetInv'
<1>1. UNCHANGED <<heap, ptr, len, table>>
  BY TableStep DEF RuleSetInv, slice
<1>2. TypeInv'
  BY <1>1, CommandRest DEF RuleSetInv, TypeInv, SliceType
<1>3. ListInv'
  BY <1>1, Settled DEF RuleSetInv, ListInv, Slot, Cap
<1>4. (\A e \in Commands : WriterInv(e))'
  BY CommandRest
<1>5. ASSUME NEW d \in Conns PROVE ReaderInv(d)'
  BY <1>1, CommandKeeps, ReaderQuiet DEF RuleSetInv, TypeInv, SliceType
<1> QED
  BY <1>2, <1>3, <1>4, <1>5 DEF RuleSetInv

\* The command, the parsing of its rule and the response.
LEMMA CommandCalls ==
    ASSUME AtOnce = 1, RuleSetInv, Record, NEW c \in Commands,
           Execute(c) \/ Post(c) \/ Response(c)
    PROVE  RuleSetInv'
<1> USE DEF Goroutines, slice, command, locals, conn, Goto, Restart, Steps, Adding
<1>1. CommandNext(c)
  BY DEF CommandNext
<1>2. TypeInv /\ SliceType /\ LocalType
  BY DEF RuleSetInv, TypeInv
<1>3. /\ DOMAIN addr' = Conns /\ DOMAIN answer' = Conns /\ DOMAIN seen' = Conns
      /\ \A e \in Commands \ {c} : pc'[e] \in {"idle", "end", "torn"}
  BY <1>1, CommandRest
<1>4. CASE Execute(c)
  <2>1. PICK l \in CommandLines, f \in DialerFlags :
            args' = [args EXCEPT ![c] = l] /\ flag' = [flag EXCEPT ![c] = f]
    BY <1>4 DEF Execute
  <2>2. l \in Seq(WireCIDRs) /\ l # <<>>
    BY RuleSetAssumption
  <2>3. /\ pc' = [pc EXCEPT ![c] = "post"] /\ pc[c] = "idle"
        /\ UNCHANGED <<heap, ptr, len, rule, arr, num, idx>>
    BY <1>4 DEF Execute
  <2>4. LocalType'
    BY <1>2, <1>3, <2>1, <2>2, <2>3 DEF LocalType
  <2>5. WriterInv(c)'
    BY <1>2, <2>3 DEF WriterInv, LocalType
  <2> QED
    BY <1>1, <2>3, <2>4, <2>5, QuietStep
<1>5. CASE Post(c)
  <2> DEFINE w == Head(args[c])
  <2>1. pc[c] = "post" /\ args[c] \in Seq(WireCIDRs) /\ args[c] # <<>>
    BY <1>2, <1>5 DEF Post, LocalType
  <2>2. w \in WireCIDRs /\ Tail(args[c]) \in Seq(WireCIDRs)
    BY <2>1
  <2>3. flag[c] \in DialerFlags \cup {"empty"} /\ Width \in Nat
    BY <1>2, RuleSetAssumption DEF LocalType
  <2>4. Parses(w) => UnMarshall(w, flag[c]) \in Added
    BY <2>2, <2>3, RuleIsAdded
  <2>5. /\ args' = [args EXCEPT ![c] = Tail(args[c])]
        /\ UNCHANGED <<heap, ptr, len, flag, arr, num, idx>>
    BY <1>5 DEF Post
  <2>6. \/ /\ pc' = [pc EXCEPT ![c] = "load_ptr"] /\ Parses(w)
           /\ rule' = [rule EXCEPT ![c] = UnMarshall(w, flag[c])]
        \/ pc' = [pc EXCEPT ![c] = "response"] /\ rule' = rule
    BY <1>5 DEF Post
  <2> HIDE DEF w
  <2>7. LocalType'
    <3>1. pc' \in [Goroutines -> Steps] /\ pc'[c] \in {"load_ptr", "response"}
      BY <1>2, <2>6 DEF LocalType
    <3>2. args' \in [Commands -> Seq(WireCIDRs)]
      BY <1>2, <2>2, <2>5 DEF LocalType
    <3>3. rule' \in [Commands -> Slots]
      BY <1>2, <2>4, <2>6, HalfIsNotAdded DEF LocalType
    <3>4. pc'[c] \in Adding => rule'[c] \in Added
      BY <1>2, <2>4, <2>6 DEF LocalType
    <3> QED
      BY <1>2, <1>3, <2>5, <3>1, <3>2, <3>3, <3>4 DEF LocalType
  <2>8. WriterInv(c)'
    BY <1>2, <2>6 DEF WriterInv, LocalType
  <2> QED
    BY <1>1, <2>1, <2>5, <2>7, <2>8, QuietStep
<1>6. CASE Response(c)
  <2>1. /\ pc' = [pc EXCEPT ![c] = "end"] /\ pc[c] = "response"
        /\ flag' = [flag EXCEPT ![c] = "empty"] /\ rule' = [rule EXCEPT ![c] = Half]
        /\ arr' = [arr EXCEPT ![c] = 0] /\ num' = [num EXCEPT ![c] = 0]
        /\ idx' = [idx EXCEPT ![c] = 0] /\ UNCHANGED <<heap, ptr, len, args>>
    BY <1>6 DEF Response
  <2>2. Len(heap) \in Nat
    BY <1>2 DEF SliceType
  <2>3. LocalType'
    BY <1>2, <1>3, <2>1, <2>2, HalfIsNotAdded DEF LocalType
  <2>4. WriterInv(c)'
    BY <1>2, <2>1 DEF WriterInv, LocalType
  <2> QED
    BY <1>1, <2>1, <2>3, <2>4, QuietStep
<1> QED
  BY <1>4, <1>5, <1>6

\* The range loop of AddRule finds the rule with the CIDR if and only if the table
\* has one.
LEMMA CommandScans ==
    ASSUME AtOnce = 1, RuleSetInv, Record, NEW c \in Commands,
           LoadPtr(c) \/ LoadLen(c) \/ ScanRule(c) \/ ScannedRules(c) \/ Replace(c)
    PROVE  RuleSetInv'
<1> USE DEF Goroutines, slice, command, locals, conn, Goto, Advance, Steps, Adding
<1>1. CommandNext(c)
  BY DEF CommandNext
<1>2. TypeInv /\ SliceType /\ LocalType /\ ListInv /\ WriterInv(c)
  BY DEF RuleSetInv, TypeInv
<1>3. /\ DOMAIN addr' = Conns /\ DOMAIN answer' = Conns /\ DOMAIN seen' = Conns
      /\ \A e \in Commands \ {c} : pc'[e] \in {"idle", "end", "torn"}
  BY <1>1, CommandRest
<1>4. UNCHANGED <<heap, ptr, len, args, flag, rule>>
  BY DEF LoadPtr, LoadLen, ScanRule, ScannedRules, Replace
<1>5. pc[c] \in {"load_ptr", "load_len", "scan", "replace"}
  BY DEF LoadPtr, LoadLen, ScanRule, ScannedRules, Replace, Scanning, Scanned
<1>6. table' = table
  BY <1>1, <1>2, <1>5, TableStep
<1>7. len = Len(table) /\ \A i \in 1..Len(table) : Slot(ptr, i) = table[i]
  BY <1>1, <1>5, Settled
<1>8. /\ Len(heap) \in Nat /\ ptr \in 0..Len(heap) /\ len \in Nat /\ rule[c] \in Added
      /\ table \in Seq(Added) /\ num[c] \in Nat /\ idx[c] \in Nat
  BY <1>2, <1>5 DEF SliceType, LocalType
<1>9. LocalType' /\ WriterInv(c)'
  <2>1. CASE LoadPtr(c)
    <3>1. pc' = [pc EXCEPT ![c] = "load_len"] /\ arr' = [arr EXCEPT ![c] = ptr]
          /\ UNCHANGED <<num, idx>>
      BY <2>1 DEF LoadPtr
    <3>2. LocalType'
      BY <1>2, <1>3, <1>4, <1>5, <1>8, <3>1 DEF LocalType
    <3>3. WriterInv(c)'
      BY <1>2, <1>4, <3>1 DEF WriterInv, LocalType
    <3> QED
      BY <3>2, <3>3
  <2>2. CASE LoadLen(c)
    <3>1. pc' = [pc EXCEPT ![c] = "scan"] /\ num' = [num EXCEPT ![c] = len]
          /\ idx' = [idx EXCEPT ![c] = 1] /\ arr' = arr /\ pc[c] = "load_len"
      BY <2>2 DEF LoadLen
    <3>2. LocalType'
      BY <1>2, <1>3, <1>4, <1>5, <1>8, <3>1 DEF LocalType
    <3>3. WriterInv(c)'
      BY <1>2, <1>4, <1>6, <1>8, <3>1 DEF WriterInv, LocalType
    <3> QED
      BY <3>2, <3>3
  <2>3. CASE ScanRule(c)
    <3>1. /\ pc[c] = "scan" /\ arr[c] = ptr /\ idx[c] \in 1..len /\ UNCHANGED <<arr, num>>
          /\ \A i \in 1..(idx[c] - 1) : ~SameCIDR(table[i], rule[c])
      BY <1>2, <1>8, <2>3 DEF ScanRule, Scanning, WriterInv
    <3>2. Slot(ptr, idx[c]) = table[idx[c]] /\ table[idx[c]] \in Added
      BY <1>7, <1>8, <3>1
    <3>3. idx[c] <= Cap(ptr) /\ ptr # 0 /\ Cap(ptr) \in Nat
      BY <1>2, <1>8, <3>1 DEF ListInv, Cap, SliceType
    <3>4. Found(c) <=> SameCIDR(table[idx[c]], rule[c])
      BY <3>1, <3>2, <3>3, HalfIsNotAdded DEF Found, IsWritten, Written, Element, Cap
    <3>5. \/ /\ pc' = [pc EXCEPT ![c] = "replace"] /\ idx' = idx
             /\ SameCIDR(table[idx[c]], rule[c])
          \/ /\ pc' = pc /\ idx' = [idx EXCEPT ![c] = idx[c] + 1]
             /\ ~SameCIDR(table[idx[c]], rule[c])
      BY <1>8, <2>3, <3>1, <3>3, <3>4 DEF ScanRule
    <3>6. LocalType'
      <4>1. pc' \in [Goroutines -> Steps] /\ idx' \in [Goroutines -> Nat]
        <5>1. pc' = pc \/ pc' = [pc EXCEPT ![c] = "replace"]
          BY <3>5
        <5>2. idx' = idx \/ idx' = [idx EXCEPT ![c] = idx[c] + 1]
          BY <3>5
        <5>3. pc' \in [Goroutines -> Steps]
          BY <1>2, <5>1 DEF LocalType
        <5>4. idx' \in [Goroutines -> Nat]
          <6>1. idx \in [Goroutines -> Nat] /\ idx[c] + 1 \in Nat
            BY <1>2, <1>8 DEF LocalType
          <6> QED
            BY <5>2, <6>1
        <5> QED
          BY <5>3, <5>4
      <4>2. pc'[c] # "post"
        BY <1>2, <3>1, <3>5 DEF LocalType
      <4> QED
        BY <1>2, <1>3, <1>4, <1>8, <3>1, <4>1, <4>2 DEF LocalType
    <3>7. CASE /\ pc' = [pc EXCEPT ![c] = "replace"] /\ idx' = idx
               /\ SameCIDR(table[idx[c]], rule[c])
      <4>1. pc'[c] = "replace" /\ idx'[c] = idx[c]
        BY <1>2, <3>7 DEF LocalType
      <4> QED
        BY <1>4, <1>6, <1>7, <3>1, <3>6, <3>7, <4>1 DEF WriterInv
    <3>8. CASE /\ pc' = pc /\ idx' = [idx EXCEPT ![c] = idx[c] + 1]
               /\ ~SameCIDR(table[idx[c]], rule[c])
      <4>1. /\ idx'[c] = idx[c] + 1 /\ num'[c] = len' /\ arr'[c] = ptr' /\ pc'[c] = "scan"
            /\ idx'[c] \in 1..(len' + 1)
        BY <1>2, <1>4, <1>8, <3>1, <3>8 DEF WriterInv, LocalType
      <4>2. \A i \in 1..(idx'[c] - 1) : i = idx[c] \/ i \in 1..(idx[c] - 1)
        BY <1>8, <4>1
      <4>3. \A i \in 1..(idx'[c] - 1) : ~SameCIDR(table'[i], rule'[c])
        BY <1>4, <1>6, <3>1, <3>8, <4>2
      <4> QED
        BY <3>6, <4>1, <4>3 DEF WriterInv
    <3> QED
      BY <3>5, <3>6, <3>7, <3>8
  <2>4. CASE ScannedRules(c)
    <3>1. /\ pc' = [pc EXCEPT ![c] = "append"] /\ UNCHANGED <<arr, num, idx>>
          /\ pc[c] = "scan" /\ idx[c] > num[c]
      BY <2>4 DEF ScannedRules, Scanned
    <3>2. LocalType'
      BY <1>2, <1>3, <1>4, <1>5, <3>1 DEF LocalType
    <3>3. idx[c] - 1 = Len(table)
      BY <1>2, <1>7, <1>8, <3>1 DEF WriterInv
    <3>4. IsNew(c)'
      BY <1>2, <1>4, <1>6, <3>1, <3>3 DEF WriterInv, IsNew
    <3>5. WriterInv(c)'
      BY <1>2, <3>1, <3>4 DEF WriterInv, LocalType
    <3> QED
      BY <3>2, <3>5
  <2>5. CASE Replace(c)
    <3>1. /\ pc' = [pc EXCEPT ![c] = "element"] /\ arr' = [arr EXCEPT ![c] = ptr]
          /\ UNCHANGED <<num, idx>> /\ pc[c] = "replace"
      BY <2>5 DEF Replace
    <3>2. LocalType'
      BY <1>2, <1>3, <1>4, <1>5, <1>8, <3>1 DEF LocalType
    <3>3. WriterInv(c)'
      BY <1>2, <1>4, <1>6, <1>7, <3>1 DEF WriterInv, LocalType
    <3> QED
      BY <3>2, <3>3
  <2> QED
    BY <2>1, <2>2, <2>3, <2>4, <2>5
<1> QED
  BY <1>1, <1>4, <1>5, <1>9, QuietStep

\* append: the rules go on to the array that is stored next, and the list is longer
\* by one slot that is not written yet.
LEMMA CommandAppends ==
    ASSUME AtOnce = 1, RuleSetInv, Record, NEW c \in Commands,
           AppendRule(c) \/ StorePtr(c) \/ StoreLen(c)
    PROVE  RuleSetInv'
<1> USE DEF Goroutines, slice, command, locals, conn, Goto, Steps, Adding
<1>1. CommandNext(c)
  BY DEF CommandNext
<1>2. TypeInv /\ SliceType /\ LocalType /\ ListInv /\ WriterInv(c)
  BY DEF RuleSetInv, TypeInv
<1>3. /\ DOMAIN addr' = Conns /\ DOMAIN answer' = Conns /\ DOMAIN seen' = Conns
      /\ \A e \in Commands \ {c} : pc'[e] \in {"idle", "end", "torn"}
      /\ (\A x, y \in AtWork : x = y)' /\ (\A e \in Commands \ {c} : WriterInv(e))'
  BY <1>1, CommandRest
<1>4. UNCHANGED <<args, flag, rule>>
  BY DEF AppendRule, StorePtr, StoreLen
<1>5. pc[c] \in {"append", "store_ptr", "store_len"}
  BY DEF AppendRule, StorePtr, StoreLen
<1>6. table' = table
  BY <1>1, <1>2, <1>5, TableStep
<1>7. len = Len(table) /\ \A i \in 1..Len(table) : Slot(ptr, i) = table[i]
  BY <1>1, <1>5, Settled
<1>8. /\ Len(heap) \in Nat /\ ptr \in 0..Len(heap) /\ len \in Nat /\ rule[c] \in Added
      /\ table \in Seq(Added) /\ num[c] \in Nat /\ idx[c] \in Nat
      /\ heap \in Seq(Seq(Slots)) /\ \A g \in Goroutines : arr[g] \in 0..Len(heap)
  BY <1>2, <1>5 DEF SliceType, LocalType
<1>9. Cap(ptr) \in Nat /\ len <= Cap(ptr)
  BY <1>2, <1>8 DEF Cap, ListInv
<1>10. IsNew(c)'
  BY <1>2, <1>4, <1>5, <1>6 DEF WriterInv, IsNew
<1>11. CASE AppendRule(c) /\ len < Cap(ptr)
  <2>1. /\ num' = [num EXCEPT ![c] = len] /\ idx' = [idx EXCEPT ![c] = len + 1]
        /\ arr' = [arr EXCEPT ![c] = ptr] /\ pc' = [pc EXCEPT ![c] = "store_len"]
        /\ UNCHANGED <<heap, ptr, len>>
    BY <1>11 DEF AppendRule
  <2>2. LocalType'
    BY <1>2, <1>3, <1>4, <1>5, <1>8, <2>1 DEF LocalType
  <2>3. len' < Cap(ptr)'
    BY <1>11, <2>1 DEF Cap
  <2>4. WriterInv(c)'
    BY <1>2, <1>8, <1>10, <2>1, <2>3 DEF WriterInv, LocalType
  <2> QED
    BY <1>1, <1>5, <2>1, <2>2, <2>4, QuietStep
<1>12. CASE AppendRule(c) /\ ~(len < Cap(ptr))
  <2> DEFINE s == Grown(ptr, len)
             n == IF len = 0 THEN 1 ELSE 2 * len
  <2>1. /\ num' = [num EXCEPT ![c] = len] /\ idx' = [idx EXCEPT ![c] = len + 1]
        /\ arr' = [arr EXCEPT ![c] = Len(heap) + 1] /\ pc' = [pc EXCEPT ![c] = "store_ptr"]
        /\ heap' = Append(heap, s) /\ UNCHANGED <<ptr, len>> /\ Cap(ptr) = len
    BY <1>9, <1>8, <1>12 DEF AppendRule
  <2>2. n \in Nat /\ len < n
    BY <1>8
  <2>3. \A i \in 1..n : i <= len => Slot(ptr, i) \in Slots
    BY <1>7, <1>8, HalfIsNotAdded
  <2>4. s = [i \in 1..n |-> IF i <= len THEN Slot(ptr, i) ELSE Half]
    BY DEF Grown
  <2> HIDE DEF s, n
  <2>5. \A i \in 1..n : (IF i <= len THEN Slot(ptr, i) ELSE Half) \in Slots
    BY <2>3, HalfIsNotAdded
  <2>6. s \in Seq(Slots) /\ Len(s) = n
    BY <2>2, <2>4, <2>5
  <2>7. /\ \A i \in 1..len : s[i] = table[i]
        /\ \A i \in (len + 1)..n : s[i] = Half
    BY <1>7, <1>8, <2>2, <2>4
  <2>8. /\ heap' \in Seq(Seq(Slots)) /\ Len(heap') = Len(heap) + 1
        /\ heap'[Len(heap) + 1] = s /\ \A b \in 1..Len(heap) : heap'[b] = heap[b]
    BY <1>8, <2>1, <2>6, NewArray
  <2>9. SliceType'
    BY <1>6, <1>8, <2>1, <2>8 DEF SliceType
  <2>10. LocalType'
    BY <1>2, <1>3, <1>4, <1>5, <1>8, <2>1, <2>8 DEF LocalType
  <2>11. Cap(ptr)' = Cap(ptr) /\ \A i \in Nat : ptr # 0 => Slot(ptr, i)' = Slot(ptr, i)
    BY <1>8, <2>1, <2>8 DEF Cap, Slot
  <2>12. ListInv'
    <3>1. \A i \in 1..Len(table) : Slot(ptr, i)' = table[i]
      <4>1. \A i \in 1..Len(table) : ptr # 0 /\ i \in Nat
        BY <1>7, <1>8, <2>1 DEF Cap
      <4> QED
        BY <4>1, <1>7, <2>11
    <3>2. \A i \in (Len(table) + 1)..Cap(ptr) : FALSE
      BY <1>7, <1>8, <2>1
    <3> QED
      BY <1>2, <1>6, <1>7, <1>8, <1>9, <2>1, <2>11, <3>1, <3>2 DEF ListInv
  <2>13. WriterInv(c)'
    <3>1. /\ arr'[c] = Len(heap) + 1 /\ arr'[c] # ptr' /\ arr'[c] # 0
          /\ pc'[c] = "store_ptr" /\ idx'[c] = len' + 1
      BY <1>2, <1>8, <2>1 DEF LocalType
    <3>2. \A d \in Conns : arr'[d] # arr'[c]
      BY <1>1, <1>2, <1>8, <3>1, CommandFrame, RuleSetAssumption DEF Frame
    <3>3. Cap(arr[c])' = n /\ \A i \in Nat : Slot(arr[c], i)' = s[i]
      BY <2>6, <2>8, <3>1 DEF Cap, Slot
    <3>4. \A i \in 1..len' : Slot(arr[c], i)' = table'[i]
      BY <1>6, <1>8, <2>1, <2>7, <3>3
    <3>5. \A i \in (len' + 1)..Cap(arr[c])' : Slot(arr[c], i)' = Half
      <4>1. \A i \in (len + 1)..n : i \in Nat
        BY <1>8, <2>2
      <4> QED
        BY <2>1, <2>7, <3>3, <4>1
    <3> QED
      BY <1>10, <2>1, <2>2, <2>11, <3>1, <3>2, <3>3, <3>4, <3>5 DEF WriterInv
  <2>14. ASSUME NEW d \in Conns PROVE ReaderInv(d)'
    BY <1>1, <1>2, <1>6, <1>8, <2>1, <2>8, CommandKeeps, ReaderQuiet DEF RuleSetInv
  <2> QED
    BY <1>3, <2>9, <2>10, <2>12, <2>13, <2>14 DEF RuleSetInv, TypeInv
<1>13. CASE StorePtr(c)
  <2>1. /\ pc' = [pc EXCEPT ![c] = "store_len"] /\ pc[c] = "store_ptr" /\ ptr' = arr[c]
        /\ UNCHANGED <<heap, len, arr, num, idx>>
    BY <1>13 DEF StorePtr
  <2>2. SliceType'
    BY <1>6, <1>8, <2>1 DEF SliceType
  <2>3. LocalType'
    BY <1>2, <1>3, <1>4, <1>5, <1>8, <2>1 DEF LocalType
  <2>4. /\ len' < Cap(ptr)' /\ \A i \in 1..len : Slot(ptr, i)' = table[i]
        /\ \A i \in (len + 1)..Cap(ptr)' : Slot(ptr, i)' = Half
    BY <1>2, <2>1 DEF WriterInv, Slot, Cap
  <2>5. Cap(ptr)' \in Nat
    BY <2>2 DEF SliceType, Cap
  <2>6. ListInv'
    <3>1. Len(table') <= len' /\ len' <= Cap(ptr)' /\ len' = Len(table')
      BY <1>6, <1>7, <1>8, <2>1, <2>4, <2>5
    <3>2. \A i \in 1..Len(table') : Slot(ptr, i)' = table'[i]
      BY <1>6, <1>7, <2>4
    <3>3. \A i \in (Len(table') + 1)..Cap(ptr)' : Slot(ptr, i)' = Half
      BY <1>6, <1>7, <2>4
    <3> QED
      BY <1>2, <1>6, <3>1, <3>2, <3>3 DEF ListInv
  <2>7. WriterInv(c)'
    BY <1>2, <1>10, <2>1, <2>4 DEF WriterInv, LocalType
  <2>8. ASSUME NEW d \in Conns PROVE ReaderInv(d)'
    BY <1>2, <1>6, <1>7, <1>13, ReaderLeft DEF RuleSetInv
  <2> QED
    BY <1>3, <2>2, <2>3, <2>6, <2>7, <2>8 DEF RuleSetInv, TypeInv
<1>14. CASE StoreLen(c)
  <2>1. /\ pc' = [pc EXCEPT ![c] = "element"] /\ pc[c] = "store_len" /\ len' = idx[c]
        /\ UNCHANGED <<heap, ptr, arr, num, idx>>
    BY <1>14 DEF StoreLen
  <2>2. len' = len + 1 /\ len' <= Cap(ptr) /\ Cap(ptr)' = Cap(ptr)
    BY <1>2, <1>8, <1>9, <2>1 DEF WriterInv, Cap
  <2>3. SliceType'
    BY <1>6, <1>8, <2>1 DEF SliceType
  <2>4. LocalType'
    BY <1>2, <1>3, <1>4, <1>5, <1>8, <2>1 DEF LocalType
  <2>5. pc'[c] = "element" /\ \A i \in Nat : Slot(ptr, i)' = Slot(ptr, i)
    BY <1>2, <2>1 DEF LocalType, Slot
  <2>6. ListInv'
    <3>1. Len(table') <= len' /\ len' <= Cap(ptr)'
      BY <1>6, <1>7, <1>8, <2>2
    <3>2. \A i \in 1..Len(table') : Slot(ptr, i)' = table'[i]
      <4>1. \A i \in 1..Len(table) : i \in Nat
        BY <1>8
      <4> QED
        BY <1>6, <1>7, <2>5, <4>1
    <3>3. \A i \in (Len(table') + 1)..Cap(ptr)' : Slot(ptr, i)' = Half
      <4>1. \A i \in (Len(table) + 1)..Cap(ptr) : i \in Nat
        BY <1>7, <1>8, <1>9
      <4> QED
        BY <1>2, <1>6, <2>2, <2>5, <4>1 DEF ListInv
    <3> QED
      BY <1>2, <1>6, <2>5, <3>1, <3>2, <3>3 DEF ListInv
  <2>7. WriterInv(c)'
    BY <1>2, <1>6, <1>7, <1>8, <1>10, <2>1, <2>2, <2>5 DEF WriterInv
  <2>8. ASSUME NEW d \in Conns PROVE ReaderInv(d)'
    BY <1>1, <1>2, <1>6, <1>8, <2>1, <2>2, CommandKeeps, ReaderQuiet DEF RuleSetInv
  <2> QED
    BY <1>3, <2>3, <2>4, <2>6, <2>7, <2>8 DEF RuleSetInv, TypeInv
<1> QED
  BY <1>11, <1>12, <1>13, <1>14

\* The element: the slot that is written is the one the table changes in.
LEMMA CommandStores ==
    ASSUME AtOnce = 1, RuleSetInv, Record, NEW c \in Commands,
           StoreElement(c) \/ Stored(c)
    PROVE  RuleSetInv'
<1> USE DEF Goroutines, slice, command, locals, conn, Goto, Steps, Adding
<1>1. CommandNext(c)
  BY DEF CommandNext
<1>2. TypeInv /\ SliceType /\ LocalType /\ ListInv /\ WriterInv(c)
  BY DEF RuleSetInv, TypeInv
<1>3. /\ DOMAIN addr' = Conns /\ DOMAIN answer' = Conns /\ DOMAIN seen' = Conns
      /\ \A e \in Commands \ {c} : pc'[e] \in {"idle", "end", "torn"}
      /\ (\A x, y \in AtWork : x = y)' /\ (\A e \in Commands \ {c} : WriterInv(e))'
  BY <1>1, CommandRest
<1>4. UNCHANGED <<args, flag, rule, ptr, len, arr, num, idx>>
  BY DEF StoreElement, Stored
<1>5. pc[c] \in {"element", "stored"}
  BY DEF StoreElement, Stored
<1>6. /\ Len(heap) \in Nat /\ ptr \in 0..Len(heap) /\ len \in Nat /\ rule[c] \in Added
      /\ table \in Seq(Added) /\ num[c] \in Nat /\ idx[c] \in Nat
      /\ heap \in Seq(Seq(Slots)) /\ \A g \in Goroutines : arr[g] \in 0..Len(heap)
  BY <1>2, <1>5 DEF SliceType, LocalType
<1>7. /\ arr[c] = ptr
      /\ \/ len = Len(table) /\ idx[c] \in 1..len /\ SameCIDR(table[idx[c]], rule[c])
         \/ len = Len(table) + 1 /\ idx[c] = len /\ IsNew(c)
  BY <1>2, <1>5 DEF WriterInv
<1>8. /\ idx[c] \in 1..len /\ Len(table) \in Nat /\ Cap(ptr) \in Nat /\ len <= Cap(ptr)
      /\ ptr \in 1..Len(heap) /\ idx[c] \in 1..Len(heap[ptr]) /\ Cap(ptr) = Len(heap[ptr])
  BY <1>2, <1>6, <1>7 DEF ListInv, Cap
<1>9. PICK v \in Slots : /\ heap' = [heap EXCEPT ![ptr][idx[c]] = v]
                         /\ \/ StoreElement(c) /\ v = Half
                            \/ Stored(c) /\ v = rule[c]
  BY <1>6, <1>7, HalfIsNotAdded DEF StoreElement, Stored
<1>10. /\ heap' \in Seq(Seq(Slots)) /\ Len(heap') = Len(heap)
       /\ \A b \in 1..Len(heap) : Len(heap'[b]) = Len(heap[b])
       /\ \A b \in 1..Len(heap) : \A j \in 1..Len(heap[b]) :
             heap'[b][j] = IF b = ptr /\ j = idx[c] THEN v ELSE heap[b][j]
  BY <1>6, <1>8, <1>9, SetSlot
<1>11. \A b \in 1..Len(heap) : b # ptr => heap'[b] = heap[b]
  BY <1>6, <1>9
<1>12. /\ Cap(ptr)' = Cap(ptr)
       /\ \A i \in 1..Cap(ptr) : Slot(ptr, i)' = IF i = idx[c] THEN v ELSE Slot(ptr, i)
  BY <1>4, <1>8, <1>10 DEF Cap, Slot
<1>13. CASE StoreElement(c)
  <2>1. pc' = [pc EXCEPT ![c] = "stored"] /\ pc[c] = "element" /\ v = Half
    BY <1>9, <1>13 DEF StoreElement, Stored
  <2>2. pc'[c] = "stored"
    BY <1>2, <2>1 DEF LocalType
  <2>3. table' = table
    BY <1>1, <1>2, <2>1, TableStep
  <2>4. \A i \in 1..Len(table) : Slot(ptr, i) = table[i]
    BY <1>1, <2>1, Settled
  <2>5. SliceType'
    BY <1>4, <1>6, <1>10, <2>3 DEF SliceType
  <2>6. LocalType'
    BY <1>2, <1>3, <1>4, <1>6, <1>10, <2>1 DEF LocalType
  <2>7. ListInv'
    <3>1. \A i \in 1..Len(table) :
              \/ Slot(ptr, i)' = table[i]
              \/ Slot(ptr, i)' = Half /\ pc'[c] = "stored" /\ idx'[c] = i
      <4>1. \A i \in 1..Len(table) : i \in 1..Cap(ptr)
        BY <1>2, <1>6, <1>8 DEF ListInv
      <4> QED
        BY <1>4, <1>12, <2>1, <2>2, <2>4, <4>1
    <3>2. \A i \in (Len(table) + 1)..Cap(ptr) : Slot(ptr, i)' = Half
      BY <1>2, <1>8, <1>12, <2>1 DEF ListInv
    <3>3. Len(table') <= len' /\ len' <= Cap(ptr)'
      BY <1>2, <1>4, <1>12, <2>3 DEF ListInv
    <3> QED
      BY <1>2, <1>4, <1>12, <2>2, <2>3, <3>1, <3>2, <3>3 DEF ListInv
  <2>8. WriterInv(c)'
    <3>1. Slot(ptr, idx[c])' = Half
      BY <1>4, <1>8, <1>10, <2>1 DEF Slot
    <3>2. IsNew(c)' = IsNew(c)
      BY <1>4, <2>3 DEF IsNew
    <3> QED
      BY <1>4, <1>7, <2>2, <2>3, <3>1, <3>2 DEF WriterInv
  <2>9. ASSUME NEW d \in Conns PROVE ReaderInv(d)'
    <3>1. Kept(d) /\ ReaderInv(d) /\ len' \in Nat /\ len <= len'
      BY <1>1, <1>2, <1>4, <1>6, CommandKeeps DEF RuleSetInv
    <3> QED
      BY <1>2, <1>4, <1>11, <2>3, <3>1, ReaderQuiet
  <2> QED
    BY <1>3, <2>5, <2>6, <2>7, <2>8, <2>9 DEF RuleSetInv, TypeInv
<1>14. CASE Stored(c)
  <2>1. pc' = [pc EXCEPT ![c] = "response"] /\ pc[c] = "stored" /\ v = rule[c]
    BY <1>9, <1>14 DEF StoreElement, Stored
  <2>2. pc'[c] = "response"
    BY <1>2, <2>1 DEF LocalType
  <2>3. table' = Put(table, rule[c])
    BY <1>1, <1>2, <1>14, TableStep
  <2>4. \A i \in 1..Len(table) : i # idx[c] => Slot(ptr, i) = table[i]
    <3>1. \A e \in Commands \ {c} : pc[e] \in {"idle", "end", "torn"}
      BY <1>1, <1>2, Alone
    <3> QED
      BY <1>2, <3>1 DEF ListInv
  <2>5. /\ table' \in Seq(Added) /\ Len(table') = len
        /\ \A i \in 1..len : table'[i] = IF i = idx[c] THEN rule[c] ELSE table[i]
        /\ \A i \in 1..Len(table) : table'[i] = table[i] \/ SameCIDR(table[i], table'[i])
        /\ \A i, j \in 1..len : SameCIDR(table'[i], table'[j]) => i = j
    <3> DEFINE unique == \A i, j \in 1..Len(table) : SameCIDR(table[i], table[j]) => i = j
    <3>1. unique
      BY <1>2 DEF ListInv
    <3>2. CASE len = Len(table) /\ idx[c] \in 1..len /\ SameCIDR(table[idx[c]], rule[c])
      <4>1. /\ table' \in Seq(Added) /\ Len(table') = Len(table)
            /\ \A i \in 1..Len(table) : table'[i] = IF i = idx[c] THEN rule[c] ELSE table[i]
        <5>1. /\ idx[c] \in 1..Len(table) /\ SameCIDR(table[idx[c]], rule[c])
              /\ table \in Seq(Added) /\ rule[c] \in Added
          BY <1>6, <3>2
        <5> QED
          BY <2>3, <3>1, <5>1, PutReplaces
      <4>2. \A i \in 1..Len(table) : SameCIDR(table'[i], table[i])
        BY <3>2, <4>1 DEF SameCIDR
      <4>3. \A i, j \in 1..Len(table) : SameCIDR(table'[i], table'[j]) => i = j
        BY <3>1, <4>2 DEF SameCIDR
      <4>4. \A i \in 1..Len(table) : SameCIDR(table[i], table'[i])
        BY <4>2 DEF SameCIDR
      <4> QED
        BY <3>2, <4>1, <4>3, <4>4
    <3>3. CASE len = Len(table) + 1 /\ idx[c] = len /\ IsNew(c)
      <4>1. /\ table' \in Seq(Added) /\ Len(table') = Len(table) + 1
            /\ \A i \in 1..Len(table) : table'[i] = table[i]
            /\ table'[Len(table) + 1] = rule[c]
        BY <1>6, <2>3, <3>3, PutAppends DEF IsNew
      <4>2. \A i \in 1..len : i = len \/ i \in 1..Len(table)
        BY <1>8, <3>3
      <4>3. ASSUME NEW i \in 1..len, NEW j \in 1..len, SameCIDR(table'[i], table'[j])
            PROVE  i = j
        <5>1. CASE i \in 1..Len(table) /\ j \in 1..Len(table)
          BY <3>1, <4>1, <4>3, <5>1
        <5>2. CASE i = len /\ j \in 1..Len(table)
          <6>1. SameCIDR(table[j], rule[c])
            BY <3>3, <4>1, <4>3, <5>2 DEF SameCIDR
          <6> QED
            BY <3>3, <5>2, <6>1 DEF IsNew
        <5>3. CASE i \in 1..Len(table) /\ j = len
          <6>1. SameCIDR(table[i], rule[c])
            BY <3>3, <4>1, <4>3, <5>3 DEF SameCIDR
          <6> QED
            BY <3>3, <5>3, <6>1 DEF IsNew
        <5> QED
          BY <4>2, <5>1, <5>2, <5>3
      <4>4. \A i \in 1..len : table'[i] = IF i = idx[c] THEN rule[c] ELSE table[i]
        BY <1>8, <3>3, <4>1, <4>2
      <4> QED
        BY <3>3, <4>1, <4>3, <4>4
    <3> QED
      BY <1>7, <3>2, <3>3
  <2>6. SliceType'
    BY <1>4, <1>6, <1>10, <2>5 DEF SliceType
  <2>7. LocalType'
    BY <1>2, <1>3, <1>4, <1>6, <1>10, <2>1 DEF LocalType
  <2>8. ListInv'
    <3>1. \A i \in 1..len : i = idx[c] \/ i \in 1..Len(table)
      BY <1>7, <1>8
    <3>2. \A i \in 1..len : Slot(ptr, i)' = table'[i]
      <4>1. \A i \in 1..len : i \in 1..Cap(ptr)
        BY <1>6, <1>8
      <4> QED
        BY <1>12, <2>1, <2>4, <2>5, <3>1, <4>1
    <3>3. \A i \in (len + 1)..Cap(ptr) : Slot(ptr, i)' = Half
      <4>1. \A i \in (len + 1)..Cap(ptr) :
                i \in 1..Cap(ptr) /\ i # idx[c] /\ i \in (Len(table) + 1)..Cap(ptr)
        BY <1>6, <1>7, <1>8
      <4> QED
        BY <1>2, <1>12, <4>1 DEF ListInv
    <3> QED
      BY <1>4, <1>6, <1>8, <1>12, <2>5, <3>2, <3>3 DEF ListInv
  <2>9. WriterInv(c)'
    BY <2>2 DEF WriterInv
  <2>10. ASSUME NEW d \in Conns PROVE ReaderInv(d)'
    <3>1. Len(table) <= Len(table') /\ Len(table') \in Nat
      BY <1>6, <1>7, <2>5
    <3> QED
      BY <1>1, <1>2, <1>4, <1>8, <1>11, <2>5, <3>1, ReaderStored DEF RuleSetInv
  <2> QED
    BY <1>3, <2>6, <2>7, <2>8, <2>9, <2>10 DEF RuleSetInv, TypeInv
<1> QED
  BY <1>13, <1>14

\* Every step of a command keeps the invariant.
LEMMA CommandStep ==
    ASSUME AtOnce = 1, RuleSetInv, Record, NEW c \in Commands, CommandNext(c)
    PROVE  RuleSetInv'
  BY CommandCalls, CommandScans, CommandAppends, CommandStores DEF CommandNext

(***************************************************************************)
(* The steps of a Dial                                                     *)
(***************************************************************************)
\* A Dial changes its own locals only: the list and who adds to it stay, and so do
\* the other connections.
LEMMA DialRest ==
    ASSUME RuleSetInv, Record, NEW d \in Conns, DialNext(d), LocalType',
           arr'[d] \in {arr[d], ptr, 0}, ReaderInv(d)'
    PROVE  RuleSetInv'
<1>1. TypeInv /\ SliceType /\ LocalType /\ ListInv
  BY DEF RuleSetInv, TypeInv
<1>2. /\ Frame(d) /\ UNCHANGED <<heap, ptr, len, args, flag, rule, table>>
      /\ \A e \in Conns \ {d} : addr'[e] = addr[e] /\ answer'[e] = answer[e]
  BY <1>1, DialFrame, DialTable
<1>3. \A c \in Commands :
          /\ pc'[c] = pc[c] /\ arr'[c] = arr[c] /\ num'[c] = num[c] /\ idx'[c] = idx[c]
  BY <1>2, RuleSetAssumption DEF Frame, Goroutines
<1>4. TypeInv'
  BY <1>1, <1>2, <1>3 DEF TypeInv, SliceType, AtWork
<1>5. ListInv'
  BY <1>1, <1>2, <1>3 DEF ListInv, Slot, Cap
<1>6. ASSUME NEW c \in Commands PROVE WriterInv(c)'
  <2>1. WriterInv(c) /\ IsNew(c)' = IsNew(c)
    BY <1>2 DEF RuleSetInv, IsNew
  <2>2. Cap(ptr)' = Cap(ptr) /\ Cap(arr[c])' = Cap(arr[c])
        /\ \A i : Slot(ptr, i)' = Slot(ptr, i) /\ Slot(arr[c], i)' = Slot(arr[c], i)
    BY <1>2, <1>3 DEF Cap, Slot
  <2>3. pc[c] = "store_ptr" => \A e \in Conns : arr'[e] # arr'[c]
    <3>1. \A e \in Conns \ {d} : arr'[e] = arr[e]
      BY <1>2 DEF Frame, Goroutines
    <3> QED
      BY <1>3, <2>1, <3>1 DEF WriterInv
  <2>4. Slot(ptr, idx[c])' = Slot(ptr, idx[c])
    BY <1>2, <1>3 DEF Slot
  <2> QED
    BY <1>2, <1>3, <2>1, <2>2, <2>3, <2>4 DEF WriterInv
<1>7. ASSUME NEW e \in Conns \ {d} PROVE ReaderInv(e)'
  <2>1. Kept(e) /\ ReaderInv(e) /\ len' \in Nat /\ len <= len'
    BY <1>1, <1>2 DEF Kept, Frame, Goroutines, RuleSetInv, SliceType
  <2> QED
    BY <1>1, <1>2, <2>1, ReaderQuiet
<1> QED
  BY <1>4, <1>5, <1>6, <1>7 DEF RuleSetInv

\* Every step of a Dial keeps the invariant: with the rules in view it answers what
\* the table says or has said, and without a match it has seen the table without one.
LEMMA DialStep ==
    ASSUME RuleSetInv, Record, NEW d \in Conns, DialNext(d)
    PROVE  RuleSetInv'
<1> USE DEF slice, command, locals, conn, Goto, Steps, Adding
<1>1. TypeInv /\ SliceType /\ LocalType /\ ListInv /\ ReaderInv(d)
  BY DEF RuleSetInv, TypeInv
<1>2. UNCHANGED <<heap, ptr, len, args, flag, rule, table>> /\ DOMAIN seen' = Conns
  BY <1>1, DialFrame, DialTable DEF Record
<1>3. /\ Len(heap) \in Nat /\ ptr \in 0..Len(heap) /\ len \in Nat /\ Len(table) \in Nat
      /\ table \in Seq(Added) /\ num[d] \in Nat /\ idx[d] \in Nat /\ heap \in Seq(Seq(Slots))
      /\ arr[d] \in 0..Len(heap) /\ d \in Goroutines /\ d \notin Commands
      /\ \A c \in Commands : c \in Goroutines /\ c # d
  BY <1>1, RuleSetAssumption DEF SliceType, LocalType, Goroutines
<1>4. Cap(ptr) \in Nat /\ Cap(arr[d]) \in Nat /\ Len(table) <= len /\ len <= Cap(ptr)
  BY <1>1, <1>3 DEF Cap, ListInv
<1>5. CASE Dial(d)
  <2>1. PICK a \in Destinations \cup {None} :
            /\ addr' = [addr EXCEPT ![d] = a] /\ pc[d] = "idle"
            /\ \/ a = None /\ pc' = [pc EXCEPT ![d] = "end"]
                  /\ answer' = [answer EXCEPT ![d] = "direct"]
               \/ a # None /\ pc' = [pc EXCEPT ![d] = "load_ptr"] /\ answer' = answer
            /\ UNCHANGED <<arr, num, idx>>
    BY <1>5 DEF Dial
  <2>2. LocalType'
    BY <1>1, <1>2, <1>3, <2>1 DEF LocalType
  <2>3. addr'[d] = a /\ (a = None => pc'[d] = "end") /\ (a # None => pc'[d] = "load_ptr")
    BY <1>1, <1>3, <2>1 DEF LocalType
  <2>4. a # None => FirstMatch(table', addr'[d]) \in seen'[d]
    BY <2>1, <2>3, SeenStep
  <2>5. ReaderInv(d)'
    BY <2>3, <2>4 DEF ReaderInv
  <2> QED
    BY <2>1, <2>2, <2>5, DialRest
<1>6. ASSUME pc[d] \in {"load_ptr", "load_len", "scan"}, pc'[d] # "idle", addr' = addr
      PROVE  /\ addr[d] # None /\ seen[d] \subseteq seen'[d]
             /\ FirstMatch(table, addr[d]) \in seen'[d]
  BY <1>1, <1>2, <1>6, SeenStep DEF ReaderInv
<1>7. CASE LoadPtr(d)
  <2>1. /\ pc[d] = "load_ptr" /\ arr' = [arr EXCEPT ![d] = ptr]
        /\ pc' = [pc EXCEPT ![d] = "load_len"] /\ UNCHANGED <<num, idx, addr, answer>>
    BY <1>7 DEF LoadPtr
  <2>2. LocalType'
    BY <1>1, <1>2, <1>3, <2>1 DEF LocalType
  <2>3. arr'[d] = ptr' /\ pc'[d] = "load_len"
    BY <1>1, <1>2, <1>3, <2>1 DEF LocalType
  <2>4. /\ addr[d] # None /\ seen[d] \subseteq seen'[d]
        /\ FirstMatch(table, addr[d]) \in seen'[d]
    BY <1>6, <2>1, <2>3
  <2>5. "direct" \in seen'[d] \/ \E i \in 1..len' : Has(d, i)'
    <3>1. CASE \A i \in 1..Len(table) : ~Contains(table[i], addr[d])
      BY <2>4, <3>1, NoMatchIsDirect
    <3>2. ASSUME NEW i \in 1..Len(table), Contains(table[i], addr[d])
          PROVE  Has(d, i)' /\ i \in 1..len'
      BY <1>2, <1>3, <1>4, <2>1, <2>3, <3>2 DEF Has, InView, RuleAt
    <3> QED
      BY <3>1, <3>2
  <2>6. ReaderInv(d)'
    BY <1>2, <2>1, <2>3, <2>4, <2>5 DEF ReaderInv, LeftInv
  <2> QED
    BY <1>2, <2>2, <2>3, <2>6, DialRest
<1>8. \A i \in Nat : Has(d, i) /\ (\A k \in 1..(i - 1) : ~Has(d, k)) /\ arr[d] = ptr =>
                         FirstMatch(table, addr[d]) = table[i].dialer
  <2> SUFFICES ASSUME NEW i \in Nat, Has(d, i), \A k \in 1..(i - 1) : ~Has(d, k), arr[d] = ptr
               PROVE  FirstMatch(table, addr[d]) = table[i].dialer
    OBVIOUS
  <2>1. i \in 1..Len(table) /\ Contains(table[i], addr[d])
    BY DEF Has, InView, RuleAt
  <2>2. ASSUME NEW k \in 1..(i - 1) PROVE ~Contains(table[k], addr[d])
    BY <1>3, <2>1 DEF Has, InView, RuleAt
  <2> QED
    BY <1>3, <2>1, <2>2, FirstMatchIs
<1>9. ASSUME arr'[d] = arr[d], addr' = addr
      PROVE  \A i : /\ InView(d, i)' = InView(d, i) /\ Has(d, i)' = Has(d, i)
                    /\ RuleAt(d, i)' = RuleAt(d, i)
  BY <1>2, <1>9 DEF InView, Has, RuleAt, Slot, Cap
<1>10. ASSUME arr'[d] = arr[d], addr' = addr, seen[d] \subseteq seen'[d], LeftInv(d)
       PROVE  LeftInv(d)'
  <2>1. Cap(arr[d])' = Cap(arr[d]) /\ \A i : Slot(arr[d], i)' = Slot(arr[d], i)
    BY <1>2, <1>10 DEF Cap, Slot
  <2> QED
    BY <1>2, <1>9, <1>10, <2>1 DEF LeftInv
<1>11. CASE LoadLen(d)
  <2>1. /\ pc[d] = "load_len" /\ num' = [num EXCEPT ![d] = len]
        /\ idx' = [idx EXCEPT ![d] = 1]
        /\ pc' = [pc EXCEPT ![d] = "scan"] /\ UNCHANGED <<arr, addr, answer>>
    BY <1>11 DEF LoadLen
  <2>2. LocalType'
    BY <1>1, <1>2, <1>3, <2>1 DEF LocalType
  <2>3. pc'[d] = "scan" /\ num'[d] = len /\ idx'[d] = 1
    BY <1>1, <1>3, <2>1 DEF LocalType
  <2>4. /\ addr[d] # None /\ seen[d] \subseteq seen'[d]
        /\ FirstMatch(table, addr[d]) \in seen'[d]
    BY <1>6, <2>1, <2>3
  <2>5. "direct" \in seen'[d] \/ \E i \in 1..num'[d] : Has(d, i)'
    BY <1>1, <1>9, <2>1, <2>3, <2>4 DEF ReaderInv
  <2>6. LeftInv(d)'
    BY <1>1, <1>10, <2>1, <2>4 DEF ReaderInv
  <2>7. ReaderInv(d)'
    BY <1>2, <2>1, <2>3, <2>4, <2>5, <2>6 DEF ReaderInv
  <2> QED
    BY <2>1, <2>2, <2>7, DialRest
<1>12. ASSUME NEW name, Return(d, name), pc[d] = "scan", addr' = addr,
              name # "torn" => name \in seen[d]
       PROVE  RuleSetInv'
  <2>1. /\ answer' = [answer EXCEPT ![d] = name]
        /\ pc' = [pc EXCEPT ![d] = IF name = "torn" THEN "torn" ELSE "end"]
        /\ arr' = [arr EXCEPT ![d] = 0] /\ num' = [num EXCEPT ![d] = 0]
        /\ idx' = [idx EXCEPT ![d] = 0]
    BY <1>12 DEF Return, Restart
  <2>2. LocalType'
    BY <1>1, <1>2, <1>3, <1>12, <2>1 DEF LocalType
  <2>3. pc'[d] = (IF name = "torn" THEN "torn" ELSE "end") /\ arr'[d] = 0 /\ answer'[d] = name
    BY <1>1, <1>3, <2>1 DEF LocalType
  <2>4. seen[d] \subseteq seen'[d]
    BY <1>6, <1>12, <2>3
  <2>5. ReaderInv(d)'
    BY <1>12, <2>3, <2>4 DEF ReaderInv
  <2> QED
    BY <2>2, <2>3, <2>5, DialRest
<1>13. CASE ScanDialer(d)
  <2>1. pc[d] = "scan" /\ idx[d] <= num[d] /\ addr' = addr
    BY <1>13 DEF ScanDialer, Scanning
  <2>2. idx[d] # 0 /\ \A i \in 1..(idx[d] - 1) : InView(d, i) /\ ~Has(d, i)
    BY <1>1, <2>1 DEF ReaderInv
  <2>3. CASE ~IsWritten(d)
    BY <1>12, <1>13, <2>1, <2>3 DEF ScanDialer
  <2>4. ASSUME IsWritten(d)
        PROVE  InView(d, idx[d]) /\ RuleAt(d, idx[d]) = Tried(d)
    <3>1. /\ arr[d] # 0 /\ idx[d] \in 1..Cap(arr[d]) /\ Slot(arr[d], idx[d]) # Half
      BY <1>3, <1>4, <2>2, <2>4 DEF IsWritten, Written, Cap
    <3>2. CASE arr[d] # ptr
      BY <3>1, <3>2 DEF InView, RuleAt, Tried, Element
    <3>3. CASE arr[d] = ptr
      <4>1. idx[d] \notin (Len(table) + 1)..Cap(ptr)
        BY <1>1, <3>1, <3>3 DEF ListInv
      <4>2. idx[d] \in 1..Len(table)
        BY <1>3, <1>4, <3>1, <3>3, <4>1
      <4> QED
        BY <1>1, <3>1, <3>3, <4>2 DEF ListInv, InView, RuleAt, Tried, Element
    <3> QED
      BY <3>2, <3>3
  <2>5. CASE IsWritten(d) /\ Contains(Tried(d), addr[d])
    <3>1. Return(d, Tried(d).dialer)
      BY <1>13, <2>5 DEF ScanDialer
    <3>2. Has(d, idx[d]) /\ RuleAt(d, idx[d]) = Tried(d) /\ InView(d, idx[d])
      BY <2>4, <2>5 DEF Has
    <3>3. CASE arr[d] = ptr
      <4>1. FirstMatch(table, addr[d]) = Tried(d).dialer
        BY <1>3, <1>8, <2>2, <3>2, <3>3 DEF RuleAt
      <4>2. FirstMatch(table, addr[d]) \in seen[d]
        BY <1>1, <2>1 DEF ReaderInv
      <4> QED
        BY <1>12, <2>1, <3>1, <4>1, <4>2
    <3>4. CASE arr[d] # ptr
      <4>1. LeftInv(d) /\ idx[d] \in 1..Cap(arr[d])
        BY <1>1, <2>1, <3>2, <3>4 DEF ReaderInv, InView
      <4>2. Tried(d).dialer \in seen[d]
        BY <2>2, <3>2, <3>4, <4>1 DEF LeftInv
      <4> QED
        BY <1>12, <2>1, <3>1, <4>2
    <3> QED
      BY <3>3, <3>4
  <2>6. CASE IsWritten(d) /\ ~Contains(Tried(d), addr[d])
    <3>1. idx' = [idx EXCEPT ![d] = idx[d] + 1] /\ UNCHANGED <<pc, arr, num, addr, answer>>
      BY <1>13, <2>6 DEF ScanDialer, Advance
    <3>2. LocalType'
      BY <1>1, <1>2, <1>3, <3>1 DEF LocalType
    <3>3. idx'[d] = idx[d] + 1 /\ pc'[d] = "scan"
      BY <1>1, <1>3, <2>1, <3>1 DEF LocalType
    <3>4. /\ addr[d] # None /\ seen[d] \subseteq seen'[d]
          /\ FirstMatch(table, addr[d]) \in seen'[d]
      BY <1>6, <2>1, <3>3
    <3>5. "direct" \in seen'[d] \/ \E i \in 1..num'[d] : Has(d, i)'
      BY <1>1, <1>9, <2>1, <3>1, <3>4 DEF ReaderInv
    <3>6. LeftInv(d)'
      BY <1>1, <1>10, <2>1, <3>1, <3>4 DEF ReaderInv
    <3>7. InView(d, idx[d]) /\ ~Has(d, idx[d])
      BY <2>4, <2>6 DEF Has
    <3>8. \A i \in 1..(idx'[d] - 1) : InView(d, i)' /\ ~Has(d, i)'
      <4>1. \A i \in 1..(idx'[d] - 1) : i = idx[d] \/ i \in 1..(idx[d] - 1)
        BY <1>3, <3>3
      <4> QED
        BY <1>9, <2>2, <3>1, <3>7, <4>1
    <3>9. ReaderInv(d)'
      BY <1>2, <1>3, <3>1, <3>3, <3>4, <3>5, <3>6, <3>8 DEF ReaderInv
    <3> QED
      BY <3>1, <3>2, <3>9, DialRest
  <2> QED
    BY <2>3, <2>5, <2>6
<1>14. CASE DialDirect(d)
  <2>1. pc[d] = "scan" /\ idx[d] > num[d] /\ addr' = addr /\ Return(d, "direct")
    BY <1>14 DEF DialDirect, Scanned
  <2>2. \A i \in 1..num[d] : i \in 1..(idx[d] - 1)
    BY <1>3, <2>1
  <2>3. "direct" \in seen[d]
    BY <1>1, <2>1, <2>2 DEF ReaderInv
  <2> QED
    BY <1>12, <2>1, <2>3
<1> QED
  BY <1>5, <1>7, <1>11, <1>13, <1>14 DEF DialNext

(***************************************************************************)
(* The theorems                                                            *)
(***************************************************************************)
\* The invariant holds before the first rule is added.
LEMMA RuleSetInit == HInit => RuleSetInv
<1> SUFFICES ASSUME HInit PROVE RuleSetInv
  OBVIOUS
<1> USE DEF HInit, Init
<1>1. Len(heap) = 0 /\ Len(table) = 0 /\ <<>> \in Seq(Seq(Slots)) /\ <<>> \in Seq(Added)
      /\ <<>> \in Seq(WireCIDRs)
  OBVIOUS
<1>2. AtWork = {}
  BY DEF AtWork, Goroutines
<1>3. TypeInv
  BY <1>1, <1>2, HalfIsNotAdded DEF TypeInv, SliceType, LocalType, Goroutines, Steps, Adding
<1>4. ListInv
  BY <1>1 DEF ListInv, Cap
<1>5. \A g \in Goroutines : pc[g] = "idle"
  OBVIOUS
<1>6. (\A c \in Commands : WriterInv(c)) /\ (\A d \in Conns : ReaderInv(d))
  BY <1>5 DEF WriterInv, ReaderInv, Goroutines
<1> QED
  BY <1>3, <1>4, <1>6 DEF RuleSetInv

\* AddRule and Dial (rules.go:58, 86): the inductive invariant, of any number of
\* commands and connections, when one command adds rules at a time.
THEOREM RuleSetInvariant == ASSUME AtOnce = 1 PROVE HSpec => []RuleSetInv
<1>1. RuleSetInv /\ [HNext]_hvars => RuleSetInv'
  <2> SUFFICES ASSUME RuleSetInv, [HNext]_hvars PROVE RuleSetInv'
    OBVIOUS
  <2>1. CASE HNext
    BY <2>1, CommandStep, DialStep DEF HNext, Next
  <2>2. CASE UNCHANGED hvars
    BY <2>2 DEF hvars, vars, slice, command, locals, conn, RuleSetInv, TypeInv, SliceType,
                LocalType, AtWork, ListInv, WriterInv, IsNew, ReaderInv, LeftInv, Has,
                InView, RuleAt, Slot, Cap
  <2> QED
    BY <2>1, <2>2
<1> QED
  BY <1>1, RuleSetInit, PTL DEF HSpec

\* AddRule (rules.go:58): the list that Dial will load is the table, order included,
\* whatever is replaced, appended or copied meanwhile.
THEOREM ListAlwaysTable == ASSUME AtOnce = 1 PROVE HSpec => []ListIsTable
<1>1. RuleSetInv => ListIsTable
  <2> SUFFICES ASSUME RuleSetInv, ~Storing PROVE RuleList = table
    BY DEF ListIsTable
  <2>1. /\ heap \in Seq(Seq(Slots)) /\ ptr \in 0..Len(heap) /\ len \in Nat
        /\ table \in Seq(Added)
    BY DEF RuleSetInv, TypeInv, SliceType
  <2>2. /\ len = Len(table) /\ len <= Cap(ptr)
        /\ \A i \in 1..len : Slot(ptr, i) = table[i]
    BY DEF RuleSetInv, ListInv, Storing
  <2>3. CASE ptr = 0
    BY <2>1, <2>2, <2>3 DEF RuleList, Cap
  <2>4. CASE ptr # 0
    <3>1. heap[ptr] \in Seq(Slots) /\ len <= Len(heap[ptr])
      BY <2>1, <2>2, <2>4 DEF Cap
    <3>2. /\ SubSeq(heap[ptr], 1, len) \in Seq(Slots) /\ Len(SubSeq(heap[ptr], 1, len)) = len
          /\ \A i \in 1..len : SubSeq(heap[ptr], 1, len)[i] = heap[ptr][i]
      BY <2>1, <3>1
    <3>3. table \in Seq(Slots)
      BY <2>1, HalfIsNotAdded
    <3> QED
      BY <2>2, <2>4, <3>2, <3>3, SeqEqual DEF RuleList, Slot
  <2> QED
    BY <2>3, <2>4
<1> QED
  BY <1>1, RuleSetInvariant, PTL

\* Dial (rules.go:86) answers what the first matching rule said at one instant of
\* the call, whatever is added, replaced or copied while it looks at the rules.
THEOREM DialAlwaysFirstMatch == ASSUME AtOnce = 1 PROVE HSpec => []DialAnswersFirstMatch
<1>1. RuleSetInv => DialAnswersFirstMatch
  BY DEF RuleSetInv, ReaderInv, DialAnswersFirstMatch
<1> QED
  BY <1>1, RuleSetInvariant, PTL
================================================================================
